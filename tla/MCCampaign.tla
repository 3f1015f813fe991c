---------------------------- MODULE MCCampaign -----------------------------
(* Campaign over the groups of the code, for TLC. *)
EXTENDS Campaign, Groups

SeriesAll == <<"p_series", "empty">>
ScalarsAll == <<"p_scalar", "nl_scalar">>
EndpointsAll == <<"trailing_nd", "all_nd">>
LabelsAll == <<"ascii", "vector_mixed">>
CodesAll == <<"weekly">>
DateValuesAll == <<"dv_case_of_monthly">>
KindsAll == <<"numeric_series", "namelist">>
MissingsAll == <<"precision:nc">>
ArchivedAll == <<"m_precision", "m_pseries">>
RawsAll == <<"m_pseries_nd">>

\* Two dependents after lifecycle, and each other group by itself.
SelectionsAll ==
    {{"lifecycle", "discovery", "commands"}} \cup
    {{g} : g \in ToSet(GROUPS) \ {"lifecycle", "discovery", "commands"}}
=============================================================================
