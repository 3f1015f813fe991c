------------------------------- MODULE Groups -------------------------------
(* The validation groups (validation/_groups.py, _bridge_groups.py,           *)
(* _text_group.py and _migration_group.py) as scripts: the sequence of what    *)
(* the group function does to its Recorder, what it guards a step with, which  *)
(* callable of the group a step runs in, and the REQUIRED_CASES of the group.  *)
(* The fixtures and the values compared are left out; the large tables of      *)
(* fixtures are the constants, of which a few members stand for all. The       *)
(* comparison with Julia is left out.                                          *)
EXTENDS SequencesExt

CONSTANTS Series,      \* SERIES_CASES of the raw matrix; "empty" is special
          Scalars,     \* SCALAR_CASES; "nl_scalar" stands for the name lists
          Endpoints,   \* the endpoint fixtures; "all_nd" has no normal value
          Labels,      \* the labels of the text corpus
          Codes,       \* the calendar frequencies
          DateValues,  \* the date value fixtures of the frequencies group
          Kinds,       \* KIND_NAMES of the bridge
          Missings,    \* kind and category of the missing value matrix
          Archived,    \* FIXTURE_NAMES of the migration group
          Raws         \* RAW_NAMES of the migration group

-----------------------------------------------------------------------------
(* Steps. op says what happens:                                               *)
(*   check   a case whose callable's error is recorded (check, ok, expect)     *)
(*   equal   a case whose operands are computed before: an error escapes       *)
(*   bare    a call that records nothing: an error escapes                     *)
(*   init    the same, the initialization of the session                       *)
(*   close   the end of the callable given to the check of case id             *)
(*   fact    an observation        block  the ids without a record: blocked    *)
(*   spawn   a nested worker       adopt  one case the nested worker reports   *)
(*   sum     a case that passes when "given" did                                *)
(*   probe   whether DataEcon is there     unsupported  a case of that status    *)
(*   stop    return from the group function                                    *)
(* A step runs in the callable "in" when the cases "when" passed and, where    *)
(* there are any, not all of "unless" did; it can pass only after "given".     *)
Step(op, id) ==
    <<[op |-> op, id |-> id, in |-> "none", of |-> "none",
       when |-> {}, unless |-> {}, given |-> {}, ids |-> <<>>]>>

Each(objects, Steps(_)) ==
    FlattenSeq([i \in DOMAIN objects |-> Steps(objects[i])])

Check(id) == Step("check", id)
Checks(ids) == Each(ids, Check)
Equal(id) == Step("equal", id)
Equals(ids) == Each(ids, Equal)
Bare == Step("bare", "none")
Initialize == Step("init", "none")
Fact(id) == Step("fact", id)
Stop == Step("stop", "none")
Derived(id, given) == <<[Check(id)[1] EXCEPT !.given = given]>>
Block(ids) == <<[Step("block", "none")[1] EXCEPT !.ids = ids]>>

\* The steps below a guard, and those of its other branch.
If(passed, steps) ==
    [i \in DOMAIN steps |-> [steps[i] EXCEPT !.when = @ \cup passed]]
Else(passed, steps) ==
    [i \in DOMAIN steps |-> [steps[i] EXCEPT !.unless = @ \cup passed]]

\* The callable of the check of case id: an error inside it ends it.
Inside(id, steps) ==
    [i \in DOMAIN steps |->
        [steps[i] EXCEPT !.in = IF @ = "none" THEN id ELSE @]] \o Step("close", id)

Ids(prefix, objects) == [i \in DOMAIN objects |-> prefix \o objects[i]]

\* Context._run_nested: the cases of the worker, under the id of the launch.
Nested(id, parts) ==
    Step("spawn", id) \o
    [i \in DOMAIN parts |->
        [parts[i] EXCEPT !.op = "adopt", !.of = id, !.id = id \o ":" \o @,
                         !.when = {id} \cup @]]

\* verify_in_new_process: the manifest is made and written, then the worker started;
\* run_verify: the metadata and the values of an object that could be read.
VerifyIds(id, objects) ==
    Each(objects, LAMBDA o : <<id \o ":reopen:" \o o, id \o ":meta:" \o o,
                               id \o ":values:" \o o>>)
Verify(id, objects, needs) ==
    Bare \o Nested(id, Each(objects, LAMBDA o :
        If(needs[o], Check("reopen:" \o o) \o
            If({id \o ":reopen:" \o o}, Checks(<<"meta:" \o o, "values:" \o o>>)))))

RunVerifyMigration(id, objects, needs) ==
    Bare \o Nested(id, Check("status") \o
                       Each(objects, LAMBDA o : If(needs[o], Check("object:" \o o))))

\* Objects that are all read, whatever became of them.
Always(objects) == [o \in ToSet(objects) |-> {}]

-----------------------------------------------------------------------------
FreshProcess == <<"initialize", "version", "version_is_positive", "finalize",
                  "finalized_state">>

Lifecycle ==
    Check("initialize") \o Equal("idempotent_initialize") \o Check("version") \o
    Derived("version_is_positive", {"version"}) \o Check("sentinels_read") \o
    If({"sentinels_read"},
        Check("sentinel_facts") \o Fact("string_sentinel_lengths") \o
        Fact("string_sentinels_are_ascii") \o Fact("precision_sentinels_are_nan")) \o
    Check("reset_unsupported_while_active") \o
    Equal("still_initialized_after_reset_refusal") \o
    Checks(<<"finalize", "finalized_state", "finalize_again_harmless",
             "reinitialize_rejected">>) \o Bare \o
    Checks(<<"new_wrapper_rejected", "new_wrapper_untouched",
             "reset_unsupported_after_finalize", "operation_after_finalize_rejected",
             "state_stays_finalized">>) \o
    Nested("fresh_process", Checks(FreshProcess))

LifecycleRequired ==
    {"initialize", "idempotent_initialize", "version", "version_is_positive",
     "sentinels_read", "sentinel_facts", "reset_unsupported_while_active",
     "still_initialized_after_reset_refusal", "finalize", "finalized_state",
     "finalize_again_harmless", "reinitialize_rejected", "new_wrapper_rejected",
     "new_wrapper_untouched", "reset_unsupported_after_finalize",
     "operation_after_finalize_rejected", "state_stays_finalized",
     "fresh_process:initialize", "fresh_process:version_is_positive",
     "fresh_process:finalize", "fresh_process:finalized_state"}

\* One connection mode: its cases on an existing file need the fixture.
Refused(mode) ==
    LET local == Ids("mode_" \o mode, <<"_refused", "_native_status",
                                        "_fixture_unchanged">>)
        fixture == "mode_" \o mode \o "_fixture"
    IN  Check(fixture) \o If({fixture}, Checks(local)) \o
        Else({fixture}, Block(local)) \o
        Checks(Ids("mode_" \o mode, <<"_new_path_status", "_new_path_absent">>))

Database ==
    Initialize \o Check("create_write_post_close") \o Check("reopen_readonly") \o
    Derived("reopen_readonly_value", {"reopen_readonly"}) \o
    Verify("cross_process_scalar", <<"kept">>, Always(<<"kept">>)) \o
    Check("close_without_post") \o
    If({"close_without_post"}, Fact("observed_unposted_write_discarded")) \o
    Checks(<<"readonly_missing_file", "create_existing_file", "mode_readonly",
             "mode_update", "mode_shared">>) \o
    Refused("write") \o Refused("direct_write") \o
    Check("mode_overwrite") \o Derived("mode_overwrite_empties", {"mode_overwrite"}) \o
    Check("work_database_flow") \o Derived("work_database", {"work_database_flow"}) \o
    Bare \o Checks(<<"finalize", "stale_handle_after_finalize",
                     "stale_close_harmless", "stale_handle_closed">>)

DatabaseRequired ==
    {"create_write_post_close", "reopen_readonly", "reopen_readonly_value",
     "close_without_post", "readonly_missing_file", "create_existing_file",
     "mode_readonly", "mode_update", "mode_shared", "mode_overwrite",
     "mode_overwrite_empties", "work_database_flow", "work_database",
     "stale_handle_after_finalize", "stale_close_harmless", "finalize"} \cup
    {"mode_" \o m \o s : m \in {"write", "direct_write"},
        s \in {"_fixture", "_refused", "_native_status", "_fixture_unchanged",
               "_new_path_status", "_new_path_absent"}} \cup
    ToSet(VerifyIds("cross_process_scalar", <<"kept">>))

-----------------------------------------------------------------------------
Objects == Series \o Scalars \o Endpoints

\* The cases the read-back of an object produces (_object_case_ids).
ObjectIds(o) ==
    IF o \in ToSet(Endpoints)
    THEN Ids("endpoint_", <<"read:", "retained:", "explicit:">> \o
             IF o = "all_nd" THEN <<>> ELSE <<"interior:">>)
    ELSE <<"read:", "values:">> \o
         (IF o \in ToSet(Series) THEN <<"kind:">> ELSE <<>>) \o
         IF o \in {"empty", "nl_scalar"} THEN <<>> ELSE <<"classifier_agreement:">>

ObjectCases(o) == [i \in DOMAIN ObjectIds(o) |-> ObjectIds(o)[i] \o o]

ReadSeries(o) ==
    Check("read:" \o o) \o
    Else({"read:" \o o},
        Block(<<"values:" \o o, "kind:" \o o, "classifier_agreement:" \o o>>)) \o
    If({"read:" \o o},
        Check("values:" \o o) \o
        (IF o = "empty" THEN <<>> ELSE Equal("classifier_agreement:" \o o)) \o
        Equal("kind:" \o o))

ReadScalar(o) ==
    Check("read:" \o o) \o
    Else({"read:" \o o}, Block(<<"values:" \o o, "classifier_agreement:" \o o>>)) \o
    If({"read:" \o o},
        Check("values:" \o o) \o
        IF o = "nl_scalar"
        THEN Fact("namelist_length:" \o o) \o Fact("namelist_layout:" \o o)
        ELSE Equal("classifier_agreement:" \o o))

ReadEndpoint(o) ==
    Check("endpoint_read:" \o o) \o
    Else({"endpoint_read:" \o o}, Block(ObjectCases(o))) \o
    If({"endpoint_read:" \o o},
        Fact("endpoint_range:" \o o) \o Fact("endpoint_codes:" \o o) \o
        Check("endpoint_retained:" \o o) \o Equal("endpoint_explicit:" \o o) \o
        IF o = "all_nd" THEN <<>> ELSE Check("endpoint_interior:" \o o))

VerifyOne(o) ==
    CASE o \in ToSet(Series)    -> ReadSeries(o)
      [] o \in ToSet(Scalars)   -> ReadScalar(o)
      [] o \in ToSet(Endpoints) -> ReadEndpoint(o)

ExtraIds == <<"empty_series_is_empty", "empty_quick_info", "subrange_read",
              "subrange_first_index", "period_round_trip">>

ExtraChecks ==
    If({"write:empty"}, Bare \o Equals(<<"empty_series_is_empty", "empty_quick_info">>)) \o
    If({"write:p_series"}, Bare \o Checks(<<"subrange_read", "subrange_first_index">>)) \o
    Equal("period_round_trip")

MatrixReadIds ==
    Ids("verify_object:", Objects) \o Each(Objects, ObjectCases) \o ExtraIds

ReplaceIds ==
    <<"replace_fixture", "replace_opt_out", "replace_opt_out_unchanged",
      "replace_existing", "replace_value", "delete_fixture", "delete_object",
      "delete_missing_ok", "deleted_object_absent", "post_after_replace">>

ReplaceFlow ==
    Bare \o Check("replace_fixture") \o
    If({"replace_fixture"},
        Check("replace_opt_out") \o Fact("existing_name_status") \o
        Checks(<<"replace_opt_out_unchanged", "replace_existing">>) \o
        If({"replace_existing"}, Equal("replace_value"))) \o
    Check("delete_fixture") \o
    If({"delete_fixture"},
        Checks(<<"delete_object", "delete_missing_ok", "deleted_object_absent">>)) \o
    Check("post_after_replace")

\* The objects of the cross-process manifest: written, and read if endpoints.
InManifest(o) ==
    {"write:" \o o} \cup
    IF o \in ToSet(Endpoints)
    THEN {"endpoint_read:" \o o, "verify_object:" \o o} ELSE {}

RawMatrix ==
    Initialize \o Check("build_fixtures") \o
    Else({"build_fixtures"}, Check("finalize") \o Stop) \o
    Inside("create_matrix", Bare \o Checks(Ids("write:", Objects)) \o
                            Check("post_matrix")) \o
    Block(Ids("write:", Objects)) \o
    Inside("open_matrix",
        Bare \o
        Each(Objects, LAMBDA o :
            If({"write:" \o o}, Inside("verify_object:" \o o, VerifyOne(o)) \o
                                Block(ObjectCases(o)))) \o
        Inside("extra_checks", ExtraChecks)) \o
    Block(MatrixReadIds) \o
    Verify("cross_process_matrix", Objects,
           [o \in ToSet(Objects) |-> InManifest(o)]) \o
    Block(VerifyIds("cross_process_matrix", Objects)) \o
    Inside("replace_and_delete", ReplaceFlow) \o Block(ReplaceIds) \o
    Check("finalize")

RawMatrixRequired ==
    {"build_fixtures", "create_matrix", "post_matrix", "open_matrix",
     "extra_checks", "replace_and_delete", "finalize"} \cup
    ToSet(Ids("write:", Objects) \o MatrixReadIds \o ReplaceIds \o
          VerifyIds("cross_process_matrix", Objects))

-----------------------------------------------------------------------------
DiscoveryCases ==
    Checks(<<"list_all", "wildcard_question", "wildcard_caret", "filter_class_series",
             "filter_type_numeric", "filter_frequency_monthly", "filter_frequency_case",
             "filter_frequency_mixed", "filter_frequency_code",
             "filter_frequency_with_class", "filter_frequency_excludes_scalars",
             "filter_frequency_family_refused", "filter_frequency_invalid_refused",
             "filter_frequency_undefined", "filter_frequency_undefined_with_monthly",
             "options_normalized_after_listing">>) \o
    Fact("scalar_frequency_codes") \o
    Each(Ids("native_selector_count:",
             <<"monthly_family", "case_index", "date_index">>), Fact) \o
    Checks(<<"alias_off_lists", "scalar_range_from_quick_info", "long_name_length",
             "truncation_reported", "listing_after_truncation_still_works">>)

\* DISCOVERY_REQUIRED without its last member, the finalization.
DiscoveryIds ==
    <<"populate", "listing", "list_all", "wildcard_question", "wildcard_caret",
      "filter_class_series", "filter_type_numeric", "filter_frequency_monthly",
      "filter_frequency_case", "filter_frequency_mixed", "filter_frequency_code",
      "filter_frequency_with_class", "filter_frequency_excludes_scalars",
      "filter_frequency_family_refused", "filter_frequency_invalid_refused",
      "filter_frequency_undefined", "filter_frequency_undefined_with_monthly",
      "options_normalized_after_listing", "alias_off_lists",
      "scalar_range_from_quick_info", "long_name_length", "truncation_reported",
      "listing_after_truncation_still_works">>

Discovery ==
    Initialize \o Check("populate") \o Inside("listing", Bare \o DiscoveryCases) \o
    Block(DiscoveryIds) \o Check("finalize")

DiscoveryRequired == ToSet(DiscoveryIds) \cup {"finalize"}

Commands ==
    Initialize \o Check("display_command") \o
    Derived("display_evaluates", {"display_command"}) \o Check("quiet_command") \o
    Derived("quiet_returns_empty", {"quiet_command"}) \o Bare \o
    Check("input_expansion") \o
    Derived("input_expanded_evaluates", {"input_expansion"}) \o Bare \o
    Checks(<<"input_cycle_refused", "computed_file_refused", "invalid_command_status">>) \o
    Each(<<"invalid_command_stage", "invalid_command_restored",
           "invalid_command_output_captured">>,
         LAMBDA c : Derived(c, {"invalid_command_status"})) \o
    Equal("temp_files_removed") \o
    Checks(<<"command_after_failure", "extended_error_not_configured", "finalize">>)

CommandsRequired ==
    {"display_command", "display_evaluates", "quiet_command", "quiet_returns_empty",
     "input_expansion", "input_expanded_evaluates", "input_cycle_refused",
     "computed_file_refused", "invalid_command_status", "invalid_command_stage",
     "invalid_command_restored", "invalid_command_output_captured",
     "temp_files_removed", "command_after_failure", "extended_error_not_configured",
     "finalize"}

ExtendedErrors ==
    Check("initialize") \o Bare \o
    Checks(<<"retrieval_off_by_default", "enable_retrieval", "failing_command_status">>) \o
    Derived("extended_text_captured", {"failing_command_status"}) \o
    Derived("extended_text_redacted", {"extended_text_captured"}) \o
    Checks(<<"capture_failure_none", "text_retrievable_after">>) \o
    If({"extended_text_captured"},
        Fact("extended_text_length") \o Fact("extended_text_is_ascii")) \o
    Checks(<<"command_after_capture", "missing_database_status">>) \o
    Fact("missing_database_text_length") \o Check("finalize")

ExtendedErrorsRequired ==
    {"initialize", "retrieval_off_by_default", "enable_retrieval",
     "failing_command_status", "extended_text_captured", "extended_text_redacted",
     "capture_failure_none", "text_retrievable_after", "command_after_capture",
     "finalize"}

-----------------------------------------------------------------------------
\* contained_write: one case per object, and one that all were written. When
\* the write itself raises, no object has a case.
Contained(id, prefix, objects) ==
    Step("spawn", id) \o If({id}, Checks(Ids(prefix, objects))) \o
    <<[Step("sum", id)[1] EXCEPT !.when = {id},
                                 !.given = ToSet(Ids(prefix, objects))]>>

\* Cases of an object, blocked when its own case did not pass.
Dependents(own, cases) == If({own}, Checks(cases)) \o Else({own}, Block(cases))

EmptyIds == Ids("empty:", <<"t1", "t2", "t3", "t4", "t5", "t6">>)

BridgeValueCases ==
    Contained("write_kinds", "write_kind:", Kinds) \o
    Each(Kinds, LAMBDA k : Dependents("write_kind:" \o k, <<"kind:" \o k>>)) \o
    Check("library_reserved_name_status") \o Bare \o Check("write_missing_matrix") \o
    Bare \o Checks(Ids("missing_raw:", Missings)) \o
    Dependents("write_kind:numeric_series", <<"kinds_raw_nan_as_nc">>) \o
    Checks(Ids("missing:", Missings) \o
           <<"missing_strict_refused", "boolean_missing_never_true",
             "write_empty_matrix">> \o EmptyIds \o <<"empty_preserve_needs_firstdate">>)

BridgeRead ==
    Bare \o Checks(<<"firstdate", "values_with_nan", "strict_missing">>) \o
    Equals(<<"scalar", "scalar_nan">>) \o Check("empty_needs_firstdate") \o
    Equals(<<"empty_with_firstdate", "reference_empty_preserved">>) \o
    Bare \o Check("reference_empty_collapsed") \o
    Bare \o Checks(<<"nan_written_as_nc", "nc_sentinel_value_matches">>)

Bridge ==
    Initialize \o Check("bridge_write") \o Inside("bridge_read", BridgeRead) \o
    BridgeValueCases \o Verify("cross_process_bridge", <<"sc">>, Always(<<"sc">>)) \o
    Step("unsupported", "julia_differential") \o Check("finalize")

BridgeRequired ==
    {"bridge_write", "bridge_read", "firstdate", "values_with_nan", "strict_missing",
     "scalar", "scalar_nan", "empty_needs_firstdate", "empty_with_firstdate",
     "reference_empty_preserved", "reference_empty_collapsed", "nan_written_as_nc",
     "nc_sentinel_value_matches", "write_kinds", "library_reserved_name_status",
     "write_missing_matrix", "kinds_raw_nan_as_nc", "missing_strict_refused",
     "boolean_missing_never_true", "write_empty_matrix",
     "empty_preserve_needs_firstdate", "finalize"} \cup
    ToSet(Ids("write_kind:", Kinds) \o Ids("kind:", Kinds) \o
          Ids("missing:", Missings) \o Ids("missing_raw:", Missings) \o EmptyIds \o
          VerifyIds("cross_process_bridge", <<"sc">>))

FixtureNames == Each(Codes, LAMBDA c : <<"f_" \o c, "d_" \o c>>) \o DateValues

\* The read-back cases of an object of the frequencies group.
ReadBack(o) ==
    IF o \in ToSet(DateValues) THEN <<"date_values:" \o o, "date_values_raw:" \o o>>
    ELSE LET c == CHOOSE c \in ToSet(Codes) : o \in {"f_" \o c, "d_" \o c}
         IN  IF o = "f_" \o c
             THEN <<"series_round_trip:" \o c, "series_raw_categories:" \o c>>
             ELSE <<"date_scalar_round_trip:" \o c, "date_scalar_raw:" \o c>>

CalendarIds(c) == <<"inverse:" \o c, "adjacent:" \o c, "year_boundary:" \o c,
                    "periods_in_year:" \o c>>

CalendarFacts(c) ==
    Checks(CalendarIds(c)) \o
    IF c = "weekly" THEN Bare \o Fact("library_last_week_2020:" \o c) ELSE <<>>

FrequencyIds == Each(Codes, CalendarIds) \o Each(FixtureNames, ReadBack)

CaseValueCases ==
    <<"case_date_scalar_refused", "case_date_series_refused",
      "case_empty_date_series_refused", "case_missing_date_series_refused",
      "raw_case_date_scalar_refused", "raw_case_date_series_refused",
      "case_date_write_unchanged", "library_case_type_status">>

ReadDependents(o) ==
    IF o \in ToSet(DateValues)
    THEN Else({"write:" \o o}, Block(ReadBack(o))) \o
         If({"write:" \o o}, Check(ReadBack(o)[1]) \o Equal(ReadBack(o)[2]))
    ELSE Dependents("write:" \o o, ReadBack(o))

\* The moment of a code is converted anew before its two objects are read.
ReadAll ==
    Each(Codes, LAMBDA c : Bare \o ReadDependents("f_" \o c) \o
                           ReadDependents("d_" \o c)) \o
    Each(DateValues, ReadDependents)

Frequencies ==
    Initialize \o Check("fixtures") \o Else({"fixtures"}, Check("finalize") \o Stop) \o
    Each(Codes, CalendarFacts) \o Contained("write_frequencies", "write:", FixtureNames) \o
    If({"write_frequencies"}, Bare \o ReadAll) \o
    Else({"write_frequencies"}, Block(FrequencyIds)) \o
    Checks(<<"unsupported_frequency_refused", "case_index_passthrough">> \o
           CaseValueCases) \o Bare \o
    Each(FixtureNames, LAMBDA o :
        Else({"write:" \o o}, Block(VerifyIds("cross_process_frequencies", <<o>>)))) \o
    Verify("cross_process_frequencies", FixtureNames,
           [o \in ToSet(FixtureNames) |-> {"write:" \o o}]) \o
    Check("finalize")

FrequenciesRequired ==
    {"fixtures", "write_frequencies", "unsupported_frequency_refused",
     "case_index_passthrough", "finalize"} \cup
    ToSet(Ids("write:", FixtureNames) \o FrequencyIds \o CaseValueCases \o
          VerifyIds("cross_process_frequencies", FixtureNames))

WorkspaceVerified == <<"A", "B", "C_N_S", "S_P">>

Workspaces ==
    Initialize \o Checks(<<"write_reference", "listing_count", "read_all",
                           "read_all_values">>) \o
    Bare \o Checks(<<"b_raw_categories", "read_explicit_order", "read_wildcard",
                     "read_wildcard_prefix", "read_collect", "read_nested_collect",
                     "read_prefix_all", "write_colliders", "collision_refused",
                     "branch_collision_refused", "absent_name_status",
                     "write_unconvertible", "report_failures", "report_raw_fallback",
                     "write_report_complete", "write_multiple_inputs",
                     "nan_written_as_nc_series">>) \o
    Verify("cross_process_workspace", WorkspaceVerified, Always(WorkspaceVerified)) \o
    Check("finalize")

WorkspacesRequired ==
    {"write_reference", "listing_count", "read_all", "read_all_values",
     "b_raw_categories", "read_explicit_order", "read_wildcard",
     "read_wildcard_prefix", "read_collect", "read_nested_collect",
     "read_prefix_all", "collision_refused", "branch_collision_refused",
     "absent_name_status", "report_failures", "report_raw_fallback",
     "write_report_complete", "write_multiple_inputs", "nan_written_as_nc_series",
     "finalize"} \cup ToSet(VerifyIds("cross_process_workspace", WorkspaceVerified))

-----------------------------------------------------------------------------
AllNames == Archived \o Raws
CorruptedNames == <<"m_pseries", "m_pseries_nd", "m_weekly", "m_empty">>

LossyIds == <<"lossy_policy_refuses_boolean", "lossy_loss_reported",
              "lossy_status_incomplete">>
PartialIds == <<"contained_failure_reported", "contained_status_incomplete",
                "incomplete_archive_refused", "incomplete_archive_unchanged",
                "incomplete_archive_status_kept">>

NegativeIds ==
    <<"existing_destination_refused", "existing_destination_unchanged",
      "refused_plan_creates_nothing", "refused_plan_no_file", "collision_refused",
      "collision_creates_nothing", "invalid_firstdate_refused",
      "invalid_firstdate_no_file", "stale_plan_refused", "stale_plan_no_file",
      "lossy_migrate">> \o LossyIds \o <<"partial_migrate">> \o PartialIds \o
    <<"finished_archive_refused", "finished_archive_unchanged", "corruption_detected",
      "shifted_mask_detected", "wrong_frequency_detected", "nonempty_empty_detected",
      "cross_process_corruption:status">> \o
    Ids("cross_process_corruption:object:", CorruptedNames)

\* MIGRATION_REQUIRED, in its order; its last member is the finalization.
MigrationIds ==
    <<"dataecon_available", "write_fixtures">> \o Ids("write:", AllNames) \o
    <<"plan", "plan_actions", "migrate", "migration_complete",
      "status_attributes">> \o Ids("readback:", AllNames) \o
    <<"cross_process_migration:status">> \o
    Ids("cross_process_migration:object:", AllNames) \o NegativeIds \o <<"finalize">>

NegativeCases ==
    Bare \o Check("existing_destination_refused") \o
    Equal("existing_destination_unchanged") \o Bare \o
    Checks(<<"refused_plan_creates_nothing", "refused_plan_no_file",
             "collision_refused", "collision_creates_nothing",
             "invalid_firstdate_refused", "invalid_firstdate_no_file">>) \o Bare \o
    Checks(<<"stale_plan_refused", "stale_plan_no_file", "lossy_migrate">>) \o
    If({"lossy_migrate"}, Checks(<<LossyIds[1], LossyIds[2]>>) \o Equal(LossyIds[3])) \o
    Else({"lossy_migrate"}, Block(LossyIds)) \o
    Bare \o Check("partial_migrate") \o
    If({"partial_migrate"},
        Check("contained_failure_reported") \o Equal("contained_status_incomplete") \o
        Bare \o Check("incomplete_archive_refused") \o
        Equals(<<"incomplete_archive_unchanged", "incomplete_archive_status_kept">>)) \o
    Else({"partial_migrate"}, Block(PartialIds)) \o
    Bare \o Check("finished_archive_refused") \o Equal("finished_archive_unchanged") \o
    Bare \o Checks(<<"corruption_detected", "shifted_mask_detected",
                     "wrong_frequency_detected", "nonempty_empty_detected">>) \o
    RunVerifyMigration("cross_process_corruption", CorruptedNames, Always(CorruptedNames))

\* Both ways out before the end: block what has no record, finalize, return.
GiveUp == Block(MigrationIds) \o Check("finalize") \o Stop

Migrations ==
    Bare \o Step("probe", "dataecon_available") \o
    Else({"dataecon_available"}, Block(MigrationIds) \o Stop) \o Initialize \o
    Contained("write_fixtures", "write:", Archived) \o
    Bare \o Checks(Ids("write:", Raws)) \o Bare \o
    Each(AllNames, LAMBDA o : Else({"write:" \o o},
        Block(<<"readback:" \o o, "cross_process_migration:object:" \o o>>))) \o
    Check("plan") \o Else({"plan"}, GiveUp) \o
    Checks(<<"plan_actions", "migrate">>) \o Else({"migrate"}, GiveUp) \o
    Check("migration_complete") \o Bare \o Check("status_attributes") \o
    Each(AllNames, LAMBDA o : If({"write:" \o o}, Check("readback:" \o o))) \o
    RunVerifyMigration("cross_process_migration", AllNames,
                       [o \in ToSet(AllNames) |-> {"write:" \o o}]) \o
    NegativeCases \o Check("finalize")

WriteAndRead(label) ==
    Check("write:" \o label) \o
    Dependents("write:" \o label,
               <<"raw:" \o label, "utf8:" \o label, "bytes:" \o label,
                 "ascii:" \o label>>)

MissingIds == <<"missing_written", "missing_before_decode", "missing_categories_utf8">>
InvalidIds == <<"invalid_utf8_refused", "invalid_utf8_bytes_readable",
                "invalid_utf8_ascii_refused">>
WorkspaceIds == <<"workspace_report_contains", "workspace_report_written",
                  "workspace_utf8_read", "workspace_ascii_read_fails",
                  "workspace_raw_fallback">>
CarrierIds == <<"write_default_ascii", "raw_default_ascii", "text_carrier_utf8",
                "text_carrier_utf8_read">>
RefusalIds == <<"refuse_nonascii_default", "refuse_surrogate", "refuse_nul",
                "refusals_left_no_object">>

\* Every text of the corpus is in the manifest, written or not.
Text ==
    Check("initialize") \o Bare \o
    Checks(<<"corpus_bytes_agree", "refuse_invalid_policy",
             "refuse_invalid_policy_no_file">>) \o
    Bare \o Checks(RefusalIds) \o Each(Labels, WriteAndRead) \o
    Checks(CarrierIds \o MissingIds) \o Bare \o Checks(InvalidIds \o WorkspaceIds) \o
    Bare \o
    Nested("cross_process", Each(Labels, LAMBDA o :
        Derived("reopen:" \o o, {"write:" \o o}) \o
        If({"cross_process:reopen:" \o o}, Checks(<<"meta:" \o o, "values:" \o o>>)))) \o
    Step("unsupported", "julia_text") \o Check("finalize")

TextRequired ==
    {"initialize", "corpus_bytes_agree", "refuse_invalid_policy",
     "refuse_invalid_policy_no_file", "finalize"} \cup
    ToSet(RefusalIds \o CarrierIds \o MissingIds \o InvalidIds \o WorkspaceIds \o
          Ids("write:", Labels) \o Ids("raw:", Labels) \o Ids("utf8:", Labels) \o
          Ids("bytes:", Labels) \o Ids("ascii:", Labels) \o
          VerifyIds("cross_process", Labels))

-----------------------------------------------------------------------------
GROUPS == <<"lifecycle", "database", "raw_matrix", "discovery", "commands", "bridge",
            "frequencies", "workspace", "extended_errors", "migration", "text">>

GroupFunctions ==
    [lifecycle |-> Lifecycle, database |-> Database, raw_matrix |-> RawMatrix,
     discovery |-> Discovery, commands |-> Commands, bridge |-> Bridge,
     frequencies |-> Frequencies, workspace |-> Workspaces,
     extended_errors |-> ExtendedErrors, migration |-> Migrations, text |-> Text]

REQUIRED_CASES ==
    [lifecycle |-> LifecycleRequired, database |-> DatabaseRequired,
     raw_matrix |-> RawMatrixRequired, discovery |-> DiscoveryRequired,
     commands |-> CommandsRequired, bridge |-> BridgeRequired,
     frequencies |-> FrequenciesRequired, workspace |-> WorkspacesRequired,
     extended_errors |-> ExtendedErrorsRequired,
     migration |-> ToSet(MigrationIds), text |-> TextRequired]

\* Of each group, the cases that are about one object only.
ObjectFamilies ==
    [g \in ToSet(GROUPS) |->
        CASE g = "raw_matrix" ->
                {{"write:" \o o, "verify_object:" \o o} \cup ToSet(ObjectCases(o)) \cup
                 ToSet(VerifyIds("cross_process_matrix", <<o>>)) : o \in ToSet(Objects)}
          [] g = "frequencies" ->
                {{"write:" \o o} \cup ToSet(ReadBack(o)) \cup
                 ToSet(VerifyIds("cross_process_frequencies", <<o>>)) :
                    o \in ToSet(FixtureNames)}
          [] g = "bridge" -> {{"write_kind:" \o k, "kind:" \o k} : k \in ToSet(Kinds)}
          [] g = "migration" ->
                {{"write:" \o o, "readback:" \o o,
                  "cross_process_migration:object:" \o o} : o \in ToSet(AllNames)}
          [] g = "text" ->
                {{p \o l : p \in {"write:", "raw:", "utf8:", "bytes:", "ascii:"}} \cup
                 ToSet(VerifyIds("cross_process", <<l>>)) : l \in ToSet(Labels)}
          [] OTHER -> {}]
=============================================================================
