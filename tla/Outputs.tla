------------------------------ MODULE Outputs ------------------------------
(***************************************************************************)
(* The reports of a run: src/io/tap.c, src/io/xml.c and src/io/json.c say  *)
(* what a report holds, src/io/output.c and src/compat/path.c where it is  *)
(* written.                                                                *)
(*                                                                         *)
(* The statistics st of a run are its counters g and its suites, each with *)
(* its name, its counters ss and its tests [name, t]; a report is a record *)
(* of what its text says, in the same order.  Wording and times are left   *)
(* out.                                                                    *)
(***************************************************************************)
EXTENDS Naturals, Sequences, FiniteSets, Stats

Providers == {"tap", "xml", "json"}

----------------------------------------------------------------------------
(* One test.                                                               *)

\* get_status_string of xml.c and of json.c
get_status_string(t) ==
    CASE t.crashed \/ t.timed_out -> "ERRORED"
      [] OTHER                    -> t.test_status

\* What an XML or a JSON report says besides the status.
details(t) ==
    CASE t.test_status = SKIPPED -> "skipped"
      [] t.test_status # SKIPPED /\ t.crashed -> "crashed"
      [] t.test_status # SKIPPED /\ ~t.crashed /\ t.timed_out -> "timed out"
      [] OTHER -> IF t.test_status = FAILED THEN "messages" ELSE "nothing"

\* A slip: a crash looked for in the status alone.
tap_line_Status(t) ==
    CASE t.test_status = SKIPPED -> <<"ok", "# SKIP">>
      [] OTHER -> <<IF t.test_status = FAILED /\ ~t.crashed THEN "not ok" ELSE "ok", "">>

\* print_test of tap.c
tap_line(t) ==
    CASE t.test_status = SKIPPED -> <<"ok", "# SKIP">>
      [] t.test_status # SKIPPED /\ t.crashed -> <<"not ok", "unexpected signal">>
      [] t.test_status # SKIPPED /\ ~t.crashed /\ t.timed_out ->
            <<"not ok", "timed out">>
      [] OTHER -> <<IF t.test_status = FAILED THEN "not ok" ELSE "ok", "">>

----------------------------------------------------------------------------
(* The whole.                                                              *)

\* The entries of a list, each written by print.
Written(list, print(_)) == [i \in DOMAIN list |-> print(list[i])]

tap_test(e)  == [name |-> e.name, line |-> tap_line(e.t)]
tap_suite(s) == [name |-> s.name, tests |-> s.ss["nb_tests"],
                 list |-> Written(s.tests, tap_test)]
tap_report(st) ==
    [provider |-> "tap", plan |-> st.g["nb_tests"],
     suites |-> Written(st.suites, tap_suite)]

xml_test(e) ==
    [name |-> e.name, status |-> get_status_string(e.t),
     assertions |-> e.t.passed_asserts + e.t.failed_asserts,
     detail |-> details(e.t)]
xml_suite(s) ==
    [name |-> s.name, tests |-> s.ss["nb_tests"],
     failures |-> s.ss["tests_failed"], errors |-> s.ss["tests_crashed"],
     disabled |-> s.ss["tests_skipped"], skipped |-> s.ss["tests_skipped"],
     list |-> Written(s.tests, xml_test)]
xml_report(st) ==
    [provider |-> "xml", tests |-> st.g["nb_tests"],
     failures |-> st.g["tests_failed"], errors |-> st.g["tests_crashed"],
     disabled |-> st.g["tests_skipped"],
     suites |-> Written(st.suites, xml_suite)]

\* print_test of json.c has the same fields.
json_test(e) == xml_test(e)
json_suite(s) ==
    [name |-> s.name, passed |-> s.ss["tests_passed"],
     failed |-> s.ss["tests_failed"], errored |-> s.ss["tests_crashed"],
     skipped |-> s.ss["tests_skipped"], list |-> Written(s.tests, json_test)]
json_report(st) ==
    [provider |-> "json", passed |-> st.g["tests_passed"],
     failed |-> st.g["tests_failed"], errored |-> st.g["tests_crashed"],
     skipped |-> st.g["tests_skipped"],
     suites |-> Written(st.suites, json_suite)]

report_of(provider, st) ==
    CASE provider = "tap"  -> tap_report(st)
      [] provider = "xml"  -> xml_report(st)
      [] provider = "json" -> json_report(st)

----------------------------------------------------------------------------
(* Where a report goes.  A file system is a function from file names to    *)
(* what is in the file; names it does not hold cannot be created.          *)

Absent == [provider |-> "no file"]

\* cri_path_gen_unique_filename, below the directory dir.
Numbered(dir, counter, provider) == <<dir, counter, provider>>

\* A slip: the first name taken, whether or not it is.
cri_path_gen_unique_filename_First(fs, dir, provider) == Numbered(dir, 0, provider)

cri_path_gen_unique_filename(fs, dir, provider) ==
    LET free(c) == LET name == Numbered(dir, c, provider)
                   IN  name \in DOMAIN fs => fs[name] = Absent
    IN  Numbered(dir, CHOOSE c \in 0 .. Cardinality(DOMAIN fs) :
                         free(c) /\ \A k \in 0 .. c - 1 : ~free(k), provider)

\* The name that process_all_output opens for a path that is no stream.
file_of(fs, dirs, path, provider) ==
    IF path \in dirs THEN cri_path_gen_unique_filename(fs, path, provider)
    ELSE <<path>>
=============================================================================
