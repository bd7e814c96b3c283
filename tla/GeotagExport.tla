----------------------------- MODULE GeotagExport ----------------------------
(***************************************************************************)
(* How the coordinates of a dump get from Wikipedia to pages.geotags:      *)
(* 0_download-script.sh, 4_geo-processing.sh, 5_mysql-to-bq.sh up to its   *)
(* bq load, 6_cleanup.sh.  Each hands the next a file or a database of a   *)
(* fixed name, and each goes on after a command that failed.  Runs are     *)
(* counted, and data are named by the run that downloaded them and by      *)
(* whether all of them are there.                                          *)
(***************************************************************************)
EXTENDS Naturals

CONSTANT MaxRuns             \* bound on the runs of the scripts

ASSUME MaxRunsAssumption == MaxRuns \in Nat

None == [run |-> 0, whole |-> FALSE]
Data == [run : 0..MaxRuns, whole : BOOLEAN]

VARIABLES
    run,                     \* the present run, or the last one
    pc,                      \* the command that is next; 0: not running
    dump,                    \* the file enwiki-DATE-geo_tags.sql
    mysql,                   \* the table geo_tags of the database enwiki
    jsonl, gz,               \* the exported file, and the compressed one
    cloud,                   \* the object it is moved to
    geotags,                 \* what pages.geotags was loaded from
    calm,                    \* runs in a row without a fault, the present one included
    leftover                 \* the run found a file of an earlier one

vars == <<run, pc, dump, mysql, jsonl, gz, cloud, geotags, calm, leftover>>

Init ==
    /\ run = 0 /\ pc = 0
    /\ dump = None /\ mysql = None /\ jsonl = None /\ gz = None
    /\ cloud = None /\ geotags = None
    /\ calm = 0 /\ leftover = FALSE

start ==
    /\ pc = 0 /\ run < MaxRuns
    /\ run' = run + 1
    /\ pc' = 1
    /\ leftover' = (jsonl # None \/ gz # None)
    /\ calm' = calm + 1
    /\ UNCHANGED <<dump, mysql, jsonl, gz, cloud, geotags>>

(* Faulty variant: a run does not end after its last command. *)
Goes_past(k) ==
    /\ pc = k
    /\ pc' = k + 1
    /\ UNCHANGED <<run, calm, leftover>>

(* Command k of the seven is over. *)
Goes(k) ==
    /\ pc = k
    /\ pc' = (k + 1) % 8
    /\ UNCHANGED <<run, calm, leftover>>

download ==
    /\ Goes(1)
    /\ dump' = [run |-> run, whole |-> TRUE]
    /\ UNCHANGED <<mysql, jsonl, gz, cloud, geotags>>

(* CREATE DATABASE (an error if it is there) and the dump, which drops the *)
(* table before it makes it; without a dump nothing changes.               *)
import ==
    /\ Goes(2)
    /\ mysql' = IF dump = None THEN mysql ELSE dump
    /\ UNCHANGED <<dump, jsonl, gz, cloud, geotags>>

(* The rm before it is of a name that nothing has (.json), and INTO OUTFILE*)
(* never overwrites a file.                                                *)
export ==
    /\ Goes(3)
    /\ jsonl' = IF jsonl = None THEN mysql ELSE jsonl
    /\ UNCHANGED <<dump, mysql, gz, cloud, geotags>>

(* Faulty variant: gzip -kf. *)
gzip_keeping ==
    /\ Goes(4)
    /\ gz' = IF jsonl = None THEN gz ELSE jsonl
    /\ UNCHANGED <<dump, mysql, jsonl, cloud, geotags>>

(* gzip replaces the file, but does not overwrite a compressed one. *)
gzip ==
    /\ Goes(4)
    /\ gz' = IF gz = None THEN jsonl ELSE gz
    /\ jsonl' = IF gz = None THEN None ELSE jsonl
    /\ UNCHANGED <<dump, mysql, cloud, geotags>>

(* Faulty variant: moves the exported file if it is there. *)
move_any ==
    /\ Goes(5)
    /\ cloud' = IF jsonl # None THEN jsonl ELSE IF gz # None THEN gz ELSE cloud
    /\ jsonl' = None
    /\ gz' = IF jsonl # None THEN gz ELSE None
    /\ UNCHANGED <<dump, mysql, geotags>>

move_to_cloud ==
    /\ Goes(5)
    /\ cloud' = IF gz = None THEN cloud ELSE gz
    /\ gz' = None
    /\ UNCHANGED <<dump, mysql, jsonl, geotags>>

load ==
    /\ Goes(6)
    /\ geotags' = IF cloud = None THEN geotags ELSE cloud
    /\ UNCHANGED <<dump, mysql, jsonl, gz, cloud>>

(* The dump is removed; mysql -c takes its argument for the name of a      *)
(* database and does not drop one.                                         *)
cleanup ==
    /\ Goes(7)
    /\ dump' = None
    /\ UNCHANGED <<mysql, jsonl, gz, cloud, geotags>>

Part(d) == [d EXCEPT !.whole = FALSE]

(* The present command fails, the shell goes on.  A download, an import    *)
(* and an export may leave part of what they write, a move its source.     *)
fault ==
    /\ pc > 0
    /\ pc' = (pc + 1) % 8
    /\ calm' = 0
    /\ dump' \in {dump} \cup (IF pc = 1 THEN {None, [run |-> run, whole |-> FALSE]} ELSE {})
    /\ mysql' \in {mysql} \cup (IF pc = 2 /\ dump # None THEN {None, Part(dump)} ELSE {})
    /\ jsonl' \in {jsonl} \cup (IF pc = 3 /\ jsonl = None THEN {Part(mysql)} ELSE {})
    /\ cloud' \in {cloud} \cup (IF pc = 5 /\ gz # None THEN {gz} ELSE {})
    /\ UNCHANGED <<run, gz, geotags, leftover>>

(* The run ends here. *)
break_off ==
    /\ pc > 0
    /\ pc' = 0
    /\ calm' = 0
    /\ UNCHANGED <<run, dump, mysql, jsonl, gz, cloud, geotags, leftover>>

Next ==
    \/ start \/ fault \/ break_off
    \/ download \/ import \/ export \/ gzip \/ move_to_cloud \/ load \/ cleanup

Spec == Init /\ [][Next]_vars

-----------------------------------------------------------------------------
TypeOK ==
    /\ run \in 0..MaxRuns /\ pc \in 0..7 /\ calm \in 0..run
    /\ {dump, mysql, jsonl, gz, cloud, geotags} \subseteq Data
    /\ leftover \in BOOLEAN

(* A run without a fault that found no file of an earlier run brings the   *)
(* table up to date; one that found some may load those instead, but three *)
(* in a row without a fault do: one uses up the compressed file, another   *)
(* the exported one.                                                       *)
CatchesUp ==
    pc = 0 /\ calm >= (IF leftover THEN 3 ELSE 1) =>
        geotags = [run |-> run, whole |-> TRUE]

(* However the runs fail, older data never replace newer ones.             *)
NeverOlder == [][geotags'.run >= geotags.run]_vars
==============================================================================
