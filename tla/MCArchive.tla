----------------------------- MODULE MCArchive -----------------------------
(***************************************************************************)
(* Archive for TLC: the files a present build may find, and three          *)
(* settings, so that each actor meets the writers it can meet without the  *)
(* product of all.  An older build writes only where migrations run; an    *)
(* export and a report are taken apart, since neither writes what the      *)
(* other reads.                                                            *)
(***************************************************************************)
EXTENDS Archive

CONSTANTS l, m

VARIABLE setting

Said(i, t, line) == [id |-> i, ts |-> t, line |-> line]
Blind(tier, b) == [tier |-> tier, bucket |-> b, cells |-> Reading("blind")]

NoFile == [tables |-> FALSE, ver |-> 0, index |-> FALSE, cols |-> {}, log |-> {},
           rows |-> {}, seq |-> 0]
\* Recorded twice, before the lock.
V1 == [tables |-> TRUE, ver |-> 1, index |-> FALSE, cols |-> {}, seq |-> 3,
       log |-> {Said(1, 0, l), Said(2, 0, l), Said(3, 0, m)}, rows |-> {Blind("10s", 0)}]
V2 == [tables |-> TRUE, ver |-> 2, index |-> TRUE, cols |-> {}, seq |-> 1,
       log |-> {Said(1, 0, l)}, rows |-> {Blind("10s", 0), Blind("1m", 0)}]
V3 == [V2 EXCEPT !.ver = 3, !.cols = Tiers]

AnyFile == {NoFile, V1, V2, V3}
Retained == [tier \in Tiers \union {"events"} |-> IF tier = "10s" THEN 1 ELSE 2]
SomeSpecs == {None, [ago |-> 1], [at |-> 1]}

Init2 == /\ Init
         /\ setting \in {"migrate", "export", "report"}
         /\ setting = "export" => db \in {V2, V3}
         /\ setting = "report" => db = V3
Next2 ==
  /\ UNCHANGED setting
  /\ \/ Migrate
     \/ Write /\ (setting # "migrate" => db'.ver # 1 /\ inserts' <= 1)
     \/ Tick
     \/ setting = "export" /\ Export
     \/ setting = "report" /\ Report
Spec2 == Init2 /\ [][Next2]_<<vars, setting>>
=============================================================================
