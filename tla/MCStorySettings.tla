-------------------------- MODULE MCStorySettings --------------------------
(***************************************************************************)
(* Story on two processes whose lists may go unobserved, on one device     *)
(* whose throttle and memory readings may, and through troughs of one      *)
(* process' work.  A setting takes its samples and lists from those of the *)
(* configuration, and has a bound on its ticks of its own.                 *)
(***************************************************************************)
EXTENDS Story

CONSTANTS OnePid, ListsNow, DeviceNow

VARIABLE setting

Samples ==
  [lists |-> {s \in Sample : /\ s.throttle = "clear" /\ s.used = None
                             /\ s.util \in {None, 0, 80}},
   device |-> {s \in Sample : s.util = 0},
   troughs |-> {s \in Sample : s.throttle = "clear" /\ s.used = None}]

Lists ==
  [lists |-> ProcessList,
   device |-> {ps \in ProcessList : /\ DOMAIN ps \subseteq OnePid
                                    /\ \A p \in DOMAIN ps : ps[p].mem = 0 /\ ps[p].cpu = None},
   troughs |-> {ps \in ProcessList : /\ DOMAIN ps \subseteq OnePid
                                     /\ \A p \in DOMAIN ps : ps[p].cpu = None}]

Init2 == Init /\ setting \in {"lists", "device", "troughs"}
Next2 ==
  /\ UNCHANGED setting
  /\ \/ \E s \in Samples[setting] : \E ps \in Lists[setting] : Observe(s, ps)
     \/ setting = "lists" /\ \E s \in Samples[setting] : ObserveBlind(s)
     \/ setting # "lists" /\ Missed
  /\ now' <= CASE setting = "lists" -> ListsNow [] setting = "device" -> DeviceNow
               [] setting = "troughs" -> MaxNow
Spec2 == Init2 /\ [][Next2]_<<vars, setting>>

\* An idle gap is a trough between two works, told once, and only work that
\* lasted arms it, where every list is seen (idle_gap_events).
GapsAreTroughs ==
  [][setting # "lists" => OncePerTrough /\ ActivityIsSustained]_<<vars, setting>>
=============================================================================
