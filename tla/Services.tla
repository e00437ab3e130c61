------------------------------ MODULE Services -------------------------------
(***************************************************************************)
(* The watchdog with the managers it watches.  Those that write their own  *)
(* heartbeat file in every short loop are Prompt.  data_convert writes     *)
(* another file and is killed at each timeout, as is joblog_manager, which *)
(* writes its file only when it starts.                                    *)
(***************************************************************************)
EXTENDS DataConvert

vars == <<watchVars, convertVars>>

Init == WatchInit /\ ConvertInit

\* A process that ends takes along what it knew.
Forget(m) ==
  IF m = "data_convert" THEN ForgetConversions ELSE UNCHANGED convertVars

WatchNext ==
  \E m \in Keys :
    \/ (Beat(m) \/ Hang(m) \/ Leave(m)) /\ UNCHANGED convertVars
    \/ (Start(m) \/ Crash(m)) /\ Forget(m)
    \/ /\ RoundFails(m)
       /\ IF child' = child THEN UNCHANGED convertVars ELSE Forget(m)

\* What takes less than a minute has been done when a minute passes.
MinutePasses == Minute /\ ConverterWaits /\ MinuteConverting

Convert ==
  \/ ConverterStep
  \/ \E r \in Requests : ConvertDataFormat(r) \/ Raise(r) \/ RaiseAgain(r)

Next == WatchNext \/ MinutePasses \/ Convert

Spec == Init /\ [][Next]_vars

(***************************************************************************)
(* Fairness: time passes, the watchdog goes through its round, a manager   *)
(* that is up goes through its loop.  Requests and faults are not fair.    *)
(***************************************************************************)
Fairness ==
  /\ WF_vars(MinutePasses)
  /\ WF_vars(\E m \in Keys :
               \/ Leave(m) /\ UNCHANGED convertVars
               \/ Start(m) /\ Forget(m))
  /\ \A m \in Prompt : WF_vars(Beat(m) /\ UNCHANGED convertVars)
  /\ WF_vars(ConverterStep)

FairSpec == Spec /\ Fairness

-----------------------------------------------------------------------------
TypeOK == WatchTypeOK /\ ConvertTypeOK

(***************************************************************************)
(* A healthy manager is never killed: as long as it runs and writes its    *)
(* file in every loop, its heartbeat is young, although the file is as old *)
(* as its predecessor's end when it starts, and days are forgotten.        *)
(***************************************************************************)
HealthyLooksAlive == \A m \in Prompt : Up(m) => age[m] <= LoopTime

(***************************************************************************)
(* Whatever hangs or dies is running again in the end, although a failed   *)
(* call may end a round before it gets there and start may fail.           *)
(***************************************************************************)
HungIsRestarted == \A m \in Keys : child[m] \in {"hung", "dead"} ~> Up(m)

(***************************************************************************)
(* The file of a data set says the same as the row for which it was last   *)
(* converted, once that conversion has ended, unless the manager was       *)
(* stopped or failed between the two.                                      *)
(***************************************************************************)
EndedTogether ==
  \A d \in Datasets : LET r == last[d] IN
    r # NoRequest /\ row[r] \in Ended /\ d \notin torn /\ ~(cur = r /\ Unnoted)
      => file[d] = row[r]

(***************************************************************************)
(* When nothing is queued for a data set and its last conversion finished, *)
(* what that one left in the output was read after the last request for    *)
(* the data set, although requests come while it is converted and are      *)
(* converted in any order.  After an "error" the output is an older one's. *)
(***************************************************************************)
FinishedIsCurrent ==
  \A d \in Datasets :
    /\ \A r \in For(d) : row[r] # "queued"
    /\ last[d] # NoRequest /\ row[last[d]] = "finished"
    => unseen \cap For(d) = {}

(***************************************************************************)
(* What has been answered is not converted again, and its answer stands,   *)
(* although the rows that were read as queued are gone through one by one, *)
(* killed managers read them again and the data set is asked for again.    *)
(***************************************************************************)
AnsweredOnce ==
  [][\A r \in Requests :
       row[r] \in Ended /\ cur # r => cur' # r /\ row'[r] = row[r]]_vars

\* A conversion that takes less than the watchdog's patience ends, although its
\* manager is killed again and again while it converts this data set or another.
ConversionEnds == \A r \in Requests : row[r] = "queued" ~> row[r] \in Ended
=============================================================================
