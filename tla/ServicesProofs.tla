---------------------------- MODULE ServicesProofs ---------------------------
(***************************************************************************)
(* Theorems about Services, for any managers, data sets, durations and     *)
(* time limits, and any number of faults and requests.                     *)
(***************************************************************************)
EXTENDS Services, TLAPS

(***************************************************************************)
(* Types.                                                                  *)
(***************************************************************************)
LEMMA InitType == Init => TypeOK
  BY TimeAssumption, KeysAssumption, RequestAssumption
     DEF Init, WatchInit, ConvertInit, TypeOK, WatchTypeOK, ConvertTypeOK, Keys, Ended

\* Of a nonempty sequence of managers the first is one, and so are the others.
LEMMA TodoType ==
  ASSUME WatchTypeOK, todo # <<>>
  PROVE  Head(todo) \in Keys /\ Tail(todo) \in Seq(Keys)
  BY DEF WatchTypeOK

LEMMA FaultType == ASSUME WatchTypeOK, Fault PROVE faults' \in 0..MaxFaults
  BY TimeAssumption DEF WatchTypeOK, Fault

\* Every step of the watchdog and of its managers keeps the watchdog's types.
LEMMA WatchStepType ==
  ASSUME WatchTypeOK, NEW m \in Keys,
         Beat(m) \/ Hang(m) \/ Crash(m) \/ Leave(m) \/ Start(m) \/ RoundFails(m)
  PROVE  WatchTypeOK'
<1> USE TimeAssumption DEF WatchTypeOK
<1>s. /\ {"none", "up", "hung", "dead"} \subseteq {"none", "up", "hung", "dead"}
      /\ 0 \in 0..(Day - 1) /\ <<>> \in Seq(Keys)
  OBVIOUS
<1>1. CASE Beat(m)
  BY <1>1, <1>s DEF Beat
<1>2. CASE Hang(m) \/ Crash(m)
  BY <1>2, FaultType DEF Hang, Crash
<1>3. CASE Leave(m)
  BY <1>3, TodoType DEF Leave
<1>4. CASE Start(m)
  BY <1>4, <1>s, TodoType, FaultType DEF Start, NeedsStart, Touched
<1>5. CASE RoundFails(m)
  BY <1>5, <1>s, FaultType DEF RoundFails
<1> QED
  BY <1>1, <1>2, <1>3, <1>4, <1>5

\* So does the passing of a minute.
LEMMA MinuteType == ASSUME WatchTypeOK, Minute PROVE WatchTypeOK'
<1>1. \A m \in Keys : (age[m] + 1) % Day \in 0..(Day - 1)
  BY TimeAssumption DEF WatchTypeOK
<1> QED
  BY <1>1, KeysAssumption DEF Minute, WatchTypeOK, Keys

\* A manager that ends drops what it had in hand.
LEMMA ForgetType == ASSUME ConvertTypeOK, ForgetConversions PROVE ConvertTypeOK'
  BY RequestAssumption DEF ConvertTypeOK, ForgetConversions, Dropped, Unnoted

\* The steps of the converter keep the types of its state, and the watchdog's.
LEMMA ConvertStepType == ASSUME TypeOK, Convert PROVE TypeOK'
<1> USE RequestAssumption DEF TypeOK, ConvertTypeOK, Ended
<1>w. UNCHANGED watchVars => WatchTypeOK'
  BY DEF watchVars, WatchTypeOK
<1>f. UNCHANGED <<child, age, todo>> /\ (UNCHANGED faults \/ Fault) => WatchTypeOK'
  BY FaultType DEF WatchTypeOK
<1>1. CASE getConvertList
  BY <1>1, <1>w DEF getConvertList, QueuedRows, Converter
<1>2. ASSUME NEW r \in Requests, Begin(r) PROVE TypeOK'
  BY <1>2, <1>w DEF Begin
<1>3. ASSUME NEW r \in Requests, Finish(r) PROVE TypeOK'
  BY <1>3, <1>f DEF Finish, Written
<1>4. ASSUME NEW r \in Requests, NEW s \in Ended, Note(r, s) PROVE TypeOK'
  BY <1>4, <1>w DEF Note, Noted
<1>5. ASSUME NEW r \in Requests, Fail(r) PROVE TypeOK'
  BY <1>5, <1>f DEF Fail, Written
<1>6. ASSUME NEW r \in Requests, ConvertDataFormat(r) PROVE TypeOK'
  BY <1>6, <1>w DEF ConvertDataFormat, Inserted
<1>7. ASSUME NEW r \in Requests, Raise(r) PROVE TypeOK'
  BY <1>7, <1>f DEF Raise
<1>8. ASSUME NEW r \in Requests, RaiseAgain(r) PROVE TypeOK'
  BY <1>8, <1>f DEF RaiseAgain, Dropped
<1> QED
  BY <1>1, <1>2, <1>3, <1>4, <1>5, <1>6, <1>7, <1>8 DEF Convert, ConverterStep

\* What the watchdog does to the converter is to let it be or to make it forget.
LEMMA WatchForgets == WatchNext => ForgetConversions \/ UNCHANGED convertVars
  BY DEF WatchNext, Forget

\* The type invariant of the services, for all constants.
THEOREM TypeCorrect == Spec => []TypeOK
<1>1. TypeOK /\ [Next]_vars => TypeOK'
  <2> SUFFICES ASSUME TypeOK, [Next]_vars PROVE TypeOK'
    OBVIOUS
  <2>u. UNCHANGED convertVars => ConvertTypeOK'
    BY DEF convertVars, TypeOK, ConvertTypeOK
  <2>1. CASE WatchNext
    <3>1. WatchTypeOK'
      BY <2>1, WatchStepType DEF WatchNext, TypeOK
    <3>2. ConvertTypeOK'
      BY <2>1, <2>u, WatchForgets, ForgetType DEF TypeOK
    <3> QED
      BY <3>1, <3>2 DEF TypeOK
  <2>2. CASE MinutePasses
    <3>1. ConvertTypeOK'
      BY <2>2 DEF MinutePasses, MinuteConverting, TypeOK, ConvertTypeOK
    <3> QED
      BY <2>2, <3>1, MinuteType DEF MinutePasses, TypeOK
  <2>3. CASE Convert
    BY <2>3, ConvertStepType
  <2>4. CASE UNCHANGED vars
    BY <2>4, <2>u DEF vars, watchVars, TypeOK, WatchTypeOK
  <2> QED
    BY <2>1, <2>2, <2>3, <2>4 DEF Next
<1> QED
  BY <1>1, InitType, PTL DEF Spec

-----------------------------------------------------------------------------
(***************************************************************************)
(* The watchdog.                                                           *)
(***************************************************************************)
\* Days are forgotten only by what is as old as a day.
LEMMA SmallMod == ASSUME NEW n \in Nat, NEW k \in Nat, n < k PROVE n % k = n
  OBVIOUS

\* However the rounds, faults and loops interleave, the heartbeat of a manager
\* that runs and writes it in every loop never gets old enough to be killed.
THEOREM HealthyLooksAliveHolds == Spec => []HealthyLooksAlive
<1>1. Init => HealthyLooksAlive
  BY KeysAssumption DEF Init, WatchInit, HealthyLooksAlive, Up
<1>2. TypeOK /\ HealthyLooksAlive /\ [Next]_vars => HealthyLooksAlive'
  <2> SUFFICES ASSUME TypeOK, HealthyLooksAlive, [Next]_vars, NEW p \in Prompt, Up(p)'
               PROVE  age'[p] <= LoopTime
    BY DEF HealthyLooksAlive
  <2> USE TimeAssumption, KeysAssumption DEF Up
  <2>t. p \in Keys /\ age \in [Keys -> 0..(Day - 1)] /\ child \in [Keys -> {"none", "up", "hung", "dead"}]
    BY DEF TypeOK, WatchTypeOK
  <2>k. UNCHANGED <<child, age>> => age'[p] <= LoopTime
    BY DEF HealthyLooksAlive
  <2>1. ASSUME NEW m \in Keys, Beat(m) PROVE age'[p] <= LoopTime
    BY <2>1, <2>t DEF Beat, HealthyLooksAlive
  <2>2. ASSUME NEW m \in Keys, Hang(m) \/ Crash(m) PROVE age'[p] <= LoopTime
    BY <2>2, <2>t DEF Hang, Crash, HealthyLooksAlive
  <2>3. ASSUME NEW m \in Keys, Start(m) PROVE age'[p] <= LoopTime
    BY <2>3, <2>t DEF Start, Touched, HealthyLooksAlive
  <2>4. ASSUME NEW m \in Keys, RoundFails(m) PROVE age'[p] <= LoopTime
    BY <2>4, <2>t DEF RoundFails, HealthyLooksAlive
  <2>5. CASE Minute
    <3>1. Up(p) /\ age[p] < LoopTime
      BY <2>5, <2>t DEF Minute
    <3>2. age'[p] = (age[p] + 1) % Day
      BY <2>5, <2>t DEF Minute
    <3>3. age[p] + 1 \in Nat /\ age[p] + 1 < Day
      BY <2>t, <3>1
    <3>4. (age[p] + 1) % Day = age[p] + 1
      BY <3>3, SmallMod
    <3> QED
      BY <2>t, <3>1, <3>2, <3>4
  <2>6. ASSUME NEW m \in Keys, Leave(m) PROVE age'[p] <= LoopTime
    BY <2>6, <2>k DEF Leave
  <2>7. CASE Convert
    BY <2>7, <2>k DEF Convert, ConverterStep, getConvertList, Begin, Finish, Note, Fail,
       ConvertDataFormat, Raise, RaiseAgain, watchVars
  <2> QED
    BY <2>1, <2>2, <2>3, <2>4, <2>5, <2>6, <2>7, <2>k
       DEF Next, WatchNext, MinutePasses, vars, watchVars
<1> QED
  BY <1>1, <1>2, TypeCorrect, PTL DEF Spec

-----------------------------------------------------------------------------
(***************************************************************************)
(* Dataset conversion.  Neither property is inductive: what they say of an *)
(* ended conversion depends on what was true while it was under way.       *)
(***************************************************************************)
\* The rows in the batch are still queued, and only what was asked for has a row.
BatchQueued ==
  /\ cur \notin batch
  /\ \A r \in batch : row[r] = "queued"
  /\ \A r \in Requests : row[r] # "absent" \/ r = cur => r \in asked

\* The conversion at hand is the last one of its data set, and the row being written
\* is in its state.
NoteFollowsRow ==
  /\ \A d \in Datasets : last[d] # NoRequest => Of[last[d]] = d
  /\ cur # NoRequest => last[Of[cur]] = cur
  /\ cur # NoRequest /\ Of[cur] \notin torn /\ row[cur] \in Ended
       => /\ pc = "note" => row[cur] = "finished"
          /\ pc = "noteFail" => row[cur] = "error"

\* A request that came after the last conversion began has its row still queued.
UnseenQueued == cur \notin unseen /\ \A q \in unseen : row[q] = "queued"

ConversionInv == BatchQueued /\ NoteFollowsRow /\ UnseenQueued /\ EndedTogether

LEMMA ForgetKeeps ==
  ASSUME TypeOK, ConversionInv, ForgetConversions
  PROVE  ConversionInv'
<1> USE RequestAssumption
    DEF TypeOK, ConvertTypeOK, ConversionInv, ForgetConversions, Dropped, Unnoted
<1>1. BatchQueued'
  BY DEF BatchQueued
<1>2. NoteFollowsRow'
  BY DEF NoteFollowsRow
<1>3. UnseenQueued'
  BY DEF UnseenQueued
<1>4. EndedTogether'
  BY DEF EndedTogether, NoteFollowsRow
<1> QED
  BY <1>1, <1>2, <1>3, <1>4

LEMMA ConvertKeeps == ASSUME TypeOK, ConversionInv, Convert PROVE ConversionInv'
<1> USE RequestAssumption
    DEF TypeOK, ConvertTypeOK, Ended, ConversionInv, BatchQueued, NoteFollowsRow, UnseenQueued,
        EndedTogether, Unnoted, Converter
<1>1. CASE getConvertList
  BY <1>1 DEF getConvertList, QueuedRows
<1>2. ASSUME NEW r \in Requests, Begin(r) PROVE ConversionInv'
  BY <1>2 DEF Begin, For
<1>3. ASSUME NEW r \in Requests, Finish(r) PROVE ConversionInv'
  BY <1>3 DEF Finish, Written
<1>4. ASSUME NEW r \in Requests, NEW s \in Ended, Note(r, s) PROVE ConversionInv'
  BY <1>4 DEF Note, Noted
<1>5. ASSUME NEW r \in Requests, Fail(r) PROVE ConversionInv'
  BY <1>5 DEF Fail, Written
<1>6. ASSUME NEW r \in Requests, ConvertDataFormat(r) PROVE ConversionInv'
  BY <1>6 DEF ConvertDataFormat, Inserted
<1>7. ASSUME NEW r \in Requests, Raise(r) PROVE ConversionInv'
  BY <1>7 DEF Raise
<1>8. ASSUME NEW r \in Requests, RaiseAgain(r) PROVE ConversionInv'
  BY <1>8 DEF RaiseAgain, Dropped
<1> QED
  BY <1>1, <1>2, <1>3, <1>4, <1>5, <1>6, <1>7, <1>8 DEF Convert, ConverterStep

\* The invariant of the conversions, for any kills, crashes, lost writes and
\* exceptions at any place in the loop.
LEMMA ConversionInvHolds == Spec => []ConversionInv
<1>1. Init => ConversionInv
  BY RequestAssumption
     DEF Init, ConvertInit, ConversionInv, BatchQueued, NoteFollowsRow, UnseenQueued,
         EndedTogether, Ended
<1>2. TypeOK /\ ConversionInv /\ [Next]_vars => ConversionInv'
  <2> SUFFICES ASSUME TypeOK, ConversionInv, [Next]_vars PROVE ConversionInv'
    OBVIOUS
  <2>u. UNCHANGED <<row, file, batch, cur, pc, asked, last, unseen, torn>> => ConversionInv'
    BY DEF ConversionInv, BatchQueued, NoteFollowsRow, UnseenQueued, EndedTogether, Unnoted
  <2>1. CASE WatchNext
    BY <2>1, <2>u, WatchForgets, ForgetKeeps DEF convertVars
  <2>2. CASE MinutePasses
    BY <2>2, <2>u DEF MinutePasses, MinuteConverting
  <2>3. CASE Convert
    BY <2>3, ConvertKeeps
  <2>4. CASE UNCHANGED vars
    BY <2>4, <2>u DEF vars, convertVars
  <2> QED
    BY <2>1, <2>2, <2>3, <2>4 DEF Next
<1> QED
  BY <1>1, <1>2, TypeCorrect, PTL DEF Spec

\* Row and file agree on an ended conversion unless it was interrupted in between.
THEOREM EndedTogetherHolds == Spec => []EndedTogether
<1>1. ConversionInv => EndedTogether
  BY DEF ConversionInv
<1> QED
  BY <1>1, ConversionInvHolds, PTL

\* When nothing is queued for a data set and its last conversion finished, what that
\* one read is as new as the last request.
THEOREM FinishedIsCurrentHolds == Spec => []FinishedIsCurrent
<1>1. ConversionInv => FinishedIsCurrent
  BY DEF ConversionInv, UnseenQueued, FinishedIsCurrent
<1> QED
  BY <1>1, ConversionInvHolds, PTL

\* A row that has ended is in no batch, so that nothing begins with it again.
LEMMA AnsweredStep ==
  ASSUME TypeOK, ConversionInv, [Next]_vars, NEW r \in Requests, row[r] \in Ended, cur # r
  PROVE  cur' # r /\ row'[r] = row[r]
<1> USE RequestAssumption
<1>1. r \notin batch /\ r \in asked /\ r # NoRequest
  BY DEF ConversionInv, BatchQueued, Ended
<1>2. CASE ForgetConversions
  BY <1>1, <1>2 DEF ForgetConversions, Dropped
<1>3. CASE UNCHANGED <<row, cur>>
  BY <1>3
<1>4. ASSUME NEW q \in Requests, Begin(q) \/ Finish(q) \/ Fail(q) \/ RaiseAgain(q)
      PROVE  cur' # r /\ row'[r] = row[r]
  BY <1>1, <1>4 DEF Begin, Finish, Fail, Written, RaiseAgain, Dropped, TypeOK, ConvertTypeOK
<1>5. ASSUME NEW q \in Requests, ConvertDataFormat(q) PROVE cur' # r /\ row'[r] = row[r]
  BY <1>1, <1>5 DEF ConvertDataFormat, Inserted, TypeOK, ConvertTypeOK
<1>6. ASSUME NEW q \in Requests, NEW s \in Ended, Note(q, s) PROVE cur' # r /\ row'[r] = row[r]
  BY <1>1, <1>6 DEF Note
<1>7. CASE Convert
  BY <1>3, <1>4, <1>5, <1>6, <1>7 DEF Convert, ConverterStep, getConvertList, Raise
<1> QED
  BY <1>2, <1>3, <1>7, WatchForgets
     DEF Next, MinutePasses, MinuteConverting, vars, convertVars

\* What has been answered is not converted again, and its answer stands.
THEOREM AnsweredOnceHolds == Spec => AnsweredOnce
<1>1. TypeOK /\ ConversionInv /\ [Next]_vars
        => [\A r \in Requests :
              row[r] \in Ended /\ cur # r => cur' # r /\ row'[r] = row[r]]_vars
  BY AnsweredStep
<1> QED
  BY <1>1, TypeCorrect, ConversionInvHolds, PTL DEF Spec, AnsweredOnce
=============================================================================
