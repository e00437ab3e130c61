----------------------------- MODULE DataConvert -----------------------------
(***************************************************************************)
(* dataset_convert.py: the manager that converts annotated data sets.  The *)
(* state of a conversion is kept twice, in a row of the database for each  *)
(* request and in the file that describes the data set.  The manager       *)
(* touches a heartbeat file of another name than the watchdog looks at, so *)
(* it is killed again and again in the middle of its work.                 *)
(***************************************************************************)
EXTENDS Watchdog

CONSTANTS
  Datasets,   \* annotated data sets of type image, to be converted to coco
  Requests,   \* bound: the requests for a conversion, each of which has a row
  NoRequest,  \* no request
  Of,         \* [Requests -> Datasets]
  Duration    \* [Datasets -> Nat]  the minutes a conversion takes at most

ASSUME RequestAssumption == NoRequest \notin Requests /\ Of \in [Requests -> Datasets]
ASSUME DurationAssumption == Duration \in [Datasets -> 0..Tictoc]

VARIABLES
  row,    \* [Requests -> status]  dataconvert.status, "absent" without a row
  file,   \* [Datasets -> status]  convertStatus in membership.json
  batch,  \* the rows that were read as queued and are still to be converted; the
          \* SELECT states no order
  cur,    \* the row whose data set is being converted, or NoRequest
  pc,     \* "next", "finish", "note", "fail" or "noteFail"
  spent,  \* the minutes spent on cur
  asked,  \* history: the requests that were made
  last,   \* history: the row for which a data set was last converted
  unseen, \* history: the requests made after that conversion began
  torn    \* history: data sets whose last conversion was interrupted between the
          \* row and the file, or whose row could not be written

convertVars == <<row, file, batch, cur, pc, spent, asked, last, unseen, torn>>

ConvertInit ==
  /\ row = [r \in Requests |-> "absent"]
  /\ file = [d \in Datasets |-> "absent"]
  /\ batch = {} /\ cur = NoRequest /\ pc = "next" /\ spent = 0
  /\ asked = {}
  /\ last = [d \in Datasets |-> NoRequest]
  /\ unseen = {}
  /\ torn = {}

Ended == {"finished", "error"}

For(d) == {r \in Requests : Of[r] = d}

\* The row of cur has been written, or may have been.
Unnoted == pc \in {"note", "fail", "noteFail"}

\* (Mutant: with a unique key a second request would queue the row of the first.)
InsertedUnique(r) ==
  LET old == {q \in For(Of[r]) : row[q] # "absent"} IN
  [q \in Requests |-> IF q \in old \/ (old = {} /\ q = r) THEN "queued" ELSE row[q]]

\* INSERT ... ON DUPLICATE KEY UPDATE, but the only key is the id of the row.
Inserted(r) == [row EXCEPT ![r] = "queued"]

ConvertDataFormat(r) ==
  /\ r \notin asked
  /\ asked' = asked \cup {r}
  /\ unseen' = unseen \cup {r}
  /\ row' = Inserted(r)
  /\ UNCHANGED <<watchVars, file, batch, cur, pc, spent, last, torn>>

-----------------------------------------------------------------------------
(* The manager.                                                            *)

Converter(p) == Up("data_convert") /\ pc = p

QueuedRows == {r \in Requests : row[r] = "queued"}

getConvertList ==
  /\ Converter("next") /\ batch = {}
  /\ QueuedRows # {}
  /\ batch' = QueuedRows
  /\ UNCHANGED <<watchVars, row, file, cur, pc, spent, asked, last, unseen, torn>>

\* The annotations are read as they are when the conversion begins.
Begin(r) ==
  /\ Converter("next") /\ r \in batch
  /\ batch' = batch \ {r}
  /\ cur' = r /\ pc' = "finish" /\ spent' = 0
  /\ last' = [last EXCEPT ![Of[r]] = r]
  /\ unseen' = unseen \ For(Of[r])
  /\ torn' = torn \ {Of[r]}
  /\ UNCHANGED <<watchVars, row, file, asked>>

\* updateConvertStatus swallows the errors of the database.
Written(r, s) ==
  \/ row' = [row EXCEPT ![r] = s] /\ UNCHANGED <<faults, torn>>
  \/ Fault /\ torn' = torn \cup {Of[r]} /\ UNCHANGED row

Finish(r) ==
  /\ Converter("finish") /\ cur = r
  /\ Written(r, "finished")
  /\ pc' = "note"
  /\ UNCHANGED <<child, age, todo, file, batch, cur, spent, asked, last, unseen>>

\* (Mutant: the file is not written when the data set has a state already.)
NotedOnce(d, s) == IF file[d] = "absent" THEN s ELSE file[d]

Noted(d, s) == s

\* insert_status_to_dataset, after which the loop goes on with the next one.
Note(r, s) ==
  /\ Converter(IF s = "finished" THEN "note" ELSE "noteFail") /\ cur = r
  /\ file' = [file EXCEPT ![Of[r]] = Noted(Of[r], s)]
  /\ cur' = NoRequest /\ pc' = "next"
  /\ UNCHANGED <<watchVars, row, batch, spent, asked, last, unseen, torn>>

\* An exception while converting, or while writing the file.
Raise(r) ==
  /\ (Converter("finish") \/ Converter("note")) /\ cur = r
  /\ Fault
  /\ pc' = "fail"
  /\ UNCHANGED <<child, age, todo, row, file, batch, cur, spent, asked, last, unseen, torn>>

Fail(r) ==
  /\ Converter("fail") /\ cur = r
  /\ Written(r, "error")
  /\ pc' = "noteFail"
  /\ UNCHANGED <<child, age, todo, file, batch, cur, spent, asked, last, unseen>>

\* (Mutant: the rest of the batch is dropped, the one at hand is not.)
DroppedRest == batch' = {} /\ pc' = "next" /\ UNCHANGED cur

Dropped == batch' = {} /\ cur' = NoRequest /\ pc' = "next"

\* A second exception ends the loop, and the rest of the batch with it.
RaiseAgain(r) ==
  /\ Converter("noteFail") /\ cur = r
  /\ Fault
  /\ Dropped
  /\ torn' = torn \cup {Of[r]}
  /\ UNCHANGED <<child, age, todo, row, file, spent, asked, last, unseen>>

\* The manager is killed or dies: what it knew is gone.
ForgetConversions ==
  /\ Dropped
  /\ spent' = 0
  /\ torn' = IF Unnoted THEN torn \cup {Of[cur]} ELSE torn
  /\ UNCHANGED <<row, file, asked, last, unseen>>

\* Between two minutes a manager that is up goes on until a conversion takes time.
ConverterWaits ==
  \/ ~Up("data_convert")
  \/ pc = "next" /\ batch = {} /\ QueuedRows = {}
  \/ pc = "finish" /\ spent < Duration[Of[cur]]

MinuteConverting ==
  /\ spent' = IF Converter("finish") THEN spent + 1 ELSE spent
  /\ UNCHANGED <<row, file, batch, cur, pc, asked, last, unseen, torn>>

ConverterStep ==
  \/ getConvertList
  \/ \E r \in Requests :
       Begin(r) \/ Finish(r) \/ (\E s \in Ended : Note(r, s)) \/ Fail(r)

ConvertTypeOK ==
  /\ row \in [Requests -> {"absent", "queued"} \cup Ended]
  /\ file \in [Datasets -> {"absent"} \cup Ended]
  /\ batch \subseteq Requests
  /\ cur \in Requests \cup {NoRequest}
  /\ pc \in {"next", "finish", "note", "fail", "noteFail"}
  /\ pc = "next" <=> cur = NoRequest
  /\ spent \in Nat
  /\ asked \subseteq Requests /\ unseen \subseteq Requests
  /\ last \in [Datasets -> Requests \cup {NoRequest}]
  /\ torn \subseteq Datasets
=============================================================================
