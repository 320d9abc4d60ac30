---------------------------- MODULE SourceFetch ----------------------------
(***************************************************************************)
(* The paged fetches of the three sources over the HTTP policy: Fetch of   *)
(* internal/source/openalex/client.go and crossref/client.go, Search and   *)
(* Fetch of internal/source/pubmed/client.go.  Several fetches share one   *)
(* client.  The server may answer anything; a fetch remembers (faithful)   *)
(* whether it has answered as its protocol says so far.  A cursor stands   *)
(* for the number of records before its page.                              *)
(***************************************************************************)
EXTENDS HttpPolicy, Sequences

CONSTANTS
  Loads,        \* bound: clients with what their server has and fetches ask for
  PageSize,     \* PerPage, BatchSize
  Fresh         \* a cursor no page was asked for with and none will be again

AllSources == {"openalex", "crossref", "pubmed"}

\* Larger pages NewClient refuses.
MaxPageSize(kind) ==
  CASE kind = "openalex" -> 100 [] kind = "crossref" -> 1000 [] kind = "pubmed" -> 10000

Outcomes == {"end", "failed", "refused", "stopped"}

ASSUME FetchAssumption ==
  /\ Loads \subseteq [source : AllSources, total : Nat, max : [Calls -> Nat]]
  /\ \A l \in Loads : PageSize \in 1..MaxPageSize(l.source)
  /\ PageSize \in Nat
  /\ Fresh \notin Nat /\ Fresh # None
  /\ None \notin Outcomes

VARIABLES
  load,      \* the client; a fetch with max 0 is not made
  fetch      \* each fetch

fetchVars == <<load, fetch>>
vars == <<httpVars, fetchVars>>

source == load.source
total == load.total
MaxResults == load.max

Least(a, b) == IF a < b THEN a ELSE b

Unstarted == [pc |-> "idle", cursor |-> 0, seen |-> {0}, plan |-> <<>>,
              emitted |-> 0, read |-> {}, outcome |-> None, faithful |-> TRUE]

Init ==
  /\ HttpInit
  /\ load \in Loads
  /\ fetch = [s \in Calls |-> Unstarted]

In(s, pc) == fetch[s].pc = pc

Sets(s, record) == fetch' = [fetch EXCEPT ![s] = record]

\* Of a fetch that returned, what it emitted and how it ended is kept.
Ends(s, record, outcome) ==
  Sets(s, [Unstarted EXCEPT !.pc = "done", !.outcome = outcome,
             !.emitted = record.emitted, !.faithful = record.faithful])

(***************************************************************************)
(* What a server may answer, and what it answers when it keeps to the      *)
(* protocol.  bad is the place of the first record that does not parse.    *)
(***************************************************************************)
Cursors == 0..(total + 1)

Pages == {p \in [items : 0..(PageSize + 1), bad : 0..(PageSize + 1),
                 next : Cursors \cup {Fresh, None}] : p.bad <= p.items}

\* The page the next request of s asks for.
Batch(s) == Head(fetch[s].plan)

Rows(s) ==
  IF source = "pubmed" THEN Batch(s).max
  ELSE Least(PageSize, MaxResults[s] - fetch[s].emitted)

\* The server has a page for a cursor it gave, and says where to go on; OpenAlex
\* ends with an absent cursor, Crossref with a short page.
Faithful(s, p) ==
  LET from == IF source = "pubmed" THEN Batch(s).start ELSE fetch[s].cursor
      rest == total - from
  IN  /\ p.bad = 0 /\ p.items = Least(Rows(s), rest)
      /\ source = "openalex" => p.next \in
           (IF p.items = rest THEN {None} ELSE {}) \cup
           (IF p.items > 0 THEN {from + p.items} ELSE {})
      /\ source = "crossref" => p.next = from + p.items

StillFaithful(s, p) == fetch[s].faithful /\ Faithful(s, p)

(***************************************************************************)
(* PubMed: the search on the history server and its batches.               *)
(***************************************************************************)
\* Slip: a batch that is not full is left out.
BuildWholeBatches(count, max, size) ==
  [i \in 1..(Least(count, max) \div size) |->
     [start |-> (i - 1) * size, max |-> size]]

BuildBatches(count, max, size) ==
  LET n == Least(count, max)
  IN  [i \in 1..((n + size - 1) \div size) |->
         [start |-> (i - 1) * size, max |-> Least(size, n - (i - 1) * size)]]

\* Each batch starts where the one before it ends, within the count.
ValidHistory(batches, count) ==
  \A i \in DOMAIN batches :
    LET end == batches[i].start + batches[i].max
    IN  /\ batches[i].max > 0 /\ end <= count
        /\ IF i = Len(batches) THEN TRUE ELSE batches[i + 1].start = end
        /\ i = 1 => batches[i].start = 0

Search(s) ==
  /\ In(s, "idle") /\ MaxResults[s] > 0 /\ source = "pubmed"
  /\ Do(s)
  /\ Sets(s, [fetch[s] EXCEPT !.pc = "searching"])
  /\ UNCHANGED load

\* The answer has a count, WebEnv and QueryKey, or it is refused.
Searched(s) ==
  /\ In(s, "searching") /\ At(s, "ok")
  /\ Return(s)
  /\ \/ Ends(s, [fetch[s] EXCEPT !.faithful = FALSE], "refused")
     \/ \E count \in Cursors :
          LET batches == BuildBatches(count, MaxResults[s], PageSize)
              found == [fetch[s] EXCEPT !.plan = batches,
                                        !.faithful = (count = total)]
          IN  IF ~ValidHistory(batches, count) THEN Ends(s, found, "refused")
              ELSE IF batches = <<>> THEN Ends(s, found, "end")
              ELSE Sets(s, [found EXCEPT !.pc = "paging"])
  /\ UNCHANGED load

(***************************************************************************)
(* The page loop.                                                          *)
(***************************************************************************)
Begin(s) ==
  /\ In(s, "idle") /\ MaxResults[s] > 0 /\ source # "pubmed"
  /\ Sets(s, [fetch[s] EXCEPT !.pc = "paging"])
  /\ UNCHANGED <<httpVars, load>>

Request(s) ==
  /\ In(s, "paging")
  /\ IF Cancelled(s)
       THEN Ends(s, fetch[s], "failed") /\ UNCHANGED httpVars
       ELSE Do(s) /\ Sets(s, [fetch[s] EXCEPT !.pc = "waiting"])
  /\ UNCHANGED load

\* Do of a search or a page returned an error.
RequestFails(s) ==
  /\ fetch[s].pc \in {"searching", "waiting"} /\ At(s, "failed")
  /\ Return(s)
  /\ Ends(s, fetch[s], "failed")
  /\ UNCHANGED load

\* Records the fetch may still emit; PubMed's plan holds no more than the query.
Limit(s) ==
  IF source = "pubmed" THEN PageSize + 1 ELSE MaxResults[s] - fetch[s].emitted

\* What is checked of a page before any record of it is emitted.
Accepts(s, p) ==
  /\ source = "openalex" => p.items > 0 \/ p.next = None
  /\ source = "crossref" => p.items <= Rows(s)
  /\ source = "pubmed" => p.items = Rows(s) /\ p.bad = 0

\* Records before the limit and before the first that does not parse.
Readable(s, p) == Least(IF p.bad = 0 THEN p.items ELSE p.bad - 1, Limit(s))

Emitting(s, p, n) ==
  [fetch[s] EXCEPT !.emitted = @ + n, !.faithful = StillFaithful(s, p),
                   !.read = @ \cup ({fetch[s].cursor} \cap Nat)]

RefusePage(s, p) ==
  /\ ~Accepts(s, p)
  /\ Ends(s, [fetch[s] EXCEPT !.faithful = StillFaithful(s, p)], "refused")

\* The consumer's yield returns false.
StopInPage(s, p) ==
  /\ Accepts(s, p)
  /\ \E n \in 1..Readable(s, p) : Ends(s, Emitting(s, p, n), "stopped")

\* The page ends the fetch.
Last(s, p) ==
  \/ source # "pubmed" /\ Readable(s, p) = Limit(s)
  \/ source = "openalex" /\ p.next = None
  \/ source = "crossref" /\ p.items < Rows(s)
  \/ source = "pubmed" /\ Len(fetch[s].plan) = 1

\* Where a page that is not the last sends the fetch is new to it.
Follows(s, p) ==
  source = "pubmed" \/ (p.next # None /\ p.next \notin fetch[s].seen)

EmitPage(s, p) ==
  LET record == Emitting(s, p, Readable(s, p))
  IN  /\ Accepts(s, p)
      /\ IF p.bad # 0 /\ p.bad <= Limit(s) THEN Ends(s, record, "refused")
         ELSE IF Last(s, p) THEN Ends(s, record, "end")
         ELSE IF ~Follows(s, p) THEN Ends(s, record, "refused")
         ELSE Sets(s, [record EXCEPT
                !.pc = "paging",
                !.plan = IF source = "pubmed" THEN Tail(@) ELSE @,
                !.cursor = IF source = "pubmed" THEN @ ELSE p.next,
                !.seen = @ \cup ({p.next} \cap Nat)])

ReceivePage(s) ==
  /\ In(s, "waiting") /\ At(s, "ok")
  /\ Return(s)
  /\ \E p \in Pages : RefusePage(s, p) \/ StopInPage(s, p) \/ EmitPage(s, p)
  /\ UNCHANGED load

(***************************************************************************)
(* The composition.                                                        *)
(***************************************************************************)
Fetching(s) == Request(s) \/ RequestFails(s) \/ Searched(s) \/ ReceivePage(s)

CancelFetch(s) == ~In(s, "done") /\ MaxResults[s] > 0 /\ Cancel(s) /\ UNCHANGED fetchVars

Next ==
  \/ Tick /\ UNCHANGED fetchVars
  \/ \E s \in Calls :
       \/ Progress(s) /\ UNCHANGED fetchVars
       \/ Search(s) \/ Begin(s) \/ Fetching(s) \/ CancelFetch(s)

\* The consumer takes what it is given; whether it begins is its own choice.
Fairness == HttpFairness /\ \A s \in Calls : WF_vars(Fetching(s))

Spec == Init /\ [][Next]_vars /\ Fairness

(***************************************************************************)
(* Properties.                                                             *)
(***************************************************************************)
FetchState ==
  [pc : {"idle", "searching", "paging", "waiting", "done"},
   cursor : Nat \cup {Fresh}, seen : SUBSET Nat,
   plan : Seq([start : Nat, max : Nat]), emitted : Nat, read : SUBSET Nat,
   outcome : Outcomes \cup {None}, faithful : BOOLEAN]

\* The variables have their types.
TypeOK ==
  /\ HttpTypeOK
  /\ load \in Loads
  /\ fetch \in [Calls -> FetchState]

\* No fetch emits more records than its query asked for, whatever the server
\* sends.
WithinMaxResults == \A s \in Calls : fetch[s].emitted <= MaxResults[s]

\* A server that keeps to its protocol is read completely: it is never refused
\* by the checks of cursors, counts and batches, each page starts where the last
\* one ended, and a fetch that ends of itself has emitted all that match, or as
\* many as the query asked for.
FaithfulIsServed ==
  \A s \in Calls :
    fetch[s].faithful =>
      /\ fetch[s].outcome # "refused"
      /\ In(s, "paging") =>
           fetch[s].emitted = IF source = "pubmed" THEN Batch(s).start
                              ELSE fetch[s].cursor
      /\ fetch[s].outcome = "end" => fetch[s].emitted = Least(total, MaxResults[s])

\* A fetch never asks again for a page it has read.
NoPageTwice ==
  \A s \in Calls :
    In(s, "waiting") /\ source # "pubmed" => fetch[s].cursor \notin fetch[s].read

\* A fetch that has begun ends, also when the server pages for ever, refuses to
\* answer, or the context is cancelled while another fetch holds the turn.
FetchEnds == \A s \in Calls : fetch[s].pc # "idle" ~> In(s, "done")
=============================================================================
