------------------------------- MODULE Paging -------------------------------
(***************************************************************************)
(* The paging loop of the admin package.  lookupUserByUsername and         *)
(* lookupApplicationByName (lookup.go) run it to find the one entry of a   *)
(* name; listAllAuthorizations and listAllUserMetadata (verify.go) run it  *)
(* to read a whole list.  Every page is a remote call of its own, cut out  *)
(* of the list as it is at that moment by an offset, while others create   *)
(* and delete entries.                                                     *)
(*                                                                         *)
(* The list is external: Zitadel keeps it in an order of its own, may      *)
(* return less than the page that was asked for, and reports the number of *)
(* entries, nothing, or too much (entries it counts and does not show).    *)
(***************************************************************************)
EXTENDS Integers, Sequences, FiniteSets, SequencesExt

CONSTANTS
    Entries,         \* what may be in the list
    Wanted,          \* entries that carry the name a lookup asks for
    lookupPageSize,  \* the limit in the request
    ServerMax        \* what a server may limit its pages to

ASSUME PagingAssumption ==
    /\ Wanted \subseteq Entries /\ IsFiniteSet(Entries)
    /\ lookupPageSize \in Nat \ {0}
    /\ ServerMax \subseteq Nat \ {0}

VARIABLES
    kind,   \* "all", or "lookup" for the entry with the name
    totals, \* the total the server reports: "exact", "none" (0), or "over"
    max,    \* the server's own limit
    list,   \* the list as it is now
    seen,   \* the entries received, page after page
    pc,     \* "walking", "done", "ambiguous", "stuck" (an error)
    stayed, \* history: entries in the list ever since the walk began
    gone,   \* history: an entry in front of the offset was deleted
    came    \* history: an entry was put in front of the offset

env  == <<kind, totals, max>>
hist == <<stayed, gone, came>>
vars == <<env, list, seen, pc, hist>>

\* Every answer is appended to what was received, so the next page starts there.
offset == Len(seen)

\* What an "over" total adds to the list.
Hidden == 1
Total(l) == CASE totals = "exact" -> Len(l)
              [] totals = "none"  -> 0
              [] totals = "over"  -> Len(l) + Hidden

Smaller(a, b) == IF a <= b THEN a ELSE b

\* Where the page at offset o ends.
PageEnd(l, o) == IF o >= Len(l) THEN o
                 ELSE Smaller(Len(l), o + Smaller(lookupPageSize, max))

\* Mutant of paginationComplete: a short page is taken for the last one.
paginationCompleteByCount(next, resultCount, total) == resultCount < lookupPageSize

paginationComplete(next, resultCount, total) ==
    IF total > 0 THEN next >= total ELSE resultCount < lookupPageSize

\* Two different answers carry the name (at any two places).
Ambiguous(s) == \E i, j \in DOMAIN s : i < j /\ s[i] \in Wanted /\ s[j] \in Wanted

\* Mutant of Outcome: a page that is empty does not stop the loop.
OutcomeGoingOn(l, received) ==
    IF kind = "lookup" /\ Ambiguous(received) THEN "ambiguous"
    ELSE IF paginationComplete(Len(received), Len(received) - offset, Total(l)) THEN "done"
    ELSE "walking"

\* Mutant of Outcome: a second match is not noticed.
OutcomeOfLastMatch(l, received) ==
    IF paginationComplete(Len(received), Len(received) - offset, Total(l)) THEN "done"
    ELSE IF Len(received) = offset THEN "stuck" ELSE "walking"

\* How the loop goes on once a page was received.
Outcome(l, received) ==
    IF kind = "lookup" /\ Ambiguous(received) THEN "ambiguous"
    ELSE IF paginationComplete(Len(received), Len(received) - offset, Total(l)) THEN "done"
    ELSE IF Len(received) = offset THEN "stuck" ELSE "walking"

-----------------------------------------------------------------------------
\* The walk begins at any list that has no entry twice.
Init ==
    /\ kind \in {"all", "lookup"}
    /\ totals \in {"exact", "none", "over"}
    /\ max \in ServerMax
    /\ list \in UNION {{l \in [1..n -> Entries] : IsInjective(l)} : n \in 0..Cardinality(Entries)}
    /\ seen = <<>>
    /\ pc = "walking"
    /\ stayed = ToSet(list)
    /\ gone = FALSE
    /\ came = FALSE

\* The answers with those of the next page.
Received == seen \o SubSeq(list, offset + 1, PageEnd(list, offset))

\* One turn of the loop: request, page, and what is made of it.
Turn ==
    /\ pc = "walking"
    /\ seen' = Received
    /\ pc' = Outcome(list, Received)

ReadPage == Turn /\ UNCHANGED <<env, list, hist>>

\* Somebody else creates an entry; it comes to lie at place i.
Create(e, i) ==
    /\ pc = "walking"
    /\ e \notin ToSet(list)
    /\ list' = InsertAt(list, i, e)
    /\ came' = (came \/ i <= offset)
    /\ UNCHANGED <<env, seen, pc, stayed, gone>>

\* Somebody else deletes the entry at place i.
Delete(i) ==
    /\ pc = "walking"
    /\ list' = RemoveAt(list, i)
    /\ stayed' = stayed \ {list[i]}
    /\ gone' = (gone \/ i <= offset)
    /\ UNCHANGED <<env, seen, pc, came>>

Next ==
    \/ ReadPage
    \/ \E e \in Entries : \E i \in 1..(Len(list) + 1) : Create(e, i)
    \/ \E i \in DOMAIN list : Delete(i)

Spec == Init /\ [][Next]_vars

\* The caller's goroutine goes on and every request is answered or fails.
FairSpec == Spec /\ WF_vars(ReadPage)

-----------------------------------------------------------------------------
(* Properties                                                              *)

\* The server tells when the list is over: by a total that is right, or, when
\* it reports none, by a page that is shorter than what was asked for only at
\* the end.
Honest == totals = "exact" \/ (totals = "none" /\ max >= lookupPageSize)

\* An entry that is in the list throughout the walk is received, unless an
\* entry in front of the offset was deleted meanwhile, and it is received only
\* once, unless one was put in front of the offset.
StayersSeenOnce ==
    pc = "done" => \A e \in stayed :
        /\ Honest /\ ~gone => \E i \in DOMAIN seen : seen[i] = e
        /\ ~came => \A i, j \in DOMAIN seen : seen[i] = e /\ seen[j] = e => i = j

\* As long as nothing moved in front of the offset, the loop's answer is that
\* of one read of the whole list at the end: the whole list, the only entry of
\* the name or none, or that there is more than one.
AsIfAtOnce ==
    ~gone /\ ~came =>
        /\ pc = "done" /\ Honest => seen = list /\ (kind = "lookup" => ~Ambiguous(list))
        /\ pc = "ambiguous" => kind = "lookup" /\ Ambiguous(list)

\* A walk ends, with an answer or an error, whatever the server reports and
\* however the list changes under it.
WalkEnds == <>(pc # "walking")

-----------------------------------------------------------------------------
(* The inductive invariant                                                 *)

TypeOK ==
    /\ kind \in {"all", "lookup"}
    /\ totals \in {"exact", "none", "over"}
    /\ max \in ServerMax
    /\ list \in Seq(Entries) /\ seen \in Seq(Entries)
    /\ pc \in {"walking", "done", "ambiguous", "stuck"}
    /\ stayed \subseteq Entries
    /\ gone \in BOOLEAN /\ came \in BOOLEAN

\* No entry is in the list twice, and what stayed is in it.
ListInv ==
    /\ \A i, j \in DOMAIN list : list[i] = list[j] => i = j
    /\ \A e \in stayed : \E i \in DOMAIN list : list[i] = e

\* What stayed and lies in front of the offset has been received; what lies
\* behind has not; what has been received was received once.
WalkInv ==
    /\ ~gone => \A i \in DOMAIN list : i <= offset /\ list[i] \in stayed
                                         => \E k \in DOMAIN seen : seen[k] = list[i]
    /\ ~came => /\ \A i \in DOMAIN list : \A k \in DOMAIN seen :
                      i > offset /\ list[i] \in stayed => seen[k] # list[i]
                /\ \A k, m \in DOMAIN seen : seen[k] = seen[m] /\ seen[k] \in stayed => k = m

\* While nothing has moved in front of the offset, what was received is the
\* beginning of the list.
PrefixInv ==
    ~gone /\ ~came => /\ offset <= Len(list)
                      /\ \A i \in DOMAIN seen : seen[i] = list[i]

\* A walk that is done has come to the end, and knows of one match at most.
DoneInv ==
    /\ pc = "done" /\ Honest => offset >= Len(list)
    /\ pc \in {"walking", "done"} /\ kind = "lookup" => ~Ambiguous(seen)
    /\ pc = "ambiguous" => kind = "lookup" /\ Ambiguous(seen)

IInv == TypeOK /\ ListInv /\ WalkInv /\ PrefixInv /\ DoneInv

-----------------------------------------------------------------------------
\* HUMAN_LOGIN_IMPLEMENTATION_PLAN.md: "exact, pagination-safe user and
\* application lookups".  An entry that is there throughout is found.
PaginationSafe ==
    pc = "done" /\ Honest => \A e \in stayed : e \in ToSet(seen)
=============================================================================
