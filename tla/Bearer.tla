------------------------------- MODULE Bearer -------------------------------
(***************************************************************************)
(* The bearer token of one RPC on its way from the client's interceptor    *)
(* (withBearer of src/client/client.go) to the server's                    *)
(* (src/internal/bearer): what the caller's own metadata and the token     *)
(* source put into the "authorization" header, and what is made of it.     *)
(*                                                                         *)
(* A rune is known by its class: a graphic ASCII rune, ASCII white space, a*)
(* control character below 0x21 or DEL, and beyond ASCII a graphic rune, a *)
(* white space (such as U+00A0) or a control character (U+0080 to U+009F). *)
(***************************************************************************)
EXTENDS Integers, Sequences, SequencesExt

CONSTANTS
    MaxRunes,  \* bound on the runes after the scheme
    MaxValues  \* bound on the authorization values that reach the server

ASSUME BearerAssumption == MaxRunes \in Nat /\ MaxValues \in Nat \ {0}

VARIABLES
    attach,       \* Config.AttachToken of the client
    accessToken,  \* what the token source returns
    md,           \* the "authorization" values: [scheme, rest]
    stage,        \* "calling", "sent", "failed" or "received"
    token         \* what FromIncomingMetadata returns, <<>> for ""

vars == <<attach, accessToken, md, stage, token>>

Runes    == {"ascii", "space", "ctl", "letter", "uspace", "uctl"}
Texts    == UNION {[1..n -> Runes] : n \in 0..MaxRunes}
\* EqualFold ignores the case of "bearer "; anything else is one scheme.
Schemes  == {"Bearer ", "bEARER ", "other"}
Values   == [scheme: Schemes, rest: Texts]
IsBearer(v) == v.scheme # "other"

White(r)    == r \in {"space", "uspace"}
Rejected(r) == r \in {"space", "ctl"}   \* below 0x21, or 0x7f

-----------------------------------------------------------------------------
Init ==
    /\ attach \in BOOLEAN
    /\ accessToken \in IF attach THEN Texts ELSE {<<>>}
    /\ md \in UNION {[1..n -> Values] : n \in 0..(IF attach THEN MaxValues - 1 ELSE MaxValues)}
    /\ stage = "calling"
    /\ token = <<>>

\* Mutant of withBearer: an empty token is attached.
withBearerAlways ==
    /\ stage = "calling" /\ attach
    /\ md' = Append(md, [scheme |-> "Bearer ", rest |-> accessToken])
    /\ stage' = "sent"
    /\ UNCHANGED <<attach, accessToken, token>>

\* The client's interceptor adds a value, or fails without a token.
withBearer ==
    /\ stage = "calling" /\ attach
    /\ IF accessToken = <<>>
         THEN stage' = "failed" /\ UNCHANGED md
         ELSE /\ md' = Append(md, [scheme |-> "Bearer ", rest |-> accessToken])
              /\ stage' = "sent"
    /\ UNCHANGED <<attach, accessToken, token>>

\* noopUnary and noopStream: the metadata are the caller's own.
noop ==
    /\ stage = "calling" /\ ~attach
    /\ stage' = "sent"
    /\ UNCHANGED <<attach, accessToken, md, token>>

\* strings.TrimSpace
TrimSpace(s) ==
    LET solid == {i \in DOMAIN s : ~White(s[i])} IN
    IF solid = {} THEN <<>>
    ELSE SubSeq(s, CHOOSE i \in solid : \A j \in solid : i <= j,
                   CHOOSE i \in solid : \A j \in solid : j <= i)

\* Mutant of extract: of several values the first one counts.
extractFirst(values) ==
    IF values = <<>> \/ ~IsBearer(values[1]) THEN <<>>
    ELSE LET tok == TrimSpace(values[1].rest) IN
         IF \E i \in DOMAIN tok : Rejected(tok[i]) THEN <<>> ELSE tok

\* Mutant of extract: the token is not trimmed and not searched.
extractLoosely(values) ==
    IF Len(values) # 1 \/ ~IsBearer(values[1]) THEN <<>> ELSE values[1].rest

extract(values) ==
    IF Len(values) # 1 \/ ~IsBearer(values[1]) THEN <<>>
    ELSE LET tok == TrimSpace(values[1].rest) IN
         IF \E i \in DOMAIN tok : Rejected(tok[i]) THEN <<>> ELSE tok

FromIncomingMetadata ==
    /\ stage = "sent"
    /\ token' = extract(md)
    /\ stage' = "received"
    /\ UNCHANGED <<attach, accessToken, md>>

Next == withBearer \/ noop \/ FromIncomingMetadata

Spec == Init /\ [][Next]_vars

-----------------------------------------------------------------------------
(* Properties                                                              *)

\* The token an attaching client's RPC is judged by is the one its token source
\* returned, but for white space around it: a header the caller already had
\* never takes its place, it makes the server refuse the RPC.
TokenIsTheClients ==
    attach /\ stage = "received" /\ token # <<>> => token = TrimSpace(accessToken)

\* A token of graphic ASCII arrives unless the caller had a header of its own.
CleanTokenArrives ==
    /\ attach /\ stage = "received" /\ Len(md) = 1
    /\ \A i \in DOMAIN accessToken : accessToken[i] = "ascii"
    => token = accessToken /\ token # <<>>

\* A token that is accepted has no control character and no white space of
\* ASCII in it, and comes from the only value, with scheme Bearer in any case.
AcceptedIsClean ==
    stage = "received" /\ token # <<>> =>
        /\ Len(md) = 1 /\ IsBearer(md[1])
        /\ \A i \in DOMAIN token : token[i] \notin {"space", "ctl"}
        /\ ~White(token[1]) /\ ~White(token[Len(token)])

-----------------------------------------------------------------------------
\* FromIncomingMetadata: "no control characters and no whitespace inside", of
\* whatever alphabet.
NoControlNoWhitespace ==
    \A i \in DOMAIN token : token[i] \notin {"space", "uspace", "ctl", "uctl"}
=============================================================================
