---------------------------- MODULE ReplServerProofs ----------------------------
(***************************************************************************)
(* Proofs about ReplServer, for any number of peers, requests and room in  *)
(* the sockets: each answer is the answer to its request, and the end of a *)
(* connection costs none that is newer.                                    *)
(*                                                                         *)
(* The first rests on where the one request that a peer may have pending   *)
(* can be: unread at the server, evaluated but not written, or written and *)
(* not read.  The second rests on what delete_list can hold: a connection  *)
(* whose peer has left.                                                    *)
(***************************************************************************)
EXTENDS ReplServer, TLAPS

\* The pending request of a peer that waits for its answers: nowhere before
\* the first and when its answer has been read, in one of three places while the
\* peer waits, or lost with the server that was killed while it answered.
OnePlace(p) ==
    LET places == <<inbox[p], write_buf[p], outbox[p]>>
        none == <<<<>>, <<>>, <<>>>>
        one == <<asked[p]>>
    IN \/ asked[p] = 0 /\ answer[p] = <<>> /\ places = none
       \/ asked[p] > 0 /\ answer[p] = one /\ places = none
       \/ asked[p] > 0 /\ answer[p] = <<>>
          /\ places \in {<<one, <<>>, <<>>>>, <<<<>>, one, <<>>>>, <<<<>>, <<>>, one>>, none}

RequestsInPlace == \A p \in Peers \ Pipelining : OnePlace(p)

\* A peer is in no list before it connects.
StrangersUnlisted ==
    \A p \in Peers : peer[p] = "off" => p \notin Range(backlog) \cup Range(conn_list)

\* What select has found in the backlog is there until it is accepted.
BacklogKept == pc = "accept" /\ Listener \in rset => backlog # <<>>

DeletedHasLeft == delete_list # NoConn => peer[delete_list] = "closed"

ReplInv ==
    /\ TypeOK /\ RequestsInPlace /\ StrangersUnlisted /\ BacklogKept
    /\ DeletedHasLeft

----------------------------------------------------------------------------
(* Sequences without repetitions.                                          *)

LEMMA ConcatInjective ==
    ASSUME NEW S, NEW s \in Seq(S), NEW t \in Seq(S)
    PROVE  IsInjective(s \o t) <=>
               IsInjective(s) /\ IsInjective(t) /\ Range(s) \cap Range(t) = {}
<1>1. /\ DOMAIN (s \o t) = 1..(Len(s) + Len(t))
      /\ \A k \in DOMAIN s : (s \o t)[k] = s[k] /\ k \in DOMAIN (s \o t)
      /\ \A k \in DOMAIN t : (s \o t)[Len(s) + k] = t[k] /\ Len(s) + k \in DOMAIN (s \o t)
      /\ \A k \in DOMAIN (s \o t) :
            \/ k \in DOMAIN s /\ (s \o t)[k] = s[k]
            \/ k - Len(s) \in DOMAIN t /\ (s \o t)[k] = t[k - Len(s)]
      /\ DOMAIN s = 1..Len(s) /\ DOMAIN t = 1..Len(t)
      /\ Len(s) \in Nat /\ Len(t) \in Nat
    OBVIOUS
<1>2. ASSUME IsInjective(s \o t)
      PROVE  IsInjective(s) /\ IsInjective(t) /\ Range(s) \cap Range(t) = {}
  <2>1. IsInjective(s)
    BY <1>1, <1>2 DEF IsInjective
  <2>2. ASSUME NEW j \in DOMAIN t, NEW k \in DOMAIN t, t[j] = t[k] PROVE j = k
    <3>1. Len(s) + j = Len(s) + k
      BY <1>1, <1>2, <2>2 DEF IsInjective
    <3> QED BY <1>1, <3>1
  <2>3. ASSUME NEW j \in DOMAIN s, NEW k \in DOMAIN t, s[j] = t[k] PROVE FALSE
    <3>1. j = Len(s) + k
      BY <1>1, <1>2, <2>3 DEF IsInjective
    <3> QED BY <1>1, <3>1
  <2> QED BY <2>1, <2>2, <2>3 DEF IsInjective, Range
<1>3. ASSUME IsInjective(s), IsInjective(t), Range(s) \cap Range(t) = {},
             NEW j \in DOMAIN (s \o t), NEW k \in DOMAIN (s \o t), (s \o t)[j] = (s \o t)[k]
      PROVE  j = k
  <2>1. \A x \in DOMAIN s, y \in DOMAIN t : s[x] # t[y]
    BY <1>3 DEF Range
  <2>2. CASE j \in DOMAIN s /\ k \in DOMAIN s
    BY <1>1, <1>3, <2>2 DEF IsInjective
  <2>3. CASE j \notin DOMAIN s /\ k \notin DOMAIN s
    <3>1. j - Len(s) = k - Len(s)
      BY <1>1, <1>3, <2>3 DEF IsInjective
    <3> QED BY <1>1, <3>1
  <2>4. CASE j \in DOMAIN s /\ k \notin DOMAIN s
    BY <1>1, <1>3, <2>1, <2>4
  <2>5. CASE j \notin DOMAIN s /\ k \in DOMAIN s
    BY <1>1, <1>3, <2>1, <2>5
  <2> QED BY <2>2, <2>3, <2>4, <2>5
<1> QED BY <1>2, <1>3 DEF IsInjective

LEMMA OneMoreLast ==
    ASSUME NEW S, NEW s \in Seq(S), NEW e \in S, IsInjective(s), e \notin Range(s)
    PROVE  /\ Append(s, e) \in Seq(S) /\ IsInjective(Append(s, e))
           /\ Range(Append(s, e)) = Range(s) \cup {e}
<1>1. /\ Append(s, e) \in Seq(S)
      /\ DOMAIN s = 1..Len(s) /\ Len(s) \in Nat
      /\ DOMAIN Append(s, e) = 1..(Len(s) + 1)
      /\ \A k \in DOMAIN s : Append(s, e)[k] = s[k]
      /\ Append(s, e)[Len(s) + 1] = e
      /\ \A k \in 1..(Len(s) + 1) : k = Len(s) + 1 \/ k \in DOMAIN s
    OBVIOUS
<1>2. \A k \in DOMAIN s : s[k] # e
    BY DEF Range
<1>3. IsInjective(Append(s, e))
    BY <1>1, <1>2 DEF IsInjective
<1>4. \A x \in Range(s) \cup {e} : \E k \in DOMAIN Append(s, e) : Append(s, e)[k] = x
    BY <1>1 DEF Range
<1>5. \A k \in DOMAIN Append(s, e) : Append(s, e)[k] \in Range(s) \cup {e}
    BY <1>1 DEF Range
<1>6. Range(Append(s, e)) = Range(s) \cup {e}
    BY <1>4, <1>5 DEF Range
<1> QED BY <1>1, <1>3, <1>6

LEMMA OneMoreFirst ==
    ASSUME NEW S, NEW s \in Seq(S), NEW e \in S, IsInjective(s), e \notin Range(s)
    PROVE  /\ <<e>> \o s \in Seq(S) /\ IsInjective(<<e>> \o s)
           /\ Range(<<e>> \o s) = Range(s) \cup {e}
<1>1. <<e>> \in Seq(S) /\ IsInjective(<<e>>) /\ Range(<<e>>) = {e}
    BY DEF IsInjective, Range
<1>2. <<e>> \o s \in Seq(S)
    BY <1>1
<1>3. IsInjective(<<e>> \o s)
  <2> DEFINE t == <<e>>
  <2>1. t \in Seq(S) /\ IsInjective(t) /\ Range(t) \cap Range(s) = {}
    BY <1>1
  <2> HIDE DEF t
  <2>2. IsInjective(t \o s)
    BY <2>1, ConcatInjective
  <2> QED BY <2>2 DEF t
<1>4. /\ DOMAIN s = 1..Len(s) /\ Len(s) \in Nat /\ DOMAIN (<<e>> \o s) = 1..(Len(s) + 1)
      /\ \A k \in DOMAIN s : k + 1 \in DOMAIN (<<e>> \o s) /\ (<<e>> \o s)[k + 1] = s[k]
      /\ 1 \in DOMAIN (<<e>> \o s) /\ (<<e>> \o s)[1] = e
      /\ \A k \in 1..(Len(s) + 1) :
            k = 1 \/ (k - 1 \in DOMAIN s /\ (<<e>> \o s)[k] = s[k - 1])
    OBVIOUS
<1>5. ASSUME NEW x \in Range(s) PROVE \E k \in DOMAIN (<<e>> \o s) : (<<e>> \o s)[k] = x
  <2>1. PICK k \in DOMAIN s : s[k] = x
    BY DEF Range
  <2> QED BY <1>4, <2>1
<1>6. \A k \in DOMAIN (<<e>> \o s) : (<<e>> \o s)[k] \in Range(s) \cup {e}
    BY <1>4 DEF Range
<1>7. \A x \in Range(s) \cup {e} : \E k \in DOMAIN (<<e>> \o s) : (<<e>> \o s)[k] = x
    BY <1>4, <1>5
<1>8. Range(<<e>> \o s) = Range(s) \cup {e}
    BY <1>6, <1>7 DEF Range
<1> QED BY <1>2, <1>3, <1>8

LEMMA ConcatParts ==
    ASSUME NEW S, NEW s \in Seq(S), NEW t \in Seq(S)
    PROVE  /\ s \o t \in Seq(S) /\ Len(s \o t) = Len(s) + Len(t)
           /\ \A k \in 1..Len(s) : (s \o t)[k] = s[k]
           /\ \A k \in 1..Len(t) : (s \o t)[Len(s) + k] = t[k]
OBVIOUS

LEMMA OneLess ==
    ASSUME NEW S, NEW s \in Seq(S), IsInjective(s), NEW i \in DOMAIN s
    PROVE  /\ RemoveAt(s, i) \in Seq(S) /\ IsInjective(RemoveAt(s, i))
           /\ Range(RemoveAt(s, i)) = Range(s) \ {s[i]}
<1> DEFINE r == RemoveAt(s, i)
<1>1. /\ r \in Seq(S) /\ DOMAIN r = 1..(Len(s) - 1) /\ Len(s) \in Nat
      /\ DOMAIN s = 1..Len(s)
      /\ \A k \in 1..(Len(s) - 1) : r[k] = IF k < i THEN s[k] ELSE s[k + 1]
  <2> DEFINE before == SubSeq(s, 1, i - 1)
             after == SubSeq(s, i + 1, Len(s))
  <2>1. /\ before \in Seq(S) /\ Len(before) = i - 1
        /\ \A k \in 1..(i - 1) : before[k] = s[k]
    OBVIOUS
  <2>2. /\ after \in Seq(S) /\ Len(after) = Len(s) - i
        /\ \A k \in 1..(Len(s) - i) : after[k] = s[i + k]
    OBVIOUS
  <2>3. Len(s) \in Nat /\ i \in 1..Len(s) /\ DOMAIN s = 1..Len(s)
    OBVIOUS
  <2> HIDE DEF before, after
  <2>4. /\ before \o after \in Seq(S) /\ DOMAIN (before \o after) = 1..(Len(s) - 1)
        /\ \A k \in 1..(i - 1) : (before \o after)[k] = before[k]
        /\ \A k \in 1..(Len(s) - i) : (before \o after)[i - 1 + k] = after[k]
    <3>1. /\ before \o after \in Seq(S)
          /\ Len(before \o after) = Len(before) + Len(after)
          /\ \A k \in 1..Len(before) : (before \o after)[k] = before[k]
          /\ \A k \in 1..Len(after) : (before \o after)[Len(before) + k] = after[k]
      <4>1. before \in Seq(S) /\ after \in Seq(S)
        BY <2>1, <2>2
      <4> QED BY <4>1, ConcatParts
    <3>2. Len(before) + Len(after) = Len(s) - 1
      BY <2>1, <2>2, <2>3
    <3> QED BY <2>1, <2>2, <3>1, <3>2
  <2>5. ASSUME NEW k \in 1..(Len(s) - 1)
        PROVE  (before \o after)[k] = IF k < i THEN s[k] ELSE s[k + 1]
    <3>1. CASE k < i
      <4>1. k \in 1..(i - 1)
        BY <2>3, <3>1
      <4> QED BY <2>1, <2>4, <3>1, <4>1
    <3>2. CASE ~(k < i)
      <4>1. PICK l \in 1..(Len(s) - i) : k = i - 1 + l
        <5>1. k - (i - 1) \in 1..(Len(s) - i) /\ k = i - 1 + (k - (i - 1))
          BY <2>3, <3>2
        <5> QED BY <5>1
      <4>2. (before \o after)[k] = s[i + l]
        BY <2>2, <2>4, <4>1
      <4>3. i + l = k + 1
        BY <2>3, <4>1
      <4> QED BY <3>2, <4>2, <4>3
    <3> QED BY <3>1, <3>2
  <2>6. r = before \o after
    BY DEF RemoveAt, before, after
  <2> QED BY <2>3, <2>4, <2>5, <2>6
<1> HIDE DEF r
<1>2. IsInjective(r)
  <2> SUFFICES ASSUME NEW j \in 1..(Len(s) - 1), NEW k \in 1..(Len(s) - 1), r[j] = r[k]
               PROVE  j = k
    BY <1>1 DEF IsInjective
  <2> DEFINE at(l) == IF l < i THEN l ELSE l + 1
  <2>1. /\ at(j) \in DOMAIN s /\ at(k) \in DOMAIN s
        /\ s[at(j)] = s[at(k)]
    BY <1>1
  <2>2. at(j) = at(k)
    BY <2>1 DEF IsInjective
  <2> QED BY <1>1, <2>2
<1>3. Range(r) = Range(s) \ {s[i]}
  <2>1. ASSUME NEW k \in DOMAIN r PROVE r[k] \in Range(s) \ {s[i]}
    <3> DEFINE at == IF k < i THEN k ELSE k + 1
    <3>1. at \in DOMAIN s /\ r[k] = s[at] /\ at # i
      BY <1>1
    <3> HIDE DEF at
    <3> QED BY <3>1 DEF Range, IsInjective
  <2>2. ASSUME NEW l \in DOMAIN s, l # i PROVE \E k \in DOMAIN r : r[k] = s[l]
    <3>1. CASE l < i
      BY <1>1, <3>1
    <3>2. CASE l > i
      <4>1. l - 1 \in DOMAIN r /\ r[l - 1] = s[l]
        BY <1>1, <3>2
      <4> QED BY <4>1
    <3> QED BY <1>1, <2>2, <3>1, <3>2
  <2> QED BY <2>1, <2>2 DEF Range
<1> QED BY <1>1, <1>2, <1>3 DEF r

LEMMA FirstOff ==
    ASSUME NEW S, NEW s \in Seq(S), s # <<>>, IsInjective(s)
    PROVE  /\ Head(s) \in S /\ Tail(s) \in Seq(S) /\ IsInjective(Tail(s))
           /\ Head(s) \in Range(s) /\ Range(Tail(s)) = Range(s) \ {Head(s)}
<1>1. /\ 1 \in DOMAIN s /\ Head(s) = s[1] /\ Head(s) \in S
      /\ Tail(s) \in Seq(S) /\ DOMAIN Tail(s) = 1..(Len(s) - 1) /\ DOMAIN s = 1..Len(s)
      /\ Len(s) \in Nat /\ \A k \in DOMAIN Tail(s) : Tail(s)[k] = s[k + 1] /\ k + 1 \in DOMAIN s
      /\ \A k \in DOMAIN s : k = 1 \/ (k - 1 \in DOMAIN Tail(s) /\ Tail(s)[k - 1] = s[k])
    OBVIOUS
<1>2. ASSUME NEW j \in DOMAIN Tail(s), NEW k \in DOMAIN Tail(s), Tail(s)[j] = Tail(s)[k]
      PROVE  j = k
  <2>1. j + 1 = k + 1
    BY <1>1, <1>2 DEF IsInjective
  <2> QED BY <1>1, <2>1
<1>3. \A k \in DOMAIN Tail(s) : Tail(s)[k] \in Range(s) \ {Head(s)}
  <2>1. \A k \in DOMAIN Tail(s) : k + 1 # 1
    BY <1>1
  <2> QED BY <1>1, <2>1 DEF Range, IsInjective
<1>4. \A x \in Range(s) \ {Head(s)} : \E k \in DOMAIN Tail(s) : Tail(s)[k] = x
    BY <1>1 DEF Range
<1> QED BY <1>1, <1>2, <1>3, <1>4 DEF IsInjective, Range

LEMMA Prefix ==
    ASSUME NEW S, NEW s \in Seq(S), NEW n \in DOMAIN s, IsInjective(s)
    PROVE  /\ SubSeq(s, 1, n) \in Seq(S) /\ IsInjective(SubSeq(s, 1, n))
           /\ Range(SubSeq(s, 1, n)) \subseteq Range(s)
           /\ \A k \in 1..n : s[k] \in Range(SubSeq(s, 1, n))
<1>1. /\ SubSeq(s, 1, n) \in Seq(S) /\ DOMAIN SubSeq(s, 1, n) = 1..n
      /\ \A k \in 1..n : SubSeq(s, 1, n)[k] = s[k] /\ k \in DOMAIN s
    OBVIOUS
<1> QED BY <1>1 DEF IsInjective, Range

----------------------------------------------------------------------------
(* The lists of connections.                                               *)

\* What the types say of the two lists.
ListsOK ==
    /\ backlog \in Seq(Peers) /\ conn_list \in Seq(Peers)
    /\ IsInjective(backlog) /\ IsInjective(conn_list)
    /\ Range(backlog) \cap Range(conn_list) = {}

SocketsOK ==
    /\ peer \in [Peers -> {"off", "open", "reset", "closed"}]
    /\ asked \in [Peers -> 0..MaxRequests]
    /\ answer \in [Peers -> Seq(Requests)]
    /\ inbox \in [Peers -> Seq(Requests)] /\ outbox \in [Peers -> Seq(Requests)]
    /\ write_buf \in [Peers -> Seq(Requests)]

ServerOK ==
    /\ pc \in {"select", "accept", "serve", "reap", "killed", "assert_failed"}
    /\ rset \subseteq Peers \cup {Listener} /\ wset \subseteq Peers
    /\ conn \in Nat \ {0}
    /\ delete_list \in Peers \cup {NoConn}

LEMMA TypeParts == TypeOK <=> ListsOK /\ SocketsOK /\ ServerOK
<1>1. backlog \in Seq(Peers) /\ conn_list \in Seq(Peers) =>
          (IsInjective(backlog \o conn_list) <=>
             /\ IsInjective(backlog) /\ IsInjective(conn_list)
             /\ Range(backlog) \cap Range(conn_list) = {})
    BY ConcatInjective
<1> QED BY <1>1, Zenon DEF TypeOK, ListsOK, SocketsOK, ServerOK

LEMMA TypePartsNext == TypeOK' <=> ListsOK' /\ SocketsOK' /\ ServerOK'
<1>1. backlog' \in Seq(Peers) /\ conn_list' \in Seq(Peers) =>
          (IsInjective(backlog' \o conn_list') <=>
             /\ IsInjective(backlog') /\ IsInjective(conn_list')
             /\ Range(backlog') \cap Range(conn_list') = {})
    BY ConcatInjective
<1> QED BY <1>1, Zenon DEF TypeOK, ListsOK, SocketsOK, ServerOK

\* A step that leaves the lists alone keeps what is known of them.
LEMMA ListsKept ==
    ASSUME ListsOK, UNCHANGED <<backlog, conn_list>>
    PROVE  ListsOK'
BY DEF ListsOK

LEMMA StrangersKept ==
    ASSUME SocketsOK, StrangersUnlisted,
           \A p \in Peers : peer'[p] = "off" => peer[p] = "off",
           Range(backlog') \cup Range(conn_list') \subseteq Range(backlog) \cup Range(conn_list)
    PROVE  StrangersUnlisted'
BY DEF StrangersUnlisted

LEMMA ReplInitial == Init => ReplInv
<1> SUFFICES ASSUME Init PROVE ReplInv
    OBVIOUS
<1>1. Range(<<>>) = {} /\ IsInjective(<<>>) /\ <<>> \in Seq(Peers)
    BY DEF Range, IsInjective
<1>2. ListsOK
    BY <1>1 DEF Init, ListsOK
<1>3. SocketsOK /\ ServerOK
    BY ReplAssumption DEF Init, SocketsOK, ServerOK
<1>4. RequestsInPlace
    BY DEF Init, RequestsInPlace, OnePlace
<1>5. StrangersUnlisted /\ BacklogKept /\ DeletedHasLeft
    BY <1>1 DEF Init, StrangersUnlisted, BacklogKept, DeletedHasLeft
<1> QED BY <1>2, <1>3, <1>4, <1>5, TypeParts DEF ReplInv

----------------------------------------------------------------------------
(* The peers.                                                              *)

LEMMA ConnectPreserves ==
    ASSUME ReplInv, NEW p \in Peers, Connect(p)
    PROVE  ReplInv'
<1>1. ListsOK /\ SocketsOK /\ ServerOK
    BY TypeParts DEF ReplInv
<1>2. /\ peer[p] = "off" /\ peer' = [peer EXCEPT ![p] = "open"]
      /\ backlog' = Append(backlog, p)
      /\ UNCHANGED <<asked, answer, inbox, outbox, pc, conn_list, rset, wset, conn,
                     delete_list, write_buf>>
    BY DEF Connect, serverVars
<1>3. p \notin Range(backlog) \cup Range(conn_list)
    BY <1>2 DEF ReplInv, StrangersUnlisted
<1>4. /\ backlog' \in Seq(Peers) /\ IsInjective(backlog')
      /\ Range(backlog') = Range(backlog) \cup {p}
  <2>1. backlog \in Seq(Peers) /\ IsInjective(backlog) /\ p \notin Range(backlog)
    BY <1>1, <1>3 DEF ListsOK
  <2>2. /\ Append(backlog, p) \in Seq(Peers) /\ IsInjective(Append(backlog, p))
        /\ Range(Append(backlog, p)) = Range(backlog) \cup {p}
    BY <2>1, OneMoreLast
  <2> QED BY <1>2, <2>2
<1>5. ListsOK'
    BY <1>1, <1>2, <1>3, <1>4 DEF ListsOK
<1>6. SocketsOK' /\ ServerOK'
    BY <1>1, <1>2 DEF SocketsOK, ServerOK
<1>7. RequestsInPlace'
    BY <1>2 DEF ReplInv, RequestsInPlace, OnePlace
<1>8. StrangersUnlisted'
    BY <1>1, <1>2, <1>4 DEF ReplInv, StrangersUnlisted, SocketsOK
<1>9. BacklogKept'
  <2>1. backlog' # <<>>
    BY <1>1, <1>2 DEF ListsOK
  <2> QED BY <2>1 DEF BacklogKept
<1>10. DeletedHasLeft'
    BY <1>1, <1>2 DEF ReplInv, DeletedHasLeft, SocketsOK, ServerOK
<1> QED BY <1>5, <1>6, <1>7, <1>8, <1>9, <1>10, TypePartsNext DEF ReplInv

\* Send, Receive and Close touch no list.
LEMMA SendPreserves ==
    ASSUME ReplInv, NEW p \in Peers, Send(p)
    PROVE  SocketsOK' /\ RequestsInPlace'
<1>1. SocketsOK /\ ServerOK
    BY TypeParts DEF ReplInv
<1>2. /\ Open(p) /\ asked[p] < MaxRequests /\ (~Waiting(p) \/ p \in Pipelining)
      /\ asked' = [asked EXCEPT ![p] = @ + 1]
      /\ answer' = [answer EXCEPT ![p] = <<>>]
      /\ inbox' = [inbox EXCEPT ![p] = Append(@, asked'[p])]
      /\ UNCHANGED <<peer, outbox, write_buf>>
    BY DEF Send, serverVars
<1>3. /\ asked[p] \in Nat /\ asked[p] + 1 \in Requests /\ asked[p] + 1 > 0
      /\ asked'[p] = asked[p] + 1
    BY <1>1, <1>2, ReplAssumption DEF SocketsOK, Requests
<1>4. SocketsOK'
  <2>1. asked' \in [Peers -> 0..MaxRequests]
    BY <1>1, <1>2, <1>3 DEF SocketsOK, Requests
  <2>2. answer' \in [Peers -> Seq(Requests)]
    BY <1>1, <1>2 DEF SocketsOK
  <2>3. Append(inbox[p], asked'[p]) \in Seq(Requests)
    <3>1. inbox[p] \in Seq(Requests)
      BY <1>1 DEF SocketsOK
    <3> QED BY <1>3, <3>1
  <2>4. inbox' \in [Peers -> Seq(Requests)]
    BY <1>1, <1>2, <2>3 DEF SocketsOK
  <2> QED BY <1>1, <1>2, <2>1, <2>2, <2>4 DEF SocketsOK
<1>5. ASSUME NEW q \in Peers \ Pipelining PROVE OnePlace(q)'
  <2>1. OnePlace(q)
    BY DEF ReplInv, RequestsInPlace
  <2>2. CASE q # p
    BY <1>1, <1>2, <2>1, <2>2 DEF OnePlace, SocketsOK
  <2>3. CASE q = p
    <3>1. ~Waiting(p)
      BY <1>2, <2>3
    <3>2. inbox[p] = <<>> /\ write_buf[p] = <<>> /\ outbox[p] = <<>>
      BY <1>2, <2>1, <2>3, <3>1 DEF OnePlace, Waiting
    <3>3. inbox'[p] = <<asked'[p]>> /\ answer'[p] = <<>>
      BY <1>1, <1>2, <3>2 DEF SocketsOK
    <3> QED BY <1>2, <1>3, <2>3, <3>2, <3>3 DEF OnePlace
  <2> QED BY <2>2, <2>3
<1> QED BY <1>4, <1>5 DEF RequestsInPlace

LEMMA ReceivePreserves ==
    ASSUME ReplInv, NEW p \in Peers, Receive(p) \/ Close(p)
    PROVE  SocketsOK' /\ RequestsInPlace'
<1>1. SocketsOK /\ ServerOK
    BY TypeParts DEF ReplInv
<1>2. CASE Receive(p)
  <2>1. /\ Waiting(p) /\ outbox[p] # <<>>
        /\ answer' = [answer EXCEPT ![p] = outbox[p]]
        /\ outbox' = [outbox EXCEPT ![p] = <<>>]
        /\ UNCHANGED <<peer, asked, inbox, write_buf>>
    BY <1>2 DEF Receive, serverVars
  <2>2. SocketsOK'
    BY <1>1, <2>1 DEF SocketsOK
  <2>3. ASSUME NEW q \in Peers \ Pipelining PROVE OnePlace(q)'
    <3>1. OnePlace(q)
      BY DEF ReplInv, RequestsInPlace
    <3>2. CASE q # p
      BY <1>1, <2>1, <3>1, <3>2 DEF OnePlace, SocketsOK
    <3>3. CASE q = p
      <4>1. answer'[p] = outbox[p] /\ outbox'[p] = <<>>
        BY <1>1, <2>1 DEF SocketsOK
      <4> QED BY <2>1, <3>1, <3>3, <4>1 DEF OnePlace, Waiting
    <3> QED BY <3>2, <3>3
  <2> QED BY <2>2, <2>3 DEF RequestsInPlace
<1>3. CASE Close(p)
  <2>1. /\ \/ peer' = [peer EXCEPT ![p] = "closed"] \/ peer' = [peer EXCEPT ![p] = "reset"]
        /\ UNCHANGED <<asked, answer, inbox, outbox, write_buf>>
    BY <1>3 DEF Close, serverVars
  <2> QED BY <1>1, <2>1 DEF SocketsOK, ReplInv, RequestsInPlace, OnePlace
<1> QED BY <1>2, <1>3

LEMMA PeerStepPreserves ==
    ASSUME ReplInv, PeerStep
    PROVE  ReplInv'
<1>1. PICK p \in Peers : Connect(p) \/ Send(p) \/ Receive(p) \/ Close(p)
    BY DEF PeerStep
<1>2. CASE Connect(p)
    BY <1>2, ConnectPreserves
<1>3. CASE Send(p) \/ Receive(p) \/ Close(p)
  <2>1. ListsOK /\ SocketsOK /\ ServerOK
    BY TypeParts DEF ReplInv
  <2>2. /\ UNCHANGED <<backlog, pc, conn_list, rset, wset, conn, delete_list>>
        /\ \/ UNCHANGED peer
           \/ /\ peer[p] = "open"
              /\ \/ peer' = [peer EXCEPT ![p] = "closed"]
                 \/ peer' = [peer EXCEPT ![p] = "reset"]
    BY <1>3 DEF Send, Receive, Close, Open, serverVars
  <2>3. SocketsOK' /\ RequestsInPlace'
    BY <1>3, SendPreserves, ReceivePreserves
  <2>4. ServerOK' /\ BacklogKept'
    BY <2>1, <2>2 DEF ServerOK, ReplInv, BacklogKept
  <2>5. StrangersUnlisted'
    BY <2>1, <2>2 DEF ReplInv, StrangersUnlisted, SocketsOK
  <2>6. DeletedHasLeft'
    BY <2>1, <2>2 DEF ReplInv, DeletedHasLeft, SocketsOK, ServerOK
  <2> QED BY <2>1, <2>2, <2>3, <2>4, <2>5, <2>6, ListsKept, TypePartsNext DEF ReplInv
<1> QED BY <1>1, <1>2, <1>3

----------------------------------------------------------------------------
(* The server.                                                             *)

LEMMA SelectPreserves ==
    ASSUME ReplInv, Select \/ Served
    PROVE  ReplInv'
<1>1. ListsOK /\ SocketsOK /\ ServerOK
    BY TypeParts DEF ReplInv
<1>2. UNCHANGED <<peer, asked, answer, backlog, inbox, outbox, conn_list, conn,
                  delete_list, write_buf>>
    BY DEF Select, Served, peerVars
<1>3. ServerOK' /\ BacklogKept'
  <2>1. Connected \subseteq Peers
    BY <1>1 DEF ListsOK, Connected
  <2>2. CASE Select
    <3>1. /\ rset' = {p \in Connected : Readable(p)}
                     \cup (IF backlog # <<>> THEN {Listener} ELSE {})
          /\ wset' = {p \in Connected : Writable(p)} /\ pc' = "accept"
      BY <2>2 DEF Select
    <3>2. rset' \subseteq Peers \cup {Listener} /\ wset' \subseteq Peers
      BY <2>1, <3>1
    <3>3. Listener \in rset' => backlog # <<>>
      BY <2>1, <3>1, ReplAssumption
    <3> QED BY <1>1, <1>2, <3>1, <3>2, <3>3 DEF ServerOK, BacklogKept
  <2>3. CASE Served
    BY <1>1, <1>2, <2>3 DEF Served, ServerOK, BacklogKept
  <2> QED BY <2>2, <2>3
<1>4. SocketsOK'
    BY <1>1, <1>2 DEF SocketsOK
<1>5. RequestsInPlace'
    BY <1>2 DEF ReplInv, RequestsInPlace, OnePlace
<1>6. StrangersUnlisted' /\ DeletedHasLeft'
    BY <1>2 DEF ReplInv, StrangersUnlisted, DeletedHasLeft
<1> QED BY <1>1, <1>2, <1>3, <1>4, <1>5, <1>6, ListsKept, TypePartsNext DEF ReplInv

LEMMA AcceptPreserves ==
    ASSUME ReplInv, repl_server_accept_conn
    PROVE  ReplInv'
<1>1. ListsOK /\ SocketsOK /\ ServerOK
    BY TypeParts DEF ReplInv
<1>2. /\ pc = "accept" /\ pc' = "serve" /\ conn' = 1
      /\ \/ /\ Listener \in rset /\ conn_list' = <<Head(backlog)>> \o conn_list
            /\ backlog' = Tail(backlog)
         \/ UNCHANGED <<conn_list, backlog>>
      /\ UNCHANGED <<peer, asked, answer, inbox, outbox, rset, wset, delete_list, write_buf>>
    BY DEF repl_server_accept_conn, peerVars
<1>3. ListsOK' /\ Range(backlog') \cup Range(conn_list') =
                    Range(backlog) \cup Range(conn_list)
  <2>1. CASE UNCHANGED <<conn_list, backlog>>
    BY <1>1, <2>1, ListsKept
  <2>2. CASE /\ Listener \in rset /\ conn_list' = <<Head(backlog)>> \o conn_list
             /\ backlog' = Tail(backlog)
    <3>1. backlog \in Seq(Peers) /\ IsInjective(backlog) /\ backlog # <<>>
      BY <1>1, <1>2, <2>2 DEF ListsOK, ReplInv, BacklogKept
    <3>2. /\ Head(backlog) \in Peers /\ Tail(backlog) \in Seq(Peers)
          /\ IsInjective(Tail(backlog)) /\ Head(backlog) \in Range(backlog)
          /\ Range(Tail(backlog)) = Range(backlog) \ {Head(backlog)}
      BY <3>1, FirstOff
    <3> DEFINE h == Head(backlog)
    <3> HIDE DEF h
    <3>3. h \in Peers /\ conn_list \in Seq(Peers) /\ IsInjective(conn_list)
          /\ h \notin Range(conn_list)
      BY <1>1, <3>2 DEF ListsOK, h
    <3>4. /\ <<h>> \o conn_list \in Seq(Peers) /\ IsInjective(<<h>> \o conn_list)
          /\ Range(<<h>> \o conn_list) = Range(conn_list) \cup {h}
      BY <3>3, OneMoreFirst
    <3>5. backlog' = Tail(backlog) /\ conn_list' = <<h>> \o conn_list
      BY <2>2 DEF h
    <3>6. Range(backlog) \cap Range(conn_list) = {}
      BY <1>1 DEF ListsOK
    <3>7. Range(backlog') \cap Range(conn_list') = {}
      BY <3>2, <3>4, <3>5, <3>6 DEF h
    <3>8. Range(backlog') \cup Range(conn_list') = Range(backlog) \cup Range(conn_list)
      BY <3>2, <3>4, <3>5 DEF h
    <3> QED BY <3>2, <3>4, <3>5, <3>7, <3>8 DEF ListsOK
  <2> QED BY <1>2, <2>1, <2>2
<1>4. SocketsOK'
    BY <1>1, <1>2 DEF SocketsOK
<1>5. ServerOK' /\ BacklogKept'
    BY <1>1, <1>2 DEF ServerOK, BacklogKept
<1>6. RequestsInPlace'
    BY <1>2 DEF ReplInv, RequestsInPlace, OnePlace
<1>7. StrangersUnlisted'
    BY <1>1, <1>2, <1>3, StrangersKept DEF ReplInv
<1>8. DeletedHasLeft'
    BY <1>2 DEF ReplInv, DeletedHasLeft
<1> QED BY <1>3, <1>4, <1>5, <1>6, <1>7, <1>8, TypePartsNext DEF ReplInv

LEMMA SkipPreserves ==
    ASSUME ReplInv, NEW p \in Peers, Skip(p)
    PROVE  ReplInv'
<1>1. ListsOK /\ SocketsOK /\ ServerOK
    BY TypeParts DEF ReplInv
<1>2. /\ UNCHANGED peer \/ (peer[p] = "reset" /\ peer' = [peer EXCEPT ![p] = "closed"])
      /\ conn' = conn + 1
      /\ UNCHANGED <<asked, answer, backlog, inbox, outbox, pc, conn_list, rset, wset,
                     delete_list, write_buf>>
    BY DEF Skip
<1>3. SocketsOK' /\ ServerOK' /\ BacklogKept'
  <2>1. SocketsOK'
    BY <1>1, <1>2 DEF SocketsOK
  <2>2. ServerOK'
    BY <1>1, <1>2 DEF ServerOK
  <2>3. BacklogKept'
    BY <1>2 DEF ReplInv, BacklogKept
  <2> QED BY <2>1, <2>2, <2>3
<1>4. RequestsInPlace'
    BY <1>2 DEF ReplInv, RequestsInPlace, OnePlace
<1>5. StrangersUnlisted'
    BY <1>1, <1>2 DEF ReplInv, StrangersUnlisted, SocketsOK
<1>6. DeletedHasLeft'
    BY <1>1, <1>2 DEF ReplInv, DeletedHasLeft, SocketsOK, ServerOK
<1> QED BY <1>1, <1>2, <1>3, <1>4, <1>5, <1>6, ListsKept, TypePartsNext DEF ReplInv

\* The one request of a peer moves on: from the inbox to the socket, or to the
\* write buffer.
LEMMA EvaluatePreserves ==
    ASSUME ReplInv, NEW p \in Peers, Evaluate(p)
    PROVE  ReplInv'
<1>1. ListsOK /\ SocketsOK /\ ServerOK
    BY TypeParts DEF ReplInv
<1> DEFINE reply == Append(write_buf[p], Last(inbox[p]))
<1>2. /\ inbox[p] # <<>> /\ inbox' = [inbox EXCEPT ![p] = <<>>]
      /\ \/ write_buf' = [write_buf EXCEPT ![p] = reply] /\ UNCHANGED outbox
         \/ /\ outbox' = [outbox EXCEPT ![p] = @ \o reply]
            /\ write_buf' = [write_buf EXCEPT ![p] = <<>>]
         \/ pc' = "killed" /\ UNCHANGED <<outbox, write_buf>>
      /\ UNCHANGED <<peer, asked, answer, backlog, conn_list, rset, wset, delete_list>>
      /\ conn' \in {conn, conn + 1} /\ pc' \in {pc, "killed"}
    BY DEF Evaluate, peerVars
<1>3. reply \in Seq(Requests) /\ outbox[p] \o reply \in Seq(Requests)
  <2>1. inbox[p] \in Seq(Requests) /\ write_buf[p] \in Seq(Requests)
        /\ outbox[p] \in Seq(Requests)
    BY <1>1 DEF SocketsOK
  <2>2. Last(inbox[p]) \in Requests
    BY <1>2, <2>1 DEF Last
  <2> QED BY <2>1, <2>2
<1> HIDE DEF reply
<1>4. SocketsOK'
  <2>1. <<>> \in Seq(Requests)
    OBVIOUS
  <2>2. write_buf' \in [Peers -> Seq(Requests)] /\ inbox' \in [Peers -> Seq(Requests)]
    BY <1>1, <1>2, <1>3, <2>1 DEF SocketsOK
  <2>3. outbox' \in [Peers -> Seq(Requests)]
    BY <1>1, <1>2, <1>3 DEF SocketsOK
  <2> QED BY <1>1, <1>2, <2>2, <2>3 DEF SocketsOK
<1>5. ServerOK' /\ BacklogKept'
    BY <1>1, <1>2 DEF ServerOK, ReplInv, BacklogKept
<1>6. ASSUME NEW q \in Peers \ Pipelining PROVE OnePlace(q)'
  <2>1. OnePlace(q)
    BY DEF ReplInv, RequestsInPlace
  <2>2. CASE q # p
    <3>1. UNCHANGED <<inbox[q], write_buf[q], outbox[q], asked[q], answer[q]>>
      BY <1>1, <1>2, <2>2 DEF SocketsOK
    <3> QED BY <2>1, <3>1 DEF OnePlace
  <2>3. CASE q = p
    <3>1. /\ asked[p] > 0 /\ answer[p] = <<>> /\ inbox[p] = <<asked[p]>>
          /\ write_buf[p] = <<>> /\ outbox[p] = <<>>
      BY <1>2, <2>1, <2>3 DEF OnePlace
    <3>2. reply = <<asked[p]>>
      BY <3>1 DEF reply, Last
    <3>3. inbox'[p] = <<>> /\ UNCHANGED <<asked[p], answer[p]>>
      BY <1>1, <1>2 DEF SocketsOK
    <3>4. \/ write_buf'[p] = reply /\ outbox'[p] = outbox[p]
          \/ write_buf'[p] = <<>> /\ outbox'[p] = outbox[p] \o reply
          \/ write_buf'[p] = write_buf[p] /\ outbox'[p] = outbox[p]
      BY <1>1, <1>2 DEF SocketsOK
    <3>5. <<>> \o <<asked[p]>> = <<asked[p]>>
      OBVIOUS
    <3> QED BY <2>3, <3>1, <3>2, <3>3, <3>4, <3>5 DEF OnePlace
  <2> QED BY <2>2, <2>3
<1>7. RequestsInPlace'
    BY <1>6 DEF RequestsInPlace
<1>8. StrangersUnlisted' /\ DeletedHasLeft'
    BY <1>2 DEF ReplInv, StrangersUnlisted, DeletedHasLeft
<1> QED BY <1>1, <1>2, <1>4, <1>5, <1>7, <1>8, ListsKept, TypePartsNext DEF ReplInv

\* The list is cut off behind the connection at its end of file.
LEMMA EndOfFilePreserves ==
    ASSUME ReplInv, NEW p \in Peers, EndOfFile(p)
    PROVE  ReplInv'
<1>1. ListsOK /\ SocketsOK /\ ServerOK
    BY TypeParts DEF ReplInv
<1>2. /\ pc = "serve" /\ conn \in DOMAIN conn_list /\ peer[p] = "closed"
      /\ delete_list' = p /\ conn_list' = SubSeq(conn_list, 1, conn) /\ conn' = conn + 1
      /\ UNCHANGED <<peer, asked, answer, backlog, inbox, outbox, pc, rset, wset, write_buf>>
    BY DEF EndOfFile, Serving, peerVars
<1>3. /\ conn_list' \in Seq(Peers) /\ IsInjective(conn_list')
      /\ Range(conn_list') \subseteq Range(conn_list)
    BY <1>1, <1>2, Prefix DEF ListsOK
<1>4. ListsOK'
    BY <1>1, <1>2, <1>3 DEF ListsOK
<1>5. SocketsOK'
    BY <1>1, <1>2 DEF SocketsOK
<1>6. ServerOK' /\ BacklogKept'
    BY <1>1, <1>2 DEF ServerOK, BacklogKept
<1>7. RequestsInPlace'
    BY <1>2 DEF ReplInv, RequestsInPlace, OnePlace
<1>8. StrangersUnlisted' /\ DeletedHasLeft'
    BY <1>2, <1>3 DEF ReplInv, StrangersUnlisted, DeletedHasLeft
<1> QED BY <1>4, <1>5, <1>6, <1>7, <1>8, TypePartsNext DEF ReplInv

LEMMA ReapPreserves ==
    ASSUME ReplInv, Reap
    PROVE  ReplInv'
<1>1. ListsOK /\ SocketsOK /\ ServerOK
    BY TypeParts DEF ReplInv
<1>2. /\ pc' \in {"select", "assert_failed"} /\ delete_list' = NoConn
      /\ rset' = {} /\ wset' = {}
      /\ \/ UNCHANGED conn_list
         \/ \E i \in DOMAIN conn_list : conn_list' = RemoveAt(conn_list, i)
      /\ UNCHANGED <<peer, asked, answer, backlog, inbox, outbox, conn, write_buf>>
    BY DEF Reap, peerVars
<1>3. /\ conn_list' \in Seq(Peers) /\ IsInjective(conn_list')
      /\ Range(conn_list') \subseteq Range(conn_list)
  <2>1. CASE UNCHANGED conn_list
    BY <1>1, <2>1 DEF ListsOK
  <2>2. ASSUME NEW i \in DOMAIN conn_list, conn_list' = RemoveAt(conn_list, i)
        PROVE  /\ conn_list' \in Seq(Peers) /\ IsInjective(conn_list')
               /\ Range(conn_list') \subseteq Range(conn_list)
    BY <1>1, <2>2, OneLess DEF ListsOK
  <2> QED BY <1>2, <2>1, <2>2
<1>4. ListsOK'
    BY <1>1, <1>2, <1>3 DEF ListsOK
<1>5. SocketsOK'
    BY <1>1, <1>2 DEF SocketsOK
<1>6. ServerOK' /\ BacklogKept'
    BY <1>1, <1>2 DEF ServerOK, BacklogKept
<1>7. RequestsInPlace'
    BY <1>2 DEF ReplInv, RequestsInPlace, OnePlace
<1>8. StrangersUnlisted' /\ DeletedHasLeft'
    BY <1>2, <1>3 DEF ReplInv, StrangersUnlisted, DeletedHasLeft
<1> QED BY <1>4, <1>5, <1>6, <1>7, <1>8, TypePartsNext DEF ReplInv

LEMMA ReplStep == ReplInv /\ [Next]_vars => ReplInv'
<1> SUFFICES ASSUME ReplInv, [Next]_vars PROVE ReplInv'
    OBVIOUS
<1>1. CASE PeerStep
    BY <1>1, PeerStepPreserves
<1>2. CASE Select \/ Served
    BY <1>2, SelectPreserves
<1>3. CASE repl_server_accept_conn
    BY <1>3, AcceptPreserves
<1>4. CASE Serve
    BY <1>4, SkipPreserves, EvaluatePreserves, EndOfFilePreserves DEF Serve
<1>5. CASE Reap
    BY <1>5, ReapPreserves
<1>6. CASE UNCHANGED vars
  <2>1. UNCHANGED <<peer, asked, answer, backlog, inbox, outbox, pc, conn_list, rset, wset,
                    conn, delete_list, write_buf>>
    BY <1>6 DEF vars, peerVars, serverVars
  <2>2. ListsOK /\ SocketsOK /\ ServerOK
    BY TypeParts DEF ReplInv
  <2>3. SocketsOK' /\ ServerOK'
    BY <2>1, <2>2 DEF SocketsOK, ServerOK
  <2>4. RequestsInPlace'
    BY <2>1 DEF ReplInv, RequestsInPlace, OnePlace
  <2>5. StrangersUnlisted' /\ BacklogKept' /\ DeletedHasLeft'
    BY <2>1 DEF ReplInv, StrangersUnlisted, BacklogKept, DeletedHasLeft
  <2> QED BY <2>1, <2>2, <2>3, <2>4, <2>5, ListsKept, TypePartsNext DEF ReplInv
<1> QED BY <1>1, <1>2, <1>3, <1>4, <1>5, <1>6 DEF Next, ServerStep, Dead

----------------------------------------------------------------------------
(* Theorems.                                                               *)

\* The inductive invariant: types, where the request of a waiting peer is, and
\* what the lists and delete_list can hold between the system calls of
\* repl_server_step.
THEOREM ReplInvariant == Spec => []ReplInv
BY ReplInitial, ReplStep, PTL DEF Spec

\* The server's and the peers' state keeps its types: no connection is in two
\* lists or twice in one (repl_server_accept_conn, the loops of
\* repl_server_step).
THEOREM ReplTypeCorrect == Spec => []TypeOK
<1>1. ReplInv => TypeOK
    BY DEF ReplInv
<1> QED BY <1>1, ReplInvariant, PTL

\* What nwm-repl reads after a line is the answer to that line and nothing else
\* (repl_conn_eval_lisp, main of nwm-repl.c).
THEOREM AnswersMatch == Spec => []AnswerMatchesRequest
<1>1. ReplInv => AnswerMatchesRequest
    BY DEF ReplInv, RequestsInPlace, OnePlace, AnswerMatchesRequest
<1> QED BY <1>1, ReplInvariant, PTL

\* What can make a connection leave conn_list.
LEMMA WhoLeaves ==
    ASSUME ReplInv, [Next]_vars, NEW i \in DOMAIN conn_list,
           conn_list[i] \notin Connected', Open(conn_list[i])
    PROVE  \E j \in 1..(i - 1) :
               peer[conn_list[j]] = "closed" /\ delete_list' = conn_list[j]
<1>1. ListsOK /\ SocketsOK /\ ServerOK
    BY TypeParts DEF ReplInv
<1>2. Connected' = Range(conn_list') /\ conn_list[i] \in Range(conn_list)
    BY DEF Connected, Range
<1>3. CASE UNCHANGED conn_list
    BY <1>2, <1>3
<1>4. CASE repl_server_accept_conn
  <2>1. CASE UNCHANGED conn_list
    BY <1>3, <2>1
  <2>2. CASE Listener \in rset /\ conn_list' = <<Head(backlog)>> \o conn_list
    <3>1. conn_list \in Seq(Peers) /\ backlog \in Seq(Peers) /\ backlog # <<>>
      BY <1>1, <1>4, <2>2 DEF ListsOK, ReplInv, BacklogKept, repl_server_accept_conn
    <3>2. i + 1 \in DOMAIN conn_list' /\ conn_list'[i + 1] = conn_list[i]
      BY <2>2, <3>1
    <3> QED BY <1>2, <3>2 DEF Range
  <2> QED BY <1>4, <2>1, <2>2 DEF repl_server_accept_conn
<1>5. ASSUME NEW p \in Peers, EndOfFile(p)
      PROVE  \E j \in 1..(i - 1) :
                 peer[conn_list[j]] = "closed" /\ delete_list' = conn_list[j]
  <2>1. /\ conn \in DOMAIN conn_list /\ p = conn_list[conn] /\ peer[p] = "closed"
        /\ delete_list' = p /\ conn_list' = SubSeq(conn_list, 1, conn)
    BY <1>5 DEF EndOfFile, Serving
  <2>2. \A k \in 1..conn : conn_list[k] \in Range(conn_list')
    BY <1>1, <2>1, Prefix DEF ListsOK
  <2>3. i \in Nat \ {0} /\ conn \in Nat \ {0} /\ i \notin 1..conn
    BY <1>1, <1>2, <2>2 DEF ListsOK, ServerOK
  <2> QED BY <2>1, <2>3
<1>6. CASE Reap
  <2>1. CASE UNCHANGED conn_list
    BY <1>3, <2>1
  <2>2. ASSUME delete_list # NoConn, NEW k \in DOMAIN conn_list,
               conn_list[k] = delete_list, conn_list' = RemoveAt(conn_list, k)
        PROVE  FALSE
    <3>1. Range(conn_list') = Range(conn_list) \ {delete_list}
      BY <1>1, <2>2, OneLess DEF ListsOK
    <3>2. conn_list[i] = delete_list
      BY <1>2, <3>1
    <3> QED BY <2>2, <3>2 DEF ReplInv, DeletedHasLeft, Open
  <2> QED BY <1>6, <2>1, <2>2 DEF Reap
<1> QED BY <1>3, <1>4, <1>5, <1>6 DEF Next, vars, serverVars, PeerStep, Connect, Send,
           Receive, Close, ServerStep, Select, Serve, Skip, Evaluate, Served, Dead

\* The end of a connection costs no newer one: only those behind it in
\* conn_list fall off, and Reap removes only one whose peer has left
\* (sglib_repl_conn_t_add on delete_list).
THEOREM NewerKept == Spec => NewerConnectionsKept
<1>1. ASSUME ReplInv, [Next]_vars
      PROVE  [\A i \in DOMAIN conn_list :
                 conn_list[i] \notin Connected' /\ Open(conn_list[i]) =>
                     \E j \in 1..(i - 1) :
                         peer[conn_list[j]] = "closed" /\ delete_list' = conn_list[j]]_vars
    BY <1>1, WhoLeaves
<1> QED BY <1>1, ReplInvariant, PTL DEF Spec, NewerConnectionsKept
=============================================================================
