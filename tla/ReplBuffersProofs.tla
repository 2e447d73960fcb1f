--------------------------- MODULE ReplBuffersProofs ---------------------------
(***************************************************************************)
(* Proofs about ReplBuffers: for every buffer size, any number of sessions *)
(* and whatever expressions print, no buffer is written past its end and   *)
(* no evaluation writes into the session of another, unless its own port   *)
(* was collected.                                                          *)
(*                                                                         *)
(* Both are inductive with the types: bytes enter a buffer only through    *)
(* io_buffer_write, which compares with the room left; and what an         *)
(* evaluation writes carries the name of the connection that is served,    *)
(* whose port is the current output port unless it is lost for good.       *)
(* And when every line fits a buffer, nwm-repl shows the whole answer to   *)
(* its line: one line of a session is on its way at a time, between two    *)
(* evaluations a buffer holds only strays, and during one the answer       *)
(* grows behind them.                                                      *)
(***************************************************************************)
EXTENDS ReplBuffers, FiniteSetTheorems, TLAPS

\* The sessions whose port was collected: it never comes back.
Lost == {p \in Peers : port[p] # p}

\* The bytes of p, of a session in L, or of nobody's evaluation.
Own(s, p, L) == \A b \in Range(s) : b = NUL \/ b[2] = 0 \/ b[1] = p \/ b[1] \in L

\* A connection is on the list once, and never again once it was freed.
ListInv ==
    /\ \A j, k \in DOMAIN conn_list : conn_list[j] = conn_list[k] => j = k
    /\ \A p \in Peers : p \in Connections => phase[p] # "off" /\ p \notin freed
    /\ \A p \in freed : phase[p] # "off"

\* What is printed during an evaluation goes to its connection, if not astray.
PortInv ==
    /\ \A p \in Peers : phase[p] = "off" => port[p] = p
    /\ stage # "select" => conn \in Connections
    /\ stage = "eval" => output_port = conn \/ conn \in Lost

BuffersInv == BuffersTypeOK /\ InBounds /\ NoCrossTalk /\ ListInv /\ PortInv

----------------------------------------------------------------------------
(* Sequences.                                                              *)

\* A non-empty set of natural numbers has a least element: of the intervals
\* that end in it, one has none of the others as a proper subset.
LEMMA LeastElement ==
    ASSUME NEW S \in SUBSET Nat, S # {}
    PROVE  \E n \in S : \A m \in S : n <= m
<1> DEFINE Below == {0..n : n \in S}
<1>1. ASSUME NEW n \in S PROVE 0..n \in FiniteSubsetsOf(Nat)
  <2>1. n \in Int /\ 0..n \subseteq Nat
    OBVIOUS
  <2> QED BY <2>1, FS_Interval DEF FiniteSubsetsOf
<1>2. Below \subseteq FiniteSubsetsOf(Nat) /\ Below # {}
    BY <1>1
<1>3. PICK B \in Below : \A C \in Below : <<C, B>> \notin StrictSubsetOrdering(Nat)
  <2>1. IsWellFoundedOn(StrictSubsetOrdering(Nat), FiniteSubsetsOf(Nat))
    BY FS_StrictSubsetOrderingWellFounded
  <2> HIDE DEF Below
  <2> QED BY <1>2, <2>1, WFMin
<1>4. PICK n \in S : B = 0..n
    BY <1>3
<1>5. ASSUME NEW m \in S PROVE n <= m
  <2>1. ~(0..m \subseteq 0..n /\ 0..m # 0..n)
    <3>1. 0..m \in Below
      OBVIOUS
    <3>2. <<0..m, 0..n>> \notin StrictSubsetOrdering(Nat)
      BY <1>3, <1>4, <3>1
    <3>3. 0..m \subseteq Nat /\ 0..n \subseteq Nat
      OBVIOUS
    <3> QED BY <3>2, <3>3, Zenon DEF StrictSubsetOrdering
  <2>2. n \in Nat /\ m \in Nat
    OBVIOUS
  <2> QED BY <2>1, <2>2
<1> QED BY <1>5

LEMMA SubSeqType ==
    ASSUME NEW S, NEW s \in Seq(S), NEW m \in Nat \ {0}, NEW n \in 0..Len(s)
    PROVE  /\ SubSeq(s, m, n) \in Seq(S)
           /\ Range(SubSeq(s, m, n)) \subseteq Range(s)
<1>1. /\ SubSeq(s, m, n) \in Seq(S)
      /\ Len(SubSeq(s, m, n)) = IF m <= n THEN n - m + 1 ELSE 0
      /\ \A k \in 1..Len(SubSeq(s, m, n)) : SubSeq(s, m, n)[k] = s[k + m - 1]
    OBVIOUS
<1>2. ASSUME NEW k \in DOMAIN SubSeq(s, m, n) PROVE SubSeq(s, m, n)[k] \in Range(s)
  <2>1. k \in 1..Len(SubSeq(s, m, n)) /\ k + m - 1 \in DOMAIN s
    BY <1>1
  <2> QED BY <1>1, <2>1 DEF Range
<1> QED BY <1>1, <1>2 DEF Range

LEMMA FrontElements ==
    ASSUME NEW S, NEW s \in Seq(S), NEW n \in 0..Len(s)
    PROVE  /\ Len(SubSeq(s, 1, n)) = n /\ DOMAIN SubSeq(s, 1, n) = 1..n
           /\ \A k \in 1..n : SubSeq(s, 1, n)[k] = s[k]
<1>1. SubSeq(s, 1, n) \in Seq(S) /\ Len(SubSeq(s, 1, n)) = n
  OBVIOUS
<1>2. \A k \in 1..n : SubSeq(s, 1, n)[k] = s[k]
  OBVIOUS
<1> QED BY <1>1, <1>2

LEMMA SeqElement ==
    ASSUME NEW S, NEW s \in Seq(S), NEW n \in 1..Len(s)
    PROVE  s[n] \in S
OBVIOUS

LEMMA ConcatRange ==
    ASSUME NEW S, NEW s \in Seq(S), NEW t \in Seq(S)
    PROVE  /\ s \o t \in Seq(S) /\ Len(s \o t) = Len(s) + Len(t)
           /\ Range(s \o t) \subseteq Range(s) \cup Range(t)
<1>1. /\ s \o t \in Seq(S) /\ Len(s \o t) = Len(s) + Len(t)
      /\ \A k \in DOMAIN (s \o t) :
            \/ k \in DOMAIN s /\ (s \o t)[k] = s[k]
            \/ k - Len(s) \in DOMAIN t /\ (s \o t)[k] = t[k - Len(s)]
    OBVIOUS
<1> QED BY <1>1 DEF Range

LEMMA UpToNulType ==
    ASSUME NEW s \in Seq(Bytes)
    PROVE  UpToNul(s) \in Seq(Bytes)
<1>1. CASE NUL \in Range(s)
  <2> DEFINE nuls == {k \in DOMAIN s : s[k] = NUL}
  <2>1. nuls \subseteq Nat /\ nuls # {}
    BY <1>1 DEF Range
  <2>2. PICK k \in nuls : \A j \in nuls : k <= j
    BY <2>1, LeastElement
  <2>3. k \in DOMAIN s /\ s[k] = NUL /\ \A j \in 1..(k - 1) : s[j] # NUL
    BY <2>2
  <2> DEFINE first == CHOOSE l \in DOMAIN s : s[l] = NUL /\ \A j \in 1..(l - 1) : s[j] # NUL
  <2>4. first \in DOMAIN s
    BY <2>3
  <2>5. first - 1 \in 0..Len(s)
    BY <2>4
  <2>6. UpToNul(s) = SubSeq(s, 1, first - 1)
    BY <1>1 DEF UpToNul
  <2> HIDE DEF first
  <2> QED BY <2>5, <2>6, SubSeqType
<1>2. CASE NUL \notin Range(s)
    BY <1>2 DEF UpToNul
<1> QED BY <1>1, <1>2

----------------------------------------------------------------------------
(* The buffers.                                                            *)

LEMMA TextFacts ==
    ASSUME NEW p \in Peers, NEW l \in 0..MaxLines, NEW size \in Nat, NEW L
    PROVE  /\ Text(p, l, size) \in Seq(Bytes)
           /\ Own(Text(p, l, size), p, L)
           /\ \A q \in Peers : l = 0 \/ p \in L => Own(Text(p, l, size), q, L)
<1>1. /\ Text(p, l, size) \in Seq(Bytes)
      /\ \A b \in Range(Text(p, l, size)) : b = <<p, l>>
    BY DEF Text, Bytes, Range
<1> QED BY <1>1 DEF Own

LEMMA NulFacts ==
    ASSUME NEW p \in Peers, NEW L
    PROVE  <<NUL>> \in Seq(Bytes) /\ Own(<<NUL>>, p, L)
BY DEF Bytes, Own, Range

LEMMA JoinOwn ==
    ASSUME NEW s \in Seq(Bytes), NEW t \in Seq(Bytes), NEW p \in Peers, NEW L,
           Own(s, p, L), Own(t, p, L)
    PROVE  s \o t \in Seq(Bytes) /\ Own(s \o t, p, L)
BY ConcatRange DEF Own

LEMMA NothingOwned == \A p, L : Own(<<>>, p, L)
BY DEF Own, Range

\* io_buffer_write keeps within the buffer.
LEMMA WriteFacts ==
    ASSUME NEW buf \in Seq(Bytes), NEW bytes \in Seq(Bytes), NEW p \in Peers, NEW L,
           Own(buf, p, L), Own(bytes, p, L), Len(buf) <= BUFSIZE
    PROVE  /\ io_buffer_write(buf, bytes) \in Seq(Bytes)
           /\ Own(io_buffer_write(buf, bytes), p, L)
           /\ Len(io_buffer_write(buf, bytes)) <= BUFSIZE
<1>1. CASE Len(buf) + Len(bytes) <= BUFSIZE
    BY <1>1, JoinOwn, ConcatRange DEF io_buffer_write
<1>2. CASE ~(Len(buf) + Len(bytes) <= BUFSIZE)
    BY <1>2 DEF io_buffer_write
<1> QED BY <1>1, <1>2

----------------------------------------------------------------------------
LEMMA BuffersInitial == BuffersInit => BuffersInv
<1> SUFFICES ASSUME BuffersInit PROVE BuffersInv
    OBVIOUS
<1>1. BuffersTypeOK
    BY ReplBuffersAssumption DEF BuffersInit, BuffersTypeOK
<1>2. InBounds
    BY ReplBuffersAssumption DEF BuffersInit, InBounds
<1>3. NoCrossTalk
    BY DEF BuffersInit, NoCrossTalk, Range
<1>4. ListInv /\ PortInv
    BY DEF BuffersInit, ListInv, PortInv, Connections
<1> QED BY <1>1, <1>2, <1>3, <1>4 DEF BuffersInv

\* What is known of a session, and what a step has to keep about it.
LEMMA SessionFacts ==
    ASSUME BuffersInv, NEW p \in Peers
    PROVE  /\ write_buf[p] \in Seq(Bytes) /\ Own(write_buf[p], p, Lost)
           /\ Len(write_buf[p]) <= BUFSIZE
           /\ outbox[p] \in Seq(Bytes) /\ Own(outbox[p], p, Lost)
<1>1. write_buf[p] \in Seq(Bytes) /\ outbox[p] \in Seq(Bytes) /\ Len(write_buf[p]) <= BUFSIZE
    BY DEF BuffersInv, BuffersTypeOK, InBounds
<1>2. ASSUME NEW b \in Range(write_buf[p]) \cup Range(outbox[p])
      PROVE  b = NUL \/ b[2] = 0 \/ b[1] = p \/ b[1] \in Lost
  <2>1. b = NUL \/ b[2] = 0 \/ b[1] = p \/ port[b[1]] # b[1]
    BY DEF BuffersInv, NoCrossTalk
  <2>2. b \in Bytes
    BY <1>1 DEF Range
  <2> QED BY <2>1, <2>2 DEF Bytes, Lost
<1> QED BY <1>1, <1>2 DEF Own

LEMMA SessionsKept ==
    ASSUME BuffersTypeOK', ListInv', PortInv', Lost \subseteq Lost',
           \A p \in Peers : /\ Own(write_buf'[p], p, Lost) /\ Len(write_buf'[p]) <= BUFSIZE
                            /\ Own(outbox'[p], p, Lost)
    PROVE  BuffersInv'
<1>1. NoCrossTalk'
  <2> SUFFICES ASSUME NEW p \in Peers, NEW b \in Range(write_buf'[p]) \cup Range(outbox'[p])
               PROVE  b = NUL \/ b[2] = 0 \/ b[1] = p \/ port'[b[1]] # b[1]
      BY DEF NoCrossTalk
  <2>1. b = NUL \/ b[2] = 0 \/ b[1] = p \/ b[1] \in Lost
      BY DEF Own
  <2> QED BY <2>1 DEF Lost
<1>2. InBounds'
    BY DEF InBounds
<1> QED BY <1>1, <1>2 DEF BuffersInv

\* Steps that do not touch the lists and the ports.
LEMMA PortsAlone ==
    ASSUME BuffersInv, UNCHANGED <<conn_list, freed, port, output_port>>,
           \A p \in Peers : phase'[p] = "off" <=> phase[p] = "off",
           \/ UNCHANGED <<conn, stage>>
           \/ stage' = "select"
           \/ conn' = conn /\ stage # "select" /\ stage' # "eval"
    PROVE  ListInv' /\ PortInv' /\ Lost' = Lost
<1>1. Connections' = Connections /\ Lost' = Lost
    BY DEF Connections, Lost
<1>2. freed \subseteq Peers
    BY DEF BuffersInv, BuffersTypeOK
<1>3. ListInv'
    BY <1>1, <1>2 DEF BuffersInv, ListInv
<1>4. PortInv'
    BY <1>1 DEF BuffersInv, PortInv
<1> QED BY <1>1, <1>3, <1>4

\* Steps that leave the sessions' bytes alone.
LEMMA BytesAlone ==
    ASSUME BuffersInv, UNCHANGED <<write_buf, outbox>>,
           BuffersTypeOK', ListInv', PortInv', Lost \subseteq Lost'
    PROVE  BuffersInv'
BY SessionFacts, SessionsKept

LEMMA PhasesOf ==
    ASSUME BuffersInv, NEW p \in Peers, NEW from \in {"prompt", "reading"},
           NEW to \in {"prompt", "reading", "left"},
           phase[p] = from, phase' = [phase EXCEPT ![p] = to]
    PROVE  \A q \in Peers : phase'[q] = "off" <=> phase[q] = "off"
BY DEF BuffersInv, BuffersTypeOK

LEMMA ConnectPreserves ==
    ASSUME BuffersInv, NEW p \in Peers, Connect(p)
    PROVE  BuffersInv'
<1>1. /\ phase[p] = "off" /\ stage = "select"
      /\ phase' = [phase EXCEPT ![p] = "prompt"]
      /\ conn_list' = <<p>> \o conn_list
      /\ write_buf' = [write_buf EXCEPT ![p] = <<>>]
      /\ UNCHANGED <<freed, inbox, outbox, output_port, conn, line, stage, asked,
                     printed, due, status>>
    BY DEF Connect, turnVars
<1>2. PICK reused \in SUBSET {q \in Peers : port[q] = None} :
          port' = [q \in Peers |-> IF q \in reused THEN p ELSE port[q]]
    BY DEF Connect
<1>3. conn_list \in Seq(Peers) /\ <<p>> \o conn_list \in Seq(Peers)
    BY DEF BuffersInv, BuffersTypeOK
<1>4. BuffersTypeOK'
    BY <1>1, <1>2, <1>3 DEF BuffersInv, BuffersTypeOK
<1>5. port[p] = p
    BY <1>1 DEF BuffersInv, PortInv
<1>6. Lost \subseteq Lost' /\ \A q \in Peers : port[q] = q => port'[q] = q
    BY <1>2, <1>5, ReplBuffersAssumption DEF Lost
<1>7. Connections' = Connections \cup {p} /\ p \notin Connections
  <2>1. Connections' = Connections \cup {p}
    <3>1. /\ Len(conn_list') = Len(conn_list) + 1 /\ conn_list'[1] = p
          /\ \A k \in 1..Len(conn_list) : conn_list'[k + 1] = conn_list[k]
          /\ \A k \in 2..Len(conn_list') : k - 1 \in 1..Len(conn_list)
                                        /\ conn_list'[k] = conn_list[k - 1]
      BY <1>1, <1>3
    <3>2. DOMAIN conn_list = 1..Len(conn_list) /\ DOMAIN conn_list' = 1..Len(conn_list')
          /\ Len(conn_list) \in Nat
      BY <1>1, <1>3
    <3>3. ASSUME NEW q \in Connections' PROVE q \in Connections \cup {p}
      <4>1. PICK k \in 1..Len(conn_list') : q = conn_list'[k]
        BY <3>2 DEF Connections
      <4>2. CASE k = 1
        BY <3>1, <4>1, <4>2
      <4>3. CASE k # 1
        <5>1. k \in 2..Len(conn_list')
          BY <3>1, <3>2, <4>1, <4>3
        <5> QED BY <3>1, <3>2, <4>1, <5>1 DEF Connections
      <4> QED BY <4>2, <4>3
    <3>4. ASSUME NEW q \in Connections PROVE q \in Connections'
      <4>1. PICK k \in 1..Len(conn_list) : q = conn_list[k]
        BY <3>2 DEF Connections
      <4>2. k + 1 \in 1..Len(conn_list') /\ conn_list'[k + 1] = q
        BY <3>1, <3>2, <4>1
      <4> QED BY <3>2, <4>2 DEF Connections
    <3>5. p \in Connections'
      <4>1. 1 \in DOMAIN conn_list'
        BY <3>1, <3>2
      <4> QED BY <3>1, <4>1 DEF Connections
    <3> QED BY <3>3, <3>4, <3>5
  <2> QED BY <1>1, <2>1 DEF BuffersInv, ListInv
<1>8. ListInv'
  <2>1. \A j, k \in DOMAIN conn_list' : conn_list'[j] = conn_list'[k] => j = k
    <3> SUFFICES ASSUME NEW j \in DOMAIN conn_list', NEW k \in DOMAIN conn_list',
                        conn_list'[j] = conn_list'[k]
                 PROVE  j = k
        OBVIOUS
    <3>1. /\ DOMAIN conn_list' = 1..(Len(conn_list) + 1) /\ conn_list'[1] = p
          /\ \A i \in 2..(Len(conn_list) + 1) : conn_list'[i] = conn_list[i - 1]
                                             /\ i - 1 \in DOMAIN conn_list
      BY <1>1, <1>3
    <3>2. \A i \in 2..(Len(conn_list) + 1) : conn_list'[i] # p
      BY <1>7, <3>1 DEF Connections
    <3>3. Len(conn_list) \in Nat /\ \A m, n \in DOMAIN conn_list : conn_list[m] = conn_list[n] => m = n
      BY <1>3 DEF BuffersInv, ListInv
    <3>4. CASE j = 1
      BY <3>1, <3>2, <3>3, <3>4
    <3>5. CASE k = 1
      BY <3>1, <3>2, <3>3, <3>5
    <3>6. CASE j # 1 /\ k # 1
      <4>1. j \in 2..(Len(conn_list) + 1) /\ k \in 2..(Len(conn_list) + 1)
        BY <3>1, <3>3, <3>6
      <4>2. j - 1 = k - 1
        BY <3>1, <3>3, <4>1
      <4> QED BY <3>3, <4>1, <4>2
    <3> QED BY <3>4, <3>5, <3>6
  <2>2. p \notin freed /\ freed \subseteq Peers
    BY <1>1 DEF BuffersInv, ListInv, BuffersTypeOK
  <2>3. phase' \in [Peers -> {"off", "prompt", "reading", "left"}] /\ phase'[p] = "prompt"
        /\ \A q \in Peers \ {p} : phase'[q] = phase[q]
    BY <1>1 DEF BuffersInv, BuffersTypeOK
  <2> QED BY <1>1, <1>7, <2>1, <2>2, <2>3 DEF BuffersInv, ListInv
<1>9. PortInv'
  <2>1. \A q \in Peers : phase'[q] = "off" => phase[q] = "off"
    BY <1>1 DEF BuffersInv, BuffersTypeOK
  <2>2. stage' = "select"
    BY <1>1
  <2> QED BY <1>6, <2>1, <2>2 DEF BuffersInv, PortInv
<1>10. \A q \in Peers : write_buf'[q] = <<>> \/ write_buf'[q] = write_buf[q]
    BY <1>1 DEF BuffersInv, BuffersTypeOK
<1>11. Len(<<>>) <= BUFSIZE
    BY ReplBuffersAssumption
<1> QED BY <1>1, <1>4, <1>6, <1>8, <1>9, <1>10, <1>11, NothingOwned, SessionFacts,
           SessionsKept

\* A port that is collected is not the one in use.
LEMMA CollectPreserves ==
    ASSUME BuffersInv, NEW q \in Peers, Collect(q)
    PROVE  BuffersInv'
<1>1. /\ output_port # q /\ phase[q] # "off"
      /\ port' = [p \in Peers |-> IF port[p] = q THEN None ELSE port[p]]
      /\ UNCHANGED <<conn_list, freed, inbox, write_buf, outbox, output_port, conn, line,
                     stage, asked, phase, printed, due, status>>
    BY DEF Collect, turnVars, peerVars
<1>2. BuffersTypeOK'
    BY <1>1 DEF BuffersInv, BuffersTypeOK
<1>3. Lost \subseteq Lost'
    BY <1>1, ReplBuffersAssumption DEF Lost
<1>4. ListInv'
    BY <1>1 DEF BuffersInv, ListInv, Connections
<1>5. PortInv'
  <2>1. \A p \in Peers : phase[p] = "off" => port'[p] = p
    BY <1>1 DEF BuffersInv, PortInv
  <2> QED BY <1>1, <1>3, <2>1 DEF BuffersInv, PortInv, Connections
<1> QED BY <1>1, <1>2, <1>3, <1>4, <1>5, BytesAlone

LEMMA SendPreserves ==
    ASSUME BuffersInv, NEW p \in Peers, SendLine(p)
    PROVE  BuffersInv'
<1>1. PICK size \in LineSizes :
          inbox' = [inbox EXCEPT ![p] = @ \o [j \in 1..size |-> asked'[p]]]
    BY DEF SendLine
<1>2. /\ phase[p] = "prompt" /\ asked[p] < MaxLines
      /\ phase' = [phase EXCEPT ![p] = "reading"]
      /\ asked' = [asked EXCEPT ![p] = @ + 1]
      /\ UNCHANGED <<conn_list, freed, write_buf, outbox, port, output_port, conn, line,
                     stage, printed, due, status>>
    BY DEF SendLine, turnVars
<1>3. /\ inbox \in [Peers -> Seq(0..MaxLines)] /\ asked \in [Peers -> 0..MaxLines]
      /\ MaxLines \in Nat /\ size \in Nat
    BY ReplBuffersAssumption DEF BuffersInv, BuffersTypeOK
<1>4. asked' \in [Peers -> 0..MaxLines]
    BY <1>2, <1>3
<1>5. [j \in 1..size |-> asked'[p]] \in Seq(0..MaxLines)
    BY <1>3, <1>4
<1>6. inbox[p] \o [j \in 1..size |-> asked'[p]] \in Seq(0..MaxLines)
    BY <1>3, <1>5
<1>7. BuffersTypeOK'
    BY <1>1, <1>2, <1>4, <1>6 DEF BuffersInv, BuffersTypeOK
<1>8. ListInv' /\ PortInv' /\ Lost' = Lost
    BY <1>2, PhasesOf, PortsAlone
<1> QED BY <1>2, <1>7, <1>8, BytesAlone

LEMMA ReadPreserves ==
    ASSUME BuffersInv, NEW p \in Peers, ReadAnswer(p)
    PROVE  BuffersInv'
<1> DEFINE n == Least(BUFSIZE, Len(outbox[p]))
<1>1. n \in 0..Len(outbox[p]) /\ outbox[p] \in Seq(Bytes) /\ n + 1 \in Nat \ {0}
  <2>1. outbox[p] \in Seq(Bytes) /\ BUFSIZE \in Nat
    BY SessionFacts, ReplBuffersAssumption
  <2> QED BY <2>1 DEF Least
<1>2. /\ printed' = [printed EXCEPT ![p] = UpToNul(SubSeq(outbox[p], 1, n))]
      /\ outbox' = [outbox EXCEPT ![p] = SubSeq(@, n + 1, Len(@))]
      /\ phase[p] = "reading" /\ phase' = [phase EXCEPT ![p] = "prompt"]
      /\ UNCHANGED <<conn_list, freed, inbox, write_buf, port, output_port, conn, line,
                     stage, asked, due, status>>
    BY DEF ReadAnswer, turnVars
<1> HIDE DEF n
<1>3. UpToNul(SubSeq(outbox[p], 1, n)) \in Seq(Bytes)
  <2>1. 1 \in Nat \ {0}
    OBVIOUS
  <2>2. SubSeq(outbox[p], 1, n) \in Seq(Bytes)
    BY <1>1, <2>1, SubSeqType
  <2> QED BY <2>2, UpToNulType
<1>4. /\ SubSeq(outbox[p], n + 1, Len(outbox[p])) \in Seq(Bytes)
      /\ Own(SubSeq(outbox[p], n + 1, Len(outbox[p])), p, Lost)
  <2>1. Len(outbox[p]) \in 0..Len(outbox[p])
    BY <1>1
  <2>2. /\ SubSeq(outbox[p], n + 1, Len(outbox[p])) \in Seq(Bytes)
        /\ Range(SubSeq(outbox[p], n + 1, Len(outbox[p]))) \subseteq Range(outbox[p])
    BY <1>1, <2>1, SubSeqType
  <2> QED BY <2>2, SessionFacts DEF Own
<1>5. BuffersTypeOK'
    BY <1>2, <1>3, <1>4 DEF BuffersInv, BuffersTypeOK
<1>6. \A q \in Peers : outbox'[q] = outbox[q]
          \/ (q = p /\ outbox'[q] = SubSeq(outbox[p], n + 1, Len(outbox[p])))
    BY <1>2 DEF BuffersInv, BuffersTypeOK
<1>7. ListInv' /\ PortInv' /\ Lost' = Lost
    BY <1>2, PhasesOf, PortsAlone
<1> QED BY <1>2, <1>4, <1>5, <1>6, <1>7, SessionFacts, SessionsKept

LEMMA LeavePreserves ==
    ASSUME BuffersInv, NEW p \in Peers, Leave(p)
    PROVE  BuffersInv'
<1>1. /\ phase[p] = "prompt" /\ phase' = [phase EXCEPT ![p] = "left"]
      /\ UNCHANGED <<conn_list, freed, inbox, write_buf, outbox, port, output_port, conn,
                     line, stage, asked, printed, due, status>>
    BY DEF Leave, turnVars
<1>2. BuffersTypeOK'
    BY <1>1 DEF BuffersInv, BuffersTypeOK
<1>3. ListInv' /\ PortInv' /\ Lost' = Lost
    BY <1>1, PhasesOf, PortsAlone
<1> QED BY <1>1, <1>2, <1>3, BytesAlone

LEMMA FreePreserves ==
    ASSUME BuffersInv, NEW p \in Peers, Free(p)
    PROVE  BuffersInv'
<1>1. PICK k \in DOMAIN conn_list :
          conn_list[k] = p /\ conn_list' = SubSeq(conn_list, 1, k - 1)
    BY DEF Free
<1>2. /\ stage = "select" /\ phase[p] = "left" /\ freed' = freed \cup {p}
      /\ UNCHANGED <<inbox, write_buf, outbox, port, output_port, conn, line, stage,
                     asked, phase, printed, due, status>>
    BY DEF Free, turnVars, peerVars
<1>3. conn_list \in Seq(Peers) /\ k - 1 \in 0..Len(conn_list) /\ 1 \in Nat \ {0}
  <2>1. conn_list \in Seq(Peers)
    BY DEF BuffersInv, BuffersTypeOK
  <2>2. Len(conn_list) \in Nat /\ k \in 1..Len(conn_list)
    BY <2>1
  <2> QED BY <2>1, <2>2
<1>4. conn_list' \in Seq(Peers)
    BY <1>1, <1>3, SubSeqType
<1>5. BuffersTypeOK'
    BY <1>2, <1>4 DEF BuffersInv, BuffersTypeOK
<1>6. DOMAIN conn_list' = 1..(k - 1) /\ \A j \in 1..(k - 1) : conn_list'[j] = conn_list[j]
  <2> DEFINE n == k - 1
  <2>1. n \in 0..Len(conn_list) /\ conn_list' = SubSeq(conn_list, 1, n)
    BY <1>1, <1>3
  <2> HIDE DEF n
  <2>2. DOMAIN conn_list' = 1..n /\ \A j \in 1..n : conn_list'[j] = conn_list[j]
    BY <1>3, <2>1, FrontElements
  <2> QED BY <2>2 DEF n
<1>7. 1..(k - 1) \subseteq DOMAIN conn_list /\ k \notin 1..(k - 1)
    BY <1>3
<1>8. \A j, m \in DOMAIN conn_list : conn_list[j] = conn_list[m] => j = m
    BY DEF BuffersInv, ListInv
<1>9. Connections' \subseteq Connections \ {p}
  <2> SUFFICES ASSUME NEW q \in Connections' PROVE q \in Connections /\ q # p
      OBVIOUS
  <2>1. PICK j \in 1..(k - 1) : q = conn_list[j]
    BY <1>6 DEF Connections
  <2>2. j \in DOMAIN conn_list /\ j # k
    BY <1>7, <2>1
  <2> QED BY <1>1, <1>8, <2>1, <2>2 DEF Connections
<1>10. ListInv'
  <2>1. \A j, m \in DOMAIN conn_list' : conn_list'[j] = conn_list'[m] => j = m
    BY <1>6, <1>7, <1>8
  <2> QED BY <1>2, <1>9, <2>1 DEF BuffersInv, ListInv
<1>11. Lost' = Lost
    BY <1>2 DEF Lost
<1>12. PortInv'
  <2>1. stage' = "select"
    BY <1>2
  <2>2. \A q \in Peers : phase'[q] = "off" => port'[q] = q
    BY <1>2 DEF BuffersInv, PortInv
  <2> QED BY <2>1, <2>2 DEF PortInv
<1> QED BY <1>2, <1>5, <1>10, <1>11, <1>12, BytesAlone

----------------------------------------------------------------------------
(* Writing.                                                                *)

\* Something is put into the buffer of q, all of it or nothing.
Into(q, bytes) == write_buf' = [write_buf EXCEPT ![q] = io_buffer_write(@, bytes)]

LEMMA IntoFacts ==
    ASSUME BuffersInv, NEW q \in Peers, NEW bytes \in Seq(Bytes), Own(bytes, q, Lost),
           Into(q, bytes)
    PROVE  /\ write_buf' \in [Peers -> Seq(Bytes)]
           /\ \A r \in Peers : Own(write_buf'[r], r, Lost) /\ Len(write_buf'[r]) <= BUFSIZE
<1> DEFINE buf == io_buffer_write(write_buf[q], bytes)
<1>1. buf \in Seq(Bytes) /\ Own(buf, q, Lost) /\ Len(buf) <= BUFSIZE
    BY SessionFacts, WriteFacts
<1>2. write_buf' = [write_buf EXCEPT ![q] = buf] /\ write_buf \in [Peers -> Seq(Bytes)]
    BY DEF Into, BuffersInv, BuffersTypeOK
<1> HIDE DEF buf
<1>3. \A r \in Peers : write_buf'[r] = IF r = q THEN buf ELSE write_buf[r]
    BY <1>2
<1> QED BY <1>1, <1>2, <1>3, SessionFacts

\* Whose buffer gets what is written to the current output port.
LEMMA PortWriteGoes ==
    ASSUME BuffersInv, NEW text, io_buffer_port_write(text), status = "running"
    PROVE  /\ status' \in {"running", "dead"}
           /\ \/ UNCHANGED write_buf /\ output_port \notin Peers \ freed
              \/ \E q \in Peers : Into(q, text) /\ (q = output_port \/ output_port \in freed)
<1>1. Connections \subseteq Peers
  BY DEF Connections, BuffersInv, BuffersTypeOK
<1>2. output_port \in Peers \cup {None} /\ None \notin Peers
  BY ReplBuffersAssumption DEF BuffersInv, BuffersTypeOK
<1> QED BY <1>1, <1>2 DEF io_buffer_port_write, Into

\* A step that writes into one buffer at most keeps the invariant.
LEMMA OneWrite ==
    ASSUME BuffersInv, UNCHANGED <<conn_list, freed, inbox, outbox, port, output_port, conn,
                                   line, asked, phase, printed>>,
           \/ stage' = stage
           \/ stage # "select" /\ stage' \in {"newline", "reply"},
           due' \in [Peers -> Nat \cup {-1}], status' \in {"running", "dead"},
           NEW bytes \in Seq(Bytes),
           \/ UNCHANGED write_buf
           \/ \E q \in Peers : Own(bytes, q, Lost) /\ Into(q, bytes)
    PROVE  BuffersInv'
<1>1. ListInv' /\ PortInv' /\ Lost' = Lost
    BY PortsAlone
<1>2. /\ write_buf' \in [Peers -> Seq(Bytes)]
      /\ \A r \in Peers : Own(write_buf'[r], r, Lost) /\ Len(write_buf'[r]) <= BUFSIZE
  <2>1. CASE UNCHANGED write_buf
    BY <2>1, SessionFacts DEF BuffersInv, BuffersTypeOK
  <2>2. CASE \E q \in Peers : Own(bytes, q, Lost) /\ Into(q, bytes)
    BY <2>2, IntoFacts
  <2> QED BY <2>1, <2>2
<1>3. BuffersTypeOK'
    BY <1>2 DEF BuffersInv, BuffersTypeOK
<1> QED BY <1>1, <1>2, <1>3, SessionFacts, SessionsKept

\* Output of keys and hooks goes to whoever evaluated last, or astray; it
\* belongs to no evaluation, and it is compared with the room that is left.
LEMMA KeyOutputPreserves ==
    ASSUME BuffersInv, KeyOutput
    PROVE  BuffersInv'
<1>1. /\ status = "running" /\ output_port \in Peers
      /\ UNCHANGED <<conn_list, freed, inbox, outbox, port, output_port, conn, line, stage,
                     asked, phase, printed, due>>
    BY DEF KeyOutput, turnVars, peerVars, BuffersInv, BuffersTypeOK
<1>2. PICK size \in KeyOutputs : io_buffer_port_write(Text(output_port, 0, size))
    BY DEF KeyOutput
<1> DEFINE text == Text(output_port, 0, size)
<1>3. text \in Seq(Bytes) /\ \A q \in Peers : Own(text, q, Lost)
  <2>1. size \in Nat /\ 0 \in 0..MaxLines
    BY ReplBuffersAssumption
  <2> QED BY <1>1, <2>1, TextFacts
<1>4. /\ status' \in {"running", "dead"}
      /\ UNCHANGED write_buf \/ \E q \in Peers : Into(q, text)
    BY <1>1, <1>2, PortWriteGoes
<1>5. due' \in [Peers -> Nat \cup {-1}]
    BY <1>1 DEF BuffersInv, BuffersTypeOK
<1> HIDE DEF text
<1> QED BY <1>1, <1>3, <1>4, <1>5, OneWrite

LEMMA CountedFacts ==
    ASSUME BuffersInv, conn \in Peers, NEW size \in Nat, NEW whole \in BOOLEAN,
           Counted(size, whole)
    PROVE  /\ due' \in [Peers -> Nat \cup {-1}]
           /\ due'[conn] = IF whole /\ due[conn] >= 0 THEN due[conn] + size ELSE -1
           /\ \A q \in Peers \ {conn} : due'[q] = due[q]
<1>1. due \in [Peers -> Nat \cup {-1}]
    BY DEF BuffersInv, BuffersTypeOK
<1>2. (IF whole /\ due[conn] >= 0 THEN due[conn] + size ELSE -1) \in Nat \cup {-1}
    BY <1>1
<1> QED BY <1>1, <1>2 DEF Counted

\* What the expression prints goes to its connection, or its port is lost.
LEMMA DisplayGoes ==
    ASSUME BuffersInv, Display
    PROVE  /\ conn \in Peers /\ conn \notin freed /\ line \in 0..MaxLines
           /\ status' \in {"running", "dead"}
           /\ UNCHANGED <<conn_list, freed, inbox, outbox, port, output_port, conn, line,
                          stage, asked, phase, printed>>
           /\ \E size \in Outputs :
                 /\ Counted(size, output_port = conn /\ Len(write_buf[conn]) + size <= BUFSIZE)
                 /\ \/ UNCHANGED write_buf /\ output_port # conn
                    \/ \E q \in Peers : /\ Into(q, Text(conn, line, size))
                                        /\ q = conn \/ (conn \in Lost /\ output_port # conn)
                                        /\ output_port = conn => q = conn
<1>1. /\ stage = "eval" /\ status = "running"
      /\ UNCHANGED <<conn_list, freed, inbox, outbox, port, output_port, conn, line, stage,
                     asked, phase, printed>>
    BY DEF Display, turnVars, peerVars
<1>2. conn \in Peers /\ line \in 0..MaxLines
    BY <1>1 DEF BuffersInv, BuffersTypeOK
<1>3. conn \notin freed /\ (output_port = conn \/ conn \in Lost)
    BY <1>1, <1>2 DEF BuffersInv, PortInv, ListInv
<1>4. PICK size \in Outputs :
        /\ io_buffer_port_write(Text(conn, line, size))
        /\ Counted(size, output_port = conn /\ Len(write_buf[conn]) + size <= BUFSIZE)
    BY DEF Display
<1>5. /\ status' \in {"running", "dead"}
      /\ \/ UNCHANGED write_buf /\ output_port \notin Peers \ freed
         \/ \E q \in Peers : /\ Into(q, Text(conn, line, size))
                             /\ q = output_port \/ output_port \in freed
    BY <1>1, <1>4, PortWriteGoes
<1> QED BY <1>1, <1>2, <1>3, <1>4, <1>5

LEMMA DisplayPreserves ==
    ASSUME BuffersInv, Display
    PROVE  BuffersInv'
<1>1. /\ conn \in Peers /\ line \in 0..MaxLines /\ status' \in {"running", "dead"}
      /\ UNCHANGED <<conn_list, freed, inbox, outbox, port, output_port, conn, line, stage,
                     asked, phase, printed>>
    BY DisplayGoes
<1>2. PICK size \in Outputs :
        /\ Counted(size, output_port = conn /\ Len(write_buf[conn]) + size <= BUFSIZE)
        /\ \/ UNCHANGED write_buf /\ output_port # conn
           \/ \E q \in Peers : /\ Into(q, Text(conn, line, size))
                               /\ q = conn \/ (conn \in Lost /\ output_port # conn)
                               /\ output_port = conn => q = conn
    BY DisplayGoes, Zenon
<1>3. size \in Nat
    BY ReplBuffersAssumption
<1>4. due' \in [Peers -> Nat \cup {-1}]
    BY <1>1, <1>2, <1>3, CountedFacts
<1> DEFINE text == Text(conn, line, size)
<1>5. text \in Seq(Bytes) /\ Own(text, conn, Lost)
      /\ \A q \in Peers : conn \in Lost => Own(text, q, Lost)
    BY <1>1, <1>3, TextFacts
<1>6. \/ UNCHANGED write_buf
      \/ \E q \in Peers : Own(text, q, Lost) /\ Into(q, text)
    BY <1>2, <1>5
<1> HIDE DEF text
<1> QED BY <1>1, <1>4, <1>5, <1>6, OneWrite

LEMMA PutPreserves ==
    ASSUME BuffersInv, stage # "select", NEW bytes \in Seq(Bytes), NEW size \in Nat,
           NEW next \in {"newline", "reply"}, Own(bytes, conn, Lost), Put(bytes, size, next)
    PROVE  BuffersInv'
<1>1. conn \in Peers
    BY DEF BuffersInv, BuffersTypeOK
<1>2. /\ Into(conn, bytes) /\ stage' = next
      /\ Counted(size, Len(write_buf[conn]) + Len(bytes) <= BUFSIZE)
      /\ UNCHANGED <<conn_list, freed, inbox, outbox, port, output_port, conn, line, asked,
                     phase, printed, status>>
    BY DEF Put, Into, peerVars
<1>3. due' \in [Peers -> Nat \cup {-1}]
  <2> DEFINE whole == Len(write_buf[conn]) + Len(bytes) <= BUFSIZE
  <2>1. Counted(size, whole)
    BY <1>2
  <2> HIDE DEF whole
  <2>2. Counted(size, whole = TRUE)
    BY <2>1 DEF Counted
  <2> QED BY <1>1, <2>2, CountedFacts
<1>4. status' \in {"running", "dead"}
    BY <1>2 DEF BuffersInv, BuffersTypeOK
<1> QED BY <1>1, <1>2, <1>3, <1>4, OneWrite

LEMMA ResultPreserves ==
    ASSUME BuffersInv, Result \/ Newline
    PROVE  BuffersInv'
<1>1. conn \in Peers /\ line \in 0..MaxLines /\ stage # "select"
    BY DEF Result, Newline, BuffersInv, BuffersTypeOK
<1>2. CASE Result
  <2>1. PICK size \in Values : IF size = 0 THEN Put(<<NUL>>, 0, "reply")
                               ELSE Put(Text(conn, line, size), size, "newline")
    BY <1>2 DEF Result
  <2>2. size \in Nat /\ 0 \in Nat
    BY ReplBuffersAssumption
  <2>3. Text(conn, line, size) \in Seq(Bytes) /\ Own(Text(conn, line, size), conn, Lost)
    BY <1>1, <2>2, TextFacts
  <2>4. CASE size = 0
    BY <1>1, <2>1, <2>2, <2>4, NulFacts, PutPreserves
  <2>5. CASE size # 0
    BY <1>1, <2>1, <2>2, <2>3, <2>5, PutPreserves
  <2> QED BY <2>4, <2>5
<1>3. CASE Newline
  <2>1. Put(Text(conn, line, 1) \o <<NUL>>, 1, "reply")
    BY <1>3 DEF Newline
  <2>2. 1 \in Nat
    OBVIOUS
  <2>3. Text(conn, line, 1) \in Seq(Bytes) /\ Own(Text(conn, line, 1), conn, Lost)
    BY <1>1, <2>2, TextFacts
  <2>4. /\ Text(conn, line, 1) \o <<NUL>> \in Seq(Bytes)
        /\ Own(Text(conn, line, 1) \o <<NUL>>, conn, Lost)
    BY <1>1, <2>3, NulFacts, JoinOwn
  <2> QED BY <1>1, <2>1, <2>2, <2>4, PutPreserves
<1> QED BY <1>2, <1>3

LEMMA ReplyPreserves ==
    ASSUME BuffersInv, repl_conn_write
    PROVE  BuffersInv'
<1>1. /\ conn \in Peers
      /\ outbox' = [outbox EXCEPT ![conn] = outbox[conn] \o write_buf[conn]]
      /\ write_buf' = [write_buf EXCEPT ![conn] = <<>>]
      /\ status' \in {"dead", "running"}
      /\ conn' = None /\ line' = 0 /\ stage' = "select"
      /\ UNCHANGED <<conn_list, freed, inbox, port, output_port, asked, phase, printed, due>>
    BY DEF repl_conn_write, peerVars, BuffersInv, BuffersTypeOK
<1>2. /\ outbox[conn] \o write_buf[conn] \in Seq(Bytes)
      /\ Own(outbox[conn] \o write_buf[conn], conn, Lost)
    BY <1>1, SessionFacts, JoinOwn
<1>3. \A q \in Peers :
          /\ outbox'[q] = IF q = conn THEN outbox[conn] \o write_buf[conn] ELSE outbox[q]
          /\ write_buf'[q] = IF q = conn THEN <<>> ELSE write_buf[q]
    BY <1>1 DEF BuffersInv, BuffersTypeOK
<1>4. ListInv' /\ PortInv' /\ Lost' = Lost
    BY <1>1, PortsAlone
<1>5. BuffersTypeOK'
  <2>1. outbox' \in [Peers -> Seq(Bytes)] /\ write_buf' \in [Peers -> Seq(Bytes)]
    BY <1>1, <1>2 DEF BuffersInv, BuffersTypeOK
  <2>2. 0 \in 0..MaxLines
    BY ReplBuffersAssumption
  <2> QED BY <1>1, <2>1, <2>2 DEF BuffersInv, BuffersTypeOK
<1>6. Len(<<>>) <= BUFSIZE
    BY ReplBuffersAssumption
<1> QED BY <1>2, <1>3, <1>4, <1>5, <1>6, NothingOwned, SessionFacts, SessionsKept

\* What a line leaves in the socket, and which line it is.
LEMMA Taken ==
    ASSUME BuffersInv, NEW p \in Peers, inbox[p] # <<>>
    PROVE  /\ TakeBytes(p) \in 1..Len(inbox[p])
           /\ inbox[p][TakeBytes(p)] \in 0..MaxLines
           /\ SubSeq(inbox[p], TakeBytes(p) + 1, Len(inbox[p])) \in Seq(0..MaxLines)
<1> DEFINE n == TakeBytes(p)
<1>1. inbox[p] \in Seq(0..MaxLines)
    BY DEF BuffersInv, BuffersTypeOK
<1>2. n \in 1..Len(inbox[p])
  <2>1. Len(inbox[p]) \in Nat \ {0} /\ BUFSIZE \in Nat \ {0}
    BY <1>1, ReplBuffersAssumption
  <2> QED BY <2>1 DEF TakeBytes, Least
<1> HIDE DEF n
<1>3. inbox[p][n] \in 0..MaxLines
    BY <1>1, <1>2, SeqElement
<1>4. Len(inbox[p]) \in 0..Len(inbox[p]) /\ n + 1 \in Nat \ {0}
    BY <1>1, <1>2
<1>5. SubSeq(inbox[p], n + 1, Len(inbox[p])) \in Seq(0..MaxLines)
    BY <1>1, <1>4, SubSeqType
<1> QED BY <1>2, <1>3, <1>5 DEF n

LEMMA ServePreserves ==
    ASSUME BuffersInv, NEW p \in Peers, Serve(p)
    PROVE  BuffersInv'
<1>1. /\ p \in Connections /\ inbox[p] # <<>> /\ stage = "select"
      /\ line' = inbox[p][TakeBytes(p)]
      /\ inbox' = [inbox EXCEPT ![p] = SubSeq(inbox[p], TakeBytes(p) + 1, Len(inbox[p]))]
      /\ conn' = p /\ stage' = "eval" /\ due' = [due EXCEPT ![p] = 0]
      /\ UNCHANGED <<conn_list, freed, write_buf, outbox, port, asked, phase, printed>>
    BY DEF Serve, peerVars
<1>2. /\ output_port' \in Peers \cup {None} /\ status' \in {"running", "dead"}
      /\ output_port' = p \/ p \in Lost
    BY ReplBuffersAssumption DEF Serve, SetPort, Lost, BuffersInv, BuffersTypeOK
<1>3. BuffersTypeOK'
  <2>1. inbox' \in [Peers -> Seq(0..MaxLines)] /\ line' \in 0..MaxLines
    BY <1>1, Taken DEF BuffersInv, BuffersTypeOK
  <2>2. due' \in [Peers -> Nat \cup {-1}]
    BY <1>1 DEF BuffersInv, BuffersTypeOK
  <2> QED BY <1>1, <1>2, <2>1, <2>2 DEF BuffersInv, BuffersTypeOK
<1>4. Connections' = Connections /\ Lost' = Lost
    BY <1>1 DEF Connections, Lost
<1>5. ListInv' /\ PortInv'
    BY <1>1, <1>2, <1>4 DEF BuffersInv, ListInv, PortInv
<1> QED BY <1>1, <1>3, <1>4, <1>5, BytesAlone

LEMMA BuffersStep == BuffersInv /\ [BuffersNext]_rvars => BuffersInv'
<1> SUFFICES ASSUME BuffersInv, [BuffersNext]_rvars PROVE BuffersInv'
    OBVIOUS
<1>1. ASSUME NEW p \in Peers, SendLine(p) \/ ReadAnswer(p) \/ Leave(p)
      PROVE  BuffersInv'
    BY <1>1, SendPreserves, ReadPreserves, LeavePreserves
<1>2. ASSUME NEW p \in Peers, Connect(p) \/ Collect(p) \/ Serve(p) \/ Free(p)
      PROVE  BuffersInv'
    BY <1>2, ConnectPreserves, CollectPreserves, ServePreserves, FreePreserves
<1>3. CASE Evaluation
    BY <1>3, DisplayPreserves, ResultPreserves, ReplyPreserves DEF Evaluation
<1>4. CASE KeyOutput
    BY <1>4, KeyOutputPreserves
<1>5. CASE Rest \/ UNCHANGED rvars
  <2>1. UNCHANGED <<conn_list, freed, inbox, write_buf, outbox, port, output_port, conn, line,
                    stage, asked, phase, printed, due, status>>
    BY <1>5 DEF Rest, rvars, turnVars, peerVars
  <2>2. BuffersTypeOK' /\ ListInv' /\ PortInv' /\ Lost' = Lost
    BY <2>1 DEF BuffersInv, BuffersTypeOK, ListInv, PortInv, Lost, Connections
  <2> QED BY <2>1, <2>2, BytesAlone
<1> QED BY <1>1, <1>2, <1>3, <1>4, <1>5 DEF BuffersNext

\* Types, bounds and owners of bytes, at all times.
THEOREM BuffersInvariant == BuffersSpec => []BuffersInv
BY BuffersInitial, BuffersStep, PTL DEF BuffersSpec

\* No buffer is written past its end, at any point of an evaluation, whatever
\* expressions, keys and hooks print and also through the port of a session
\* that has ended.
THEOREM NeverPastTheEnd == BuffersSpec => []InBounds
<1>1. BuffersInv => InBounds
    BY DEF BuffersInv
<1> QED BY <1>1, BuffersInvariant, PTL

\* What an evaluation writes reaches the session that asked, and no other, as
\* long as the port of that session was not collected.
THEOREM EachToItsSession == BuffersSpec => []NoCrossTalk
<1>1. BuffersInv => NoCrossTalk
    BY DEF BuffersInv
<1> QED BY <1>1, BuffersInvariant, PTL

----------------------------------------------------------------------------
(* The answer to a line.                                                   *)

\* What is not of an evaluation of p: printed by keys and hooks, or by a
\* session whose port was collected.
Strays(p) == {b \in Peers \X (0..MaxLines) : b[2] = 0 \/ b[1] # p}
Stray(s, p) == \A k \in DOMAIN s : s[k] \in Strays(p)

\* Strays, then text; and an answer with that much text, as it is sent.
Ends(s, p, l, size) ==
    /\ s \in Seq(Bytes) /\ size <= Len(s)
    /\ \A k \in 1..Len(s) :
          IF k <= Len(s) - size THEN s[k] \in Strays(p) ELSE s[k] = <<p, l>>

Carries(s, p, l, size) ==
    /\ size + 1 <= Len(s)
    /\ s[Len(s)] = NUL
    /\ \A k \in 1..(Len(s) - 1) :
          IF k <= Len(s) - 1 - size THEN s[k] \in Strays(p) ELSE s[k] = <<p, l>>

\* The peers with no line on its way; with one; with an answer; and what is
\* known of the answer.
AtPrompt == {p \in Peers :
    /\ inbox[p] = <<>> /\ outbox[p] = <<>>
    /\ asked[p] > 0 /\ due[p] >= 0 => EndsWith(printed[p], p, asked[p], due[p])}

LineSent == {p \in Peers :
    /\ outbox[p] = <<>>
    /\ \E size \in LineSizes : inbox[p] = [j \in 1..size |-> asked[p]]}

AnswerSent == {p \in Peers :
    /\ inbox[p] = <<>>
    /\ Len(outbox[p]) <= BUFSIZE
    /\ due[p] >= 0 => Carries(outbox[p], p, asked[p], due[p])}

\* One line is on its way at a time, and only strays are in a buffer between
\* two evaluations.
Idle == {p \in Peers :
    /\ Stray(write_buf[p], p)
    /\ phase[p] = "off" => asked[p] = 0 /\ p \in AtPrompt
    /\ phase[p] = "prompt" => p \in AtPrompt
    /\ phase[p] = "left" => inbox[p] = <<>>
    /\ phase[p] = "reading" => asked[p] > 0 /\ p \in LineSent \cup AnswerSent}

\* The whole line was read, and the answer grows behind the strays.
Served == {p \in Peers :
    /\ phase[p] = "reading" /\ asked[p] > 0 /\ line = asked[p]
    /\ inbox[p] = <<>> /\ outbox[p] = <<>>
    /\ due[p] >= 0 => IF stage = "reply" THEN Carries(write_buf[p], p, line, due[p])
                                         ELSE Ends(write_buf[p], p, line, due[p])}

StageInv == \A p \in Peers : IF p = conn THEN p \in Served ELSE p \in Idle

LEMMA TextElements ==
    ASSUME NEW p \in Peers, NEW l \in 0..MaxLines, NEW size \in Nat
    PROVE  /\ Text(p, l, size) \in Seq(Bytes) /\ Len(Text(p, l, size)) = size
           /\ \A k \in 1..size : Text(p, l, size)[k] = <<p, l>>
BY DEF Text, Bytes

LEMMA Repeated ==
    ASSUME NEW S, NEW x \in S, NEW size \in Nat
    PROVE  [j \in 1..size |-> x] \in Seq(S) /\ Len([j \in 1..size |-> x]) = size
OBVIOUS

LEMMA ConcatElements ==
    ASSUME NEW S, NEW s \in Seq(S), NEW t \in Seq(S)
    PROVE  /\ s \o t \in Seq(S) /\ Len(s \o t) = Len(s) + Len(t)
           /\ \A k \in 1..Len(s) : (s \o t)[k] = s[k]
           /\ \A k \in (Len(s) + 1)..(Len(s) + Len(t)) : (s \o t)[k] = t[k - Len(s)]
OBVIOUS

\* More text behind the text.
LEMMA EndsMore ==
    ASSUME NEW p \in Peers, NEW l \in 0..MaxLines, NEW m \in Nat, NEW n \in Nat,
           NEW s \in Seq(Bytes), Ends(s, p, l, m)
    PROVE  /\ Ends(s \o Text(p, l, n), p, l, m + n)
           /\ Len(s \o Text(p, l, n)) = Len(s) + n
<1> DEFINE t == Text(p, l, n)
<1>1. t \in Seq(Bytes) /\ Len(t) = n /\ \A k \in 1..n : t[k] = <<p, l>>
    BY TextElements
<1> HIDE DEF t
<1>2. /\ s \o t \in Seq(Bytes) /\ Len(s \o t) = Len(s) + n
      /\ \A k \in 1..Len(s) : (s \o t)[k] = s[k]
      /\ \A k \in (Len(s) + 1)..(Len(s) + n) : (s \o t)[k] = t[k - Len(s)]
    BY <1>1, ConcatElements
<1>3. Len(s) \in Nat
    OBVIOUS
<1>4. ASSUME NEW k \in 1..(Len(s) + n)
      PROVE  IF k <= Len(s) - m THEN (s \o t)[k] \in Strays(p)
                                ELSE (s \o t)[k] = <<p, l>>
  <2>1. CASE k <= Len(s)
    BY <1>2, <1>3, <2>1 DEF Ends
  <2>2. CASE k > Len(s)
    BY <1>1, <1>2, <1>3, <2>2 DEF Ends
  <2>3. k <= Len(s) \/ k > Len(s)
    BY <1>3
  <2> QED BY <2>1, <2>2, <2>3
<1>5. m + n <= Len(s \o t) /\ Len(s \o t) - (m + n) = Len(s) - m
    BY <1>2, <1>3 DEF Ends
<1> QED BY <1>2, <1>4, <1>5 DEF Ends, t

LEMMA NulAppended ==
    ASSUME NEW s \in Seq(Bytes)
    PROVE  s \o <<NUL>> \in Seq(Bytes) /\ Len(s \o <<NUL>>) = Len(s) + 1
BY DEF Bytes

LEMMA EndsNul ==
    ASSUME NEW p \in Peers, NEW l \in 0..MaxLines, NEW m \in Nat,
           NEW s \in Seq(Bytes), Ends(s, p, l, m)
    PROVE  /\ Carries(s \o <<NUL>>, p, l, m)
           /\ Len(s \o <<NUL>>) = Len(s) + 1
<1> DEFINE t == <<NUL>>
<1>1. t \in Seq(Bytes) /\ Len(t) = 1 /\ t[1] = NUL
    BY DEF Bytes
<1> HIDE DEF t
<1>2. /\ s \o t \in Seq(Bytes) /\ Len(s \o t) = Len(s) + 1
      /\ \A k \in 1..Len(s) : (s \o t)[k] = s[k]
      /\ \A k \in (Len(s) + 1)..(Len(s) + 1) : (s \o t)[k] = t[k - Len(s)]
  <2>1. /\ s \o t \in Seq(Bytes) /\ Len(s \o t) = Len(s) + Len(t)
        /\ \A k \in 1..Len(s) : (s \o t)[k] = s[k]
        /\ \A k \in (Len(s) + 1)..(Len(s) + Len(t)) : (s \o t)[k] = t[k - Len(s)]
    BY <1>1, ConcatElements
  <2> QED BY <1>1, <2>1
<1>3. Len(s) \in Nat
    OBVIOUS
<1>4. (s \o t)[Len(s) + 1] = NUL
    BY <1>1, <1>2, <1>3
<1> QED BY <1>2, <1>3, <1>4 DEF Ends, Carries, t

\* nwm-repl shows what an answer carries.
LEMMA CarriedIsShown ==
    ASSUME NEW p \in Peers, NEW l \in 0..MaxLines, NEW size \in Nat,
           NEW s \in Seq(Bytes), Carries(s, p, l, size)
    PROVE  EndsWith(UpToNul(s), p, l, size)
<1>1. Len(s) \in Nat /\ Len(s) > 0 /\ s[Len(s)] = NUL
    BY DEF Carries
<1>2. \A k \in 1..(Len(s) - 1) : s[k] # NUL
  <2>1. NUL \notin Peers \X (0..MaxLines) /\ MaxLines \in Nat
    BY ReplBuffersAssumption
  <2>2. \A b \in Strays(p) : b # NUL
    BY <2>1 DEF Strays
  <2>3. <<p, l>> # NUL
    BY <2>1
  <2> TAKE k \in 1..(Len(s) - 1)
  <2>4. s[k] \in Strays(p) \/ s[k] = <<p, l>>
    BY DEF Carries
  <2> QED BY <2>2, <2>3, <2>4
<1> DEFINE first == CHOOSE m \in DOMAIN s : s[m] = NUL /\ \A j \in 1..(m - 1) : s[j] # NUL
<1>3. first = Len(s)
  <2>1. first \in DOMAIN s /\ s[first] = NUL
    BY <1>1, <1>2
  <2> HIDE DEF first
  <2> QED BY <1>1, <1>2, <2>1
<1>4. NUL \in Range(s)
    BY <1>1 DEF Range
<1>5. UpToNul(s) = SubSeq(s, 1, Len(s) - 1)
    BY <1>3, <1>4 DEF UpToNul
<1> DEFINE t == SubSeq(s, 1, Len(s) - 1)
<1>6. /\ Len(t) = Len(s) - 1 /\ DOMAIN t = 1..(Len(s) - 1)
      /\ \A k \in 1..(Len(s) - 1) : t[k] = s[k]
  <2> DEFINE n == Len(s) - 1
  <2>1. n \in 0..Len(s)
    BY <1>1
  <2> HIDE DEF n
  <2>2. /\ Len(SubSeq(s, 1, n)) = n /\ DOMAIN SubSeq(s, 1, n) = 1..n
        /\ \A k \in 1..n : SubSeq(s, 1, n)[k] = s[k]
    BY <2>1, FrontElements
  <2> QED BY <2>2 DEF n
<1>7. UpToNul(s) = t BY <1>5
<1> HIDE DEF t
<1>8. EndsWith(t, p, l, size)
  <2>1. /\ size + 1 <= Len(s)
        /\ \A k \in 1..(Len(s) - 1) :
              IF k <= Len(s) - 1 - size THEN s[k] \in Strays(p) ELSE s[k] = <<p, l>>
    BY DEF Carries
  <2>2. \A b \in Strays(p) : b[2] = 0 \/ b[1] # p
    BY DEF Strays
  <2>3. \A k \in 1..(Len(s) - 1) :
            IF k <= Len(t) - size THEN t[k][2] = 0 \/ t[k][1] # p ELSE t[k] = <<p, l>>
    BY <1>6, <2>1, <2>2
  <2> QED BY <1>1, <1>6, <2>1, <2>3 DEF EndsWith
<1> QED BY <1>7, <1>8

LEMMA ConcatAssociative ==
    \A s, t, u \in Seq(Bytes) : s \o (t \o u) = (s \o t) \o u
<1> SUFFICES ASSUME NEW s \in Seq(Bytes), NEW t \in Seq(Bytes), NEW u \in Seq(Bytes)
             PROVE  s \o (t \o u) = (s \o t) \o u
    OBVIOUS
<1> QED OBVIOUS

LEMMA StrayText ==
    ASSUME NEW p \in Peers, NEW q \in Peers, NEW l \in 0..MaxLines, NEW size \in Nat,
           l = 0 \/ q # p
    PROVE  Stray(Text(q, l, size), p)
BY DEF Text, Stray, Strays

LEMMA NoStray == \A p \in Peers : Stray(<<>>, p)
BY DEF Stray

LEMMA StrayMore ==
    ASSUME NEW p \in Peers, NEW s \in Seq(Bytes), NEW t \in Seq(Bytes),
           Stray(s, p), Stray(t, p)
    PROVE  Stray(s \o t, p)
BY ConcatElements DEF Stray

LEMMA StageInitial == BuffersInit => StageInv
BY ReplBuffersAssumption DEF BuffersInit, StageInv, Idle, AtPrompt, Stray

\* What is known of a session that is not served, and of the one that is.
LEMMA IdleFacts ==
    ASSUME BuffersInv, StageInv, NEW q \in Peers
    PROVE  /\ q # conn => q \in Idle /\ Stray(write_buf[q], q)
           /\ q = conn => q \in Served /\ phase[q] = "reading" /\ outbox[q] = <<>>
BY DEF StageInv, Idle, Served

\* A session that is not served and that a step leaves alone.
LEMMA IdleKept ==
    ASSUME BuffersInv, StageInv, NEW q \in Peers, q # conn, q # conn',
           /\ inbox'[q] = inbox[q] /\ outbox'[q] = outbox[q] /\ asked'[q] = asked[q]
           /\ due'[q] = due[q] /\ printed'[q] = printed[q]
           /\ write_buf'[q] = write_buf[q] \/ Stray(write_buf'[q], q)
           /\ \/ phase'[q] = phase[q]
              \/ phase[q] = "off" /\ phase'[q] = "prompt"
              \/ phase[q] = "prompt" /\ phase'[q] = "left"
    PROVE  q \in Idle'
<1>1. q \in Idle
    BY IdleFacts
<1>2. Stray(write_buf[q], q)
    BY <1>1 DEF Idle
<1>3. Stray(write_buf'[q], q)
    BY <1>2
<1>4. q \in AtPrompt => q \in AtPrompt'
    BY DEF AtPrompt
<1>5. q \in LineSent => q \in LineSent'
    BY DEF LineSent
<1>6. q \in AnswerSent => q \in AnswerSent'
    BY DEF AnswerSent
<1>7. CASE phase'[q] = phase[q]
    BY <1>1, <1>3, <1>4, <1>5, <1>6, <1>7 DEF Idle
<1>8. CASE phase[q] = "off" /\ phase'[q] = "prompt"
    BY <1>1, <1>3, <1>4, <1>8 DEF Idle
<1>9. CASE phase[q] = "prompt" /\ phase'[q] = "left"
  <2>1. inbox'[q] = <<>>
    BY <1>1, <1>9 DEF Idle, AtPrompt
  <2> QED BY <1>3, <1>9, <2>1 DEF Idle
<1> QED BY <1>7, <1>8, <1>9

\* A session that a step leaves alone, served or not.
LEMMA StageKept ==
    ASSUME BuffersInv, StageInv, NEW q \in Peers, UNCHANGED <<conn, line, stage>>,
           /\ inbox'[q] = inbox[q] /\ outbox'[q] = outbox[q] /\ asked'[q] = asked[q]
           /\ due'[q] = due[q] /\ printed'[q] = printed[q]
           /\ \/ write_buf'[q] = write_buf[q]
              \/ q # conn /\ Stray(write_buf'[q], q)
           /\ \/ phase'[q] = phase[q]
              \/ phase[q] = "off" /\ phase'[q] = "prompt"
              \/ phase[q] = "prompt" /\ phase'[q] = "left"
    PROVE  IF q = conn' THEN q \in Served' ELSE q \in Idle'
<1>1. CASE q # conn
    BY <1>1, IdleKept
<1>2. CASE q = conn
  <2>1. q \in Served
    BY <1>2, IdleFacts
  <2> QED BY <1>2, <2>1 DEF Served
<1> QED BY <1>1, <1>2

LEMMA ConnectStage ==
    ASSUME BuffersInv, StageInv, NEW p \in Peers, Connect(p) \/ Leave(p) \/ Free(p) \/ Collect(p)
    PROVE  StageInv'
<1> SUFFICES ASSUME NEW q \in Peers PROVE IF q = conn' THEN q \in Served' ELSE q \in Idle'
    BY DEF StageInv
<1>1. /\ UNCHANGED <<conn, line, stage, inbox, outbox, asked, due, printed>>
      /\ \/ phase'[q] = phase[q]
         \/ phase[q] = "off" /\ phase'[q] = "prompt"
         \/ phase[q] = "prompt" /\ phase'[q] = "left"
    BY DEF Connect, Leave, Free, Collect, turnVars, peerVars, BuffersInv, BuffersTypeOK
<1>2. write_buf'[q] = write_buf[q] \/ (stage = "select" /\ write_buf'[q] = <<>>)
    BY DEF Connect, Leave, Free, Collect, turnVars, peerVars, BuffersInv, BuffersTypeOK
<1>3. stage = "select" => q # conn
    BY ReplBuffersAssumption DEF BuffersInv, BuffersTypeOK
<1>4. \/ write_buf'[q] = write_buf[q]
      \/ q # conn /\ Stray(write_buf'[q], q)
    BY <1>2, <1>3, NoStray
<1> QED BY <1>1, <1>4, StageKept

LEMMA SendStage ==
    ASSUME BuffersInv, StageInv, NEW p \in Peers, SendLine(p)
    PROVE  StageInv'
<1> SUFFICES ASSUME NEW q \in Peers PROVE IF q = conn' THEN q \in Served' ELSE q \in Idle'
    BY DEF StageInv
<1>1. PICK size \in LineSizes :
          inbox' = [inbox EXCEPT ![p] = @ \o [j \in 1..size |-> asked'[p]]]
    BY DEF SendLine
<1>2. /\ asked' = [asked EXCEPT ![p] = @ + 1] /\ phase[p] = "prompt"
      /\ phase' = [phase EXCEPT ![p] = "reading"]
      /\ UNCHANGED <<conn, line, stage, write_buf, outbox, printed, due>>
    BY DEF SendLine, turnVars
<1>3. inbox \in [Peers -> Seq(0..MaxLines)] /\ asked \in [Peers -> 0..MaxLines]
      /\ MaxLines \in Nat /\ size \in Nat /\ phase \in [Peers -> {"off", "prompt", "reading", "left"}]
    BY ReplBuffersAssumption DEF BuffersInv, BuffersTypeOK
<1>4. CASE q # p
  <2>1. inbox'[q] = inbox[q] /\ asked'[q] = asked[q] /\ phase'[q] = phase[q]
    BY <1>1, <1>2, <1>3, <1>4
  <2> QED BY <1>2, <2>1, StageKept
<1>5. CASE q = p
  <2> DEFINE sent == [j \in 1..size |-> asked'[p]]
  <2>1. asked'[p] \in Int /\ sent \in Seq(Int)
    BY <1>2, <1>3
  <2>2. p # conn /\ p \in Idle
    BY <1>2, IdleFacts
  <2>3. inbox[p] = <<>> /\ outbox[p] = <<>> /\ Stray(write_buf[p], p)
    BY <1>2, <2>2 DEF Idle, AtPrompt
  <2>4. inbox'[p] = sent
    <3>1. inbox'[p] = <<>> \o sent
      BY <1>1, <1>3, <2>3
    <3> HIDE DEF sent
    <3> QED BY <2>1, <3>1
  <2>5. p \in LineSent'
    BY <1>2, <2>3, <2>4 DEF LineSent
  <2>6. asked'[p] > 0 /\ phase'[p] = "reading" /\ Stray(write_buf'[p], p)
    BY <1>2, <1>3, <2>3
  <2> QED BY <1>2, <1>5, <2>2, <2>5, <2>6 DEF Idle
<1> QED BY <1>4, <1>5

LEMMA ReadStage ==
    ASSUME BuffersInv, StageInv, NEW p \in Peers, ReadAnswer(p)
    PROVE  StageInv'
<1> SUFFICES ASSUME NEW q \in Peers PROVE IF q = conn' THEN q \in Served' ELSE q \in Idle'
    BY DEF StageInv
<1> DEFINE n == Least(BUFSIZE, Len(outbox[p]))
<1>1. /\ printed' = [printed EXCEPT ![p] = UpToNul(SubSeq(outbox[p], 1, n))]
      /\ outbox' = [outbox EXCEPT ![p] = SubSeq(@, n + 1, Len(@))]
      /\ phase' = [phase EXCEPT ![p] = "prompt"]
      /\ phase[p] = "reading" /\ outbox[p] # <<>>
      /\ UNCHANGED <<conn, line, stage, inbox, write_buf, asked, due>>
    BY DEF ReadAnswer, turnVars
<1>2. CASE q # p
  <2>1. /\ outbox'[q] = outbox[q] /\ printed'[q] = printed[q] /\ phase'[q] = phase[q]
    BY <1>1, <1>2 DEF BuffersInv, BuffersTypeOK
  <2> QED BY <1>1, <2>1, StageKept
<1>3. CASE q = p
  <2>1. p # conn /\ p \in Idle
    BY <1>1, IdleFacts
  <2>2. /\ p \in AnswerSent /\ Stray(write_buf[p], p) /\ asked[p] > 0
        /\ outbox[p] \in Seq(Bytes) /\ asked[p] \in 0..MaxLines /\ due[p] \in Nat \cup {-1}
    BY <1>1, <2>1 DEF Idle, LineSent, BuffersInv, BuffersTypeOK
  <2>3. Len(outbox[p]) \in Nat /\ n = Len(outbox[p])
    BY <2>2, ReplBuffersAssumption DEF AnswerSent, Least
  <2>4. SubSeq(outbox[p], 1, n) = outbox[p]
    BY <2>2, <2>3
  <2>5. SubSeq(outbox[p], n + 1, Len(outbox[p])) = <<>>
    BY <2>2, <2>3
  <2> HIDE DEF n
  <2>6. outbox'[p] = <<>> /\ printed'[p] = UpToNul(outbox[p]) /\ phase'[p] = "prompt"
    BY <1>1, <2>4, <2>5 DEF BuffersInv, BuffersTypeOK
  <2>7. due[p] >= 0 => EndsWith(printed'[p], p, asked[p], due[p])
    <3> SUFFICES ASSUME due[p] >= 0 PROVE EndsWith(printed'[p], p, asked[p], due[p])
        OBVIOUS
    <3>1. due[p] \in Nat
      BY <2>2
    <3>2. Carries(outbox[p], p, asked[p], due[p])
      BY <2>2 DEF AnswerSent
    <3> QED BY <2>2, <2>6, <3>1, <3>2, CarriedIsShown
  <2>8. p \in AtPrompt'
    BY <1>1, <2>2, <2>6, <2>7 DEF AtPrompt, AnswerSent
  <2> QED BY <1>1, <1>3, <2>1, <2>2, <2>6, <2>8 DEF Idle
<1> QED BY <1>2, <1>3

\* A line that fits is read as a whole.
LEMMA ServeStage ==
    ASSUME LinesFit, BuffersInv, StageInv, NEW p \in Peers, Serve(p)
    PROVE  StageInv'
<1> SUFFICES ASSUME NEW q \in Peers PROVE IF q = conn' THEN q \in Served' ELSE q \in Idle'
    BY DEF StageInv
<1> DEFINE n == TakeBytes(p)
<1>1. /\ inbox' = [inbox EXCEPT ![p] = SubSeq(inbox[p], n + 1, Len(inbox[p]))]
      /\ line' = inbox[p][n] /\ inbox[p] # <<>>
      /\ conn' = p /\ stage = "select" /\ stage' = "eval"
      /\ due' = [due EXCEPT ![p] = 0]
      /\ UNCHANGED <<write_buf, outbox, asked, phase, printed>>
    BY DEF Serve, peerVars
<1>2. q # conn
    BY <1>1, ReplBuffersAssumption DEF BuffersInv, BuffersTypeOK
<1>3. CASE q # p
  <2>1. inbox'[q] = inbox[q] /\ due'[q] = due[q]
    BY <1>1, <1>3 DEF BuffersInv, BuffersTypeOK
  <2> QED BY <1>1, <1>2, <1>3, <2>1, IdleKept
<1>4. CASE q = p
  <2>1. phase[p] \in {"off", "prompt", "reading", "left"}
    BY DEF BuffersInv, BuffersTypeOK
  <2>2. /\ phase[p] = "reading" /\ asked[p] > 0 /\ p \in LineSent
        /\ Stray(write_buf[p], p) /\ outbox[p] = <<>>
    BY <1>1, <1>2, <1>4, <2>1, IdleFacts DEF Idle, AtPrompt, LineSent, AnswerSent
  <2>3. PICK size \in LineSizes : inbox[p] = [j \in 1..size |-> asked[p]]
    BY <2>2 DEF LineSent
  <2>4. size \in Nat \ {0} /\ size <= BUFSIZE /\ BUFSIZE \in Nat /\ asked[p] \in 0..MaxLines
    BY ReplBuffersAssumption DEF LinesFit, BuffersInv, BuffersTypeOK
  <2>5. inbox[p] \in Seq(0..MaxLines) /\ Len(inbox[p]) = size
    <3> DEFINE last == asked[p]
    <3>1. last \in 0..MaxLines /\ size \in Nat /\ inbox[p] = [j \in 1..size |-> last]
      BY <2>3, <2>4
    <3> HIDE DEF last
    <3>2. [j \in 1..size |-> last] \in Seq(0..MaxLines)
          /\ Len([j \in 1..size |-> last]) = size
      BY <3>1, Repeated
    <3> QED BY <3>1, <3>2
  <2>6. n = size
    BY <2>4, <2>5 DEF TakeBytes, Least
  <2>7. line' = asked[p]
    BY <1>1, <2>3, <2>4, <2>6
  <2>8. SubSeq(inbox[p], n + 1, Len(inbox[p])) = <<>>
    BY <2>4, <2>5, <2>6
  <2> HIDE DEF n
  <2>9. inbox'[p] = <<>> /\ due'[p] = 0
    BY <1>1, <2>8 DEF BuffersInv, BuffersTypeOK
  <2>10. Ends(write_buf[p], p, line', 0)
    <3>1. write_buf[p] \in Seq(Bytes)
      BY DEF BuffersInv, BuffersTypeOK
    <3> QED BY <2>2, <3>1 DEF Ends, Stray
  <2> QED BY <1>1, <1>4, <2>2, <2>7, <2>9, <2>10 DEF Served
<1> QED BY <1>3, <1>4

\* What keys and hooks print is marked as such.
LEMMA KeyOutputStage ==
    ASSUME BuffersInv, StageInv, KeyOutput
    PROVE  StageInv'
<1> SUFFICES ASSUME NEW r \in Peers PROVE IF r = conn' THEN r \in Served' ELSE r \in Idle'
    BY DEF StageInv
<1>1. /\ status = "running" /\ stage = "select" /\ output_port \in Peers
      /\ UNCHANGED <<conn, line, stage, inbox, outbox, asked, phase, printed, due>>
    BY DEF KeyOutput, turnVars, peerVars, BuffersInv, BuffersTypeOK
<1>2. r # conn
    BY <1>1, ReplBuffersAssumption DEF BuffersInv, BuffersTypeOK
<1>3. PICK size \in KeyOutputs : io_buffer_port_write(Text(output_port, 0, size))
    BY DEF KeyOutput
<1> DEFINE text == Text(output_port, 0, size)
<1>4. text \in Seq(Bytes) /\ Stray(text, r)
  <2>1. size \in Nat /\ 0 \in 0..MaxLines
    BY ReplBuffersAssumption
  <2> QED BY <1>1, <2>1, TextElements, StrayText
<1>5. UNCHANGED write_buf \/ \E q \in Peers : Into(q, text)
    BY <1>1, <1>3, PortWriteGoes
<1> HIDE DEF text
<1>6. write_buf'[r] = write_buf[r] \/ write_buf'[r] = write_buf[r] \o text
    BY <1>5 DEF Into, io_buffer_write, BuffersInv, BuffersTypeOK
<1>7. Stray(write_buf[r] \o text, r)
  <2>1. write_buf[r] \in Seq(Bytes) /\ Stray(write_buf[r], r)
    BY <1>2, IdleFacts, SessionFacts
  <2> QED BY <1>4, <2>1, StrayMore
<1>8. write_buf'[r] = write_buf[r] \/ (r # conn /\ Stray(write_buf'[r], r))
    BY <1>2, <1>6, <1>7
<1> QED BY <1>1, <1>8, StageKept

\* The text so far, when more of it is put into the buffer of the connection.
LEMMA ServedFacts ==
    ASSUME BuffersInv, StageInv, conn \in Peers, due[conn] >= 0, stage # "reply"
    PROVE  /\ due[conn] \in Nat /\ line \in 0..MaxLines
           /\ write_buf[conn] \in Seq(Bytes) /\ Ends(write_buf[conn], conn, line, due[conn])
<1>1. conn \in Served
    BY IdleFacts
<1> QED BY <1>1 DEF Served, BuffersInv, BuffersTypeOK

LEMMA ServedGoesOn ==
    ASSUME BuffersInv, StageInv, conn \in Peers, UNCHANGED <<conn, line>>,
           inbox'[conn] = inbox[conn], outbox'[conn] = outbox[conn],
           asked'[conn] = asked[conn], phase'[conn] = phase[conn],
           due'[conn] >= 0 => IF stage' = "reply"
                              THEN Carries(write_buf'[conn], conn, line, due'[conn])
                              ELSE Ends(write_buf'[conn], conn, line, due'[conn])
    PROVE  conn \in Served'
<1>1. conn \in Served
    BY IdleFacts
<1> QED BY <1>1 DEF Served

\* What the expression prints grows behind the strays of its own connection; in
\* the buffer of another it is a stray itself, and the answer is not whole.
LEMMA DisplayStage ==
    ASSUME BuffersInv, StageInv, Display
    PROVE  StageInv'
<1> SUFFICES ASSUME NEW r \in Peers PROVE IF r = conn' THEN r \in Served' ELSE r \in Idle'
    BY DEF StageInv
<1>1. /\ conn \in Peers /\ line \in 0..MaxLines
      /\ UNCHANGED <<inbox, outbox, conn, line, stage, asked, phase, printed>>
    BY DisplayGoes
<1>2. PICK size \in Outputs :
        /\ Counted(size, output_port = conn /\ Len(write_buf[conn]) + size <= BUFSIZE)
        /\ \/ UNCHANGED write_buf /\ output_port # conn
           \/ \E q \in Peers : /\ Into(q, Text(conn, line, size))
                               /\ q = conn \/ (conn \in Lost /\ output_port # conn)
                               /\ output_port = conn => q = conn
    BY DisplayGoes, Zenon
<1> DEFINE text == Text(conn, line, size)
<1>3. size \in Nat
    BY ReplBuffersAssumption
<1>4. text \in Seq(Bytes) /\ Len(text) = size
    BY <1>1, <1>3, TextElements
<1>5. CASE r # conn
  <2>1. due'[r] = due[r]
    BY <1>1, <1>2, <1>5 DEF Counted, BuffersInv, BuffersTypeOK
  <2>2. Stray(text, r)
    BY <1>1, <1>3, <1>5, StrayText
  <2> HIDE DEF text
  <2>3. write_buf'[r] = write_buf[r] \/ write_buf'[r] = write_buf[r] \o text
    BY <1>2 DEF Into, io_buffer_write, BuffersInv, BuffersTypeOK, text
  <2>4. Stray(write_buf[r] \o text, r)
    <3>1. write_buf[r] \in Seq(Bytes) /\ Stray(write_buf[r], r)
      BY <1>5, IdleFacts, SessionFacts
    <3> QED BY <1>4, <2>2, <3>1, StrayMore
  <2>5. write_buf'[r] = write_buf[r] \/ (r # conn /\ Stray(write_buf'[r], r))
    BY <1>5, <2>3, <2>4
  <2> QED BY <1>1, <2>1, <2>5, StageKept
<1>6. CASE r = conn
  <2>1. /\ stage = "eval"
        /\ due'[conn] = IF (output_port = conn /\ Len(write_buf[conn]) + size <= BUFSIZE)
                           /\ due[conn] >= 0
                        THEN due[conn] + size ELSE -1
    BY <1>1, <1>2 DEF Display, Counted, BuffersInv, BuffersTypeOK
  <2>2. ASSUME due'[conn] >= 0 PROVE Ends(write_buf'[conn], conn, line, due'[conn])
    <3>1. /\ due[conn] >= 0 /\ due'[conn] = due[conn] + size
          /\ output_port = conn /\ Len(write_buf[conn]) + size <= BUFSIZE
      BY <2>1, <2>2
    <3>2. Into(conn, text)
      BY <1>2, <3>1
    <3> HIDE DEF text
    <3>3. write_buf'[conn] = write_buf[conn] \o text
      BY <1>1, <1>4, <3>1, <3>2 DEF Into, io_buffer_write, BuffersInv, BuffersTypeOK
    <3>4. /\ due[conn] \in Nat /\ write_buf[conn] \in Seq(Bytes)
          /\ Ends(write_buf[conn], conn, line, due[conn])
      BY <1>1, <2>1, <3>1, ServedFacts
    <3>5. Ends(write_buf[conn] \o text, conn, line, due[conn] + size)
      BY <1>1, <1>3, <3>4, EndsMore DEF text
    <3> QED BY <3>1, <3>3, <3>5
  <2>3. stage' # "reply"
    BY <1>1, <2>1
  <2> QED BY <1>1, <1>6, <2>2, <2>3, ServedGoesOn
<1> QED BY <1>5, <1>6

\* Put writes into the buffer of the connection and counts.
LEMMA PutFacts ==
    ASSUME BuffersInv, StageInv, conn \in Peers, NEW bytes \in Seq(Bytes), NEW size \in Nat,
           NEW next, Put(bytes, size, next), stage # "reply"
    PROVE  /\ stage' = next
           /\ UNCHANGED <<inbox, outbox, conn, line, asked, phase, printed>>
           /\ \A q \in Peers \ {conn} : q \in Idle'
           /\ due'[conn] >= 0 =>
                 /\ due[conn] >= 0 /\ due'[conn] = due[conn] + size
                 /\ write_buf'[conn] = write_buf[conn] \o bytes
<1>1. /\ write_buf' = [write_buf EXCEPT ![conn] = io_buffer_write(@, bytes)]
      /\ Counted(size, Len(write_buf[conn]) + Len(bytes) <= BUFSIZE)
      /\ stage' = next /\ UNCHANGED <<inbox, outbox, conn, line, asked, phase, printed>>
    BY DEF Put, peerVars
<1>2. /\ due'[conn] = IF Len(write_buf[conn]) + Len(bytes) <= BUFSIZE /\ due[conn] >= 0
                      THEN due[conn] + size ELSE -1
      /\ \A q \in Peers \ {conn} : due'[q] = due[q] /\ write_buf'[q] = write_buf[q]
    BY <1>1 DEF Counted, BuffersInv, BuffersTypeOK
<1>3. ASSUME NEW q \in Peers \ {conn} PROVE q \in Idle'
    BY <1>1, <1>2, IdleKept
<1>4. ASSUME due'[conn] >= 0
      PROVE  /\ due[conn] >= 0 /\ due'[conn] = due[conn] + size
             /\ write_buf'[conn] = write_buf[conn] \o bytes
  <2>1. /\ due[conn] >= 0 /\ due'[conn] = due[conn] + size
        /\ Len(write_buf[conn]) + Len(bytes) <= BUFSIZE
    BY <1>2, <1>4
  <2> QED BY <1>1, <2>1 DEF io_buffer_write, BuffersInv, BuffersTypeOK
<1> QED BY <1>1, <1>3, <1>4

LEMMA ResultStage ==
    ASSUME BuffersInv, StageInv, Result
    PROVE  StageInv'
<1>1. conn \in Peers /\ stage = "eval" /\ stage # "reply" /\ line \in 0..MaxLines
    BY DEF Result, BuffersInv, BuffersTypeOK
<1>2. PICK size \in Values : IF size = 0 THEN Put(<<NUL>>, 0, "reply")
                             ELSE Put(Text(conn, line, size), size, "newline")
    BY DEF Result
<1>3. size \in Nat /\ 0 \in Nat
    BY ReplBuffersAssumption
<1>4. CASE size = 0
  <2> DEFINE end == <<NUL>>
  <2>1. end \in Seq(Bytes)
    BY DEF Bytes
  <2>2. Put(end, 0, "reply")
    BY <1>2, <1>4
  <2> HIDE DEF end
  <2>3. /\ stage' = "reply" /\ UNCHANGED <<inbox, outbox, conn, line, asked, phase, printed>>
        /\ \A q \in Peers \ {conn} : q \in Idle'
        /\ due'[conn] >= 0 => /\ due[conn] >= 0 /\ due'[conn] = due[conn] + 0
                              /\ write_buf'[conn] = write_buf[conn] \o end
    BY <1>1, <1>3, <2>1, <2>2, PutFacts
  <2>4. ASSUME due'[conn] >= 0 PROVE Carries(write_buf'[conn], conn, line, due'[conn])
    <3>1. /\ due[conn] \in Nat /\ write_buf[conn] \in Seq(Bytes)
          /\ Ends(write_buf[conn], conn, line, due[conn])
      BY <1>1, <2>3, <2>4, ServedFacts
    <3>2. Carries(write_buf[conn] \o end, conn, line, due[conn])
      BY <1>1, <3>1, EndsNul DEF end
    <3>3. due'[conn] = due[conn] /\ write_buf'[conn] = write_buf[conn] \o end
      BY <2>3, <2>4, <3>1
    <3> HIDE DEF end
    <3> QED BY <3>2, <3>3
  <2>5. conn \in Served'
    BY <1>1, <2>3, <2>4, ServedGoesOn
  <2> QED BY <2>3, <2>5 DEF StageInv
<1>5. CASE size # 0
  <2> DEFINE text == Text(conn, line, size)
  <2>1. text \in Seq(Bytes)
    BY <1>1, <1>3, TextElements
  <2>2. Put(text, size, "newline")
    BY <1>2, <1>5
  <2> HIDE DEF text
  <2>3. /\ stage' = "newline" /\ UNCHANGED <<inbox, outbox, conn, line, asked, phase, printed>>
        /\ \A q \in Peers \ {conn} : q \in Idle'
        /\ due'[conn] >= 0 => /\ due[conn] >= 0 /\ due'[conn] = due[conn] + size
                              /\ write_buf'[conn] = write_buf[conn] \o text
    BY <1>1, <1>3, <2>1, <2>2, PutFacts
  <2>4. ASSUME due'[conn] >= 0 PROVE Ends(write_buf'[conn], conn, line, due'[conn])
    <3>1. /\ due[conn] \in Nat /\ write_buf[conn] \in Seq(Bytes)
          /\ Ends(write_buf[conn], conn, line, due[conn])
      BY <1>1, <2>3, <2>4, ServedFacts
    <3>2. Ends(write_buf[conn] \o text, conn, line, due[conn] + size)
      BY <1>1, <1>3, <3>1, EndsMore DEF text
    <3> QED BY <2>3, <2>4, <3>2
  <2>5. conn \in Served'
    BY <1>1, <2>3, <2>4, ServedGoesOn
  <2> QED BY <2>3, <2>5 DEF StageInv
<1> QED BY <1>4, <1>5

LEMMA NewlineStage ==
    ASSUME BuffersInv, StageInv, Newline
    PROVE  StageInv'
<1>1. conn \in Peers /\ stage = "newline" /\ stage # "reply" /\ line \in 0..MaxLines /\ 1 \in Nat
    BY DEF Newline, BuffersInv, BuffersTypeOK
<1> DEFINE text == Text(conn, line, 1)
           end == text \o <<NUL>>
<1>2. text \in Seq(Bytes)
    BY <1>1, TextElements
<1>3. end \in Seq(Bytes)
    BY <1>2, NulAppended
<1>4. Put(end, 1, "reply")
    BY DEF Newline
<1> HIDE DEF text, end
<1>5. /\ stage' = "reply" /\ UNCHANGED <<inbox, outbox, conn, line, asked, phase, printed>>
      /\ \A q \in Peers \ {conn} : q \in Idle'
      /\ due'[conn] >= 0 => /\ due[conn] >= 0 /\ due'[conn] = due[conn] + 1
                            /\ write_buf'[conn] = write_buf[conn] \o end
    BY <1>1, <1>3, <1>4, PutFacts
<1>6. ASSUME due'[conn] >= 0 PROVE Carries(write_buf'[conn], conn, line, due'[conn])
  <2>1. /\ due[conn] \in Nat /\ write_buf[conn] \in Seq(Bytes)
        /\ Ends(write_buf[conn], conn, line, due[conn])
    BY <1>1, <1>5, <1>6, ServedFacts
  <2> DEFINE ended == write_buf[conn] \o text
  <2>2. Ends(ended, conn, line, due[conn] + 1)
    BY <1>1, <2>1, EndsMore DEF text
  <2>3. write_buf[conn] \o end = ended \o <<NUL>>
    <3> DEFINE nul == <<NUL>>
    <3>1. nul \in Seq(Bytes)
      BY DEF Bytes
    <3> DEFINE buf == write_buf[conn]
    <3>2. buf \in Seq(Bytes)
      BY <2>1
    <3> HIDE DEF buf, nul, ended
    <3>3. buf \o (text \o nul) = (buf \o text) \o nul
      BY <1>2, <3>1, <3>2, ConcatAssociative
    <3> QED BY <3>3 DEF end, nul, ended, buf
  <2> HIDE DEF ended
  <2>4. ended \in Seq(Bytes) /\ due[conn] + 1 \in Nat
    BY <2>1, <2>2 DEF Ends
  <2>5. Carries(ended \o <<NUL>>, conn, line, due[conn] + 1)
    BY <1>1, <2>2, <2>4, EndsNul
  <2>6. /\ due'[conn] = due[conn] + 1
        /\ write_buf'[conn] = ended \o <<NUL>>
    BY <1>5, <1>6, <2>3
  <2> QED BY <2>5, <2>6
<1>7. conn \in Served'
    BY <1>1, <1>5, <1>6, ServedGoesOn
<1> QED BY <1>5, <1>7 DEF StageInv

\* The answer is sent, and the buffer is empty.
LEMMA ReplyStage ==
    ASSUME BuffersInv, StageInv, repl_conn_write
    PROVE  StageInv'
<1>1. /\ conn \in Peers /\ stage = "reply"
      /\ outbox' = [outbox EXCEPT ![conn] = outbox[conn] \o write_buf[conn]]
      /\ write_buf' = [write_buf EXCEPT ![conn] = <<>>]
      /\ conn' = None /\ UNCHANGED <<inbox, asked, phase, printed, due>>
    BY DEF repl_conn_write, peerVars, BuffersInv, BuffersTypeOK
<1> SUFFICES ASSUME NEW r \in Peers PROVE r \in Idle'
    BY <1>1, ReplBuffersAssumption DEF StageInv
<1>2. CASE r # conn
  <2>1. outbox'[r] = outbox[r] /\ write_buf'[r] = write_buf[r]
    BY <1>1, <1>2 DEF BuffersInv, BuffersTypeOK
  <2> QED BY <1>1, <1>2, <2>1, ReplBuffersAssumption, IdleKept
<1>3. CASE r = conn
  <2>1. r \in Served /\ outbox[r] = <<>>
    BY <1>3, IdleFacts
  <2>2. write_buf[r] \in Seq(Bytes) /\ Len(write_buf[r]) <= BUFSIZE
    BY SessionFacts
  <2>3. outbox'[r] = write_buf[r] /\ write_buf'[r] = <<>>
    <3>1. outbox'[r] = <<>> \o write_buf[r] /\ write_buf'[r] = <<>>
      BY <1>1, <1>3, <2>1 DEF BuffersInv, BuffersTypeOK
    <3> QED BY <2>2, <3>1
  <2>4. r \in AnswerSent'
    BY <1>1, <2>1, <2>2, <2>3 DEF Served, AnswerSent
  <2> QED BY <1>1, <2>1, <2>3, <2>4, NoStray DEF Idle, Served
<1> QED BY <1>2, <1>3

\* When every line fits the buffer of the connection, an answer whose parts have
\* found room is shown whole and at its own prompt, behind the strays.
THEOREM AnswersAreWhole ==
    ASSUME LinesFit
    PROVE  BuffersSpec => []AnswerShownWhole
<1>1. BuffersInv /\ StageInv /\ [BuffersNext]_rvars => StageInv'
  <2> SUFFICES ASSUME BuffersInv, StageInv, [BuffersNext]_rvars PROVE StageInv'
      OBVIOUS
  <2>1. ASSUME NEW p \in Peers, SendLine(p) \/ ReadAnswer(p) \/ Leave(p) PROVE StageInv'
    BY <2>1, ConnectStage, SendStage, ReadStage
  <2>2. ASSUME NEW p \in Peers, Connect(p) \/ Collect(p) \/ Serve(p) \/ Free(p)
        PROVE  StageInv'
    BY <2>2, ConnectStage, ServeStage
  <2>3. CASE Evaluation
    BY <2>3, DisplayStage, ResultStage, NewlineStage, ReplyStage DEF Evaluation
  <2>4. CASE KeyOutput
    BY <2>4, KeyOutputStage
  <2>5. CASE Rest \/ UNCHANGED rvars
    <3>1. UNCHANGED <<conn, line, stage, inbox, write_buf, outbox, asked, phase, printed, due>>
      BY <2>5 DEF Rest, rvars, turnVars, peerVars
    <3> QED BY <3>1, StageKept DEF StageInv
  <2> QED BY <2>1, <2>2, <2>3, <2>4, <2>5 DEF BuffersNext
<1>2. BuffersInv /\ StageInv => AnswerShownWhole
  <2> SUFFICES ASSUME BuffersInv, StageInv, NEW p \in Peers, phase[p] = "prompt",
                      asked[p] > 0, due[p] >= 0
               PROVE  EndsWith(printed[p], p, asked[p], due[p])
      BY DEF AnswerShownWhole
  <2>1. p \in Idle
    BY IdleFacts
  <2> QED BY <2>1 DEF Idle, AtPrompt
<1> QED BY <1>1, <1>2, BuffersInvariant, StageInitial, PTL DEF BuffersSpec
=============================================================================
