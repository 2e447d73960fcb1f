---------------------------- MODULE StartupProofs ----------------------------
(***************************************************************************)
(* Proofs about Startup: of any number of nwm processes, one at most gets  *)
(* past the check, the socket is its own, and no map request is lost to    *)
(* handlers that are not set yet.                                          *)
(*                                                                         *)
(* The argument follows the grab of the server.  From the moment the server*)
(* has taken it until it takes the release, nothing but the process that   *)
(* holds it can change whom the root window is redirected to; so what the  *)
(* answer to the claim says still holds when the process reads it.         *)
(*                                                                         *)
(* And proofs about EventDispatch, which has the handlers that main() sets *)
(* for the check and after it.                                             *)
(***************************************************************************)
EXTENDS Startup, EventDispatch, TLAPS

Apart(w) == redirect # w /\ grabbed # w

\* The server has answered: the claim is w's, or there is an error about it.
Answered(w) ==
    /\ out[w] = <<>> /\ grabbed = w
    /\ \/ redirect = w /\ in[w] = <<>>
       \/ redirect # w /\ in[w] = <<"error">>

\* What is known of a process at each place of main().
Outside(w) ==
    pc[w] \in {"off", "begin", "gone"} =>
        out[w] = <<>> /\ in[w] = <<>> /\ Apart(w)

Claiming(w) ==
    pc[w] = "sync" =>
        \/ out[w] = <<"grab", "claim">> /\ in[w] = <<>> /\ Apart(w)
        \/ out[w] = <<"claim">> /\ in[w] = <<>> /\ grabbed = w /\ redirect # w
        \/ Answered(w)

Checking(w) == pc[w] = "poll" => Answered(w)

Claimed(w) ==
    pc[w] \in {"scan", "select"} => out[w] = <<>> /\ redirect = w /\ grabbed = w

Releasing(w) ==
    pc[w] \in {"unlink", "bind", "load", "loop"} =>
        /\ redirect = w
        /\ \/ out[w] = <<>>
           \/ grabbed = w /\ out[w] \in {<<"select", "ungrab">>, <<"ungrab">>}

Listening(w) == pc[w] \in {"load", "loop"} => sock = w

Process(w) ==
    Outside(w) /\ Claiming(w) /\ Checking(w) /\ Claimed(w) /\ Releasing(w)
    /\ Listening(w)

StartupInv == StartupTypeOK /\ \A w \in Wms : Process(w)

----------------------------------------------------------------------------
LEMMA Requests ==
    /\ <<>> \o <<"grab", "claim">> = <<"grab", "claim">>
    /\ <<>> \o <<"select", "ungrab">> = <<"select", "ungrab">>
    /\ Head(<<"grab", "claim">>) = "grab" /\ Tail(<<"grab", "claim">>) = <<"claim">>
    /\ Head(<<"claim">>) = "claim" /\ Tail(<<"claim">>) = <<>>
    /\ Head(<<"select", "ungrab">>) = "select"
    /\ Tail(<<"select", "ungrab">>) = <<"ungrab">>
    /\ Head(<<"ungrab">>) = "ungrab" /\ Tail(<<"ungrab">>) = <<>>
    /\ Append(<<>>, "error") = <<"error">> /\ Head(<<"error">>) = "error"
    /\ <<"grab", "claim">> # <<>> /\ <<"claim">> # <<>> /\ <<"error">> # <<>>
    /\ <<"select", "ungrab">> # <<>> /\ <<"ungrab">> # <<>>
OBVIOUS

LEMMA SeqParts ==
    ASSUME NEW S, NEW s \in Seq(S), s # <<>>
    PROVE  Head(s) \in S /\ Tail(s) \in Seq(S)
OBVIOUS

LEMMA SeqJoins ==
    ASSUME NEW S, NEW s \in Seq(S), NEW t \in Seq(S), NEW e \in S
    PROVE  s \o t \in Seq(S) /\ Append(s, e) \in Seq(S)
OBVIOUS

LEMMA StartupInitial == StartupInit => StartupInv
BY StartupAssumption DEF StartupInit, StartupInv, StartupTypeOK, Process, Outside, Claiming,
   Checking, Claimed, Releasing, Listening, Apart, Steps

LEMMA StartupTypes == StartupTypeOK /\ [StartupNext]_svars => StartupTypeOK'
<1> SUFFICES ASSUME StartupTypeOK, [StartupNext]_svars PROVE StartupTypeOK'
    OBVIOUS
<1> DEFINE Request == {"grab", "claim", "select", "ungrab"}
<1> USE StartupAssumption DEF StartupTypeOK
<1>1. ASSUME NEW w \in Wms, Disconnect(w) PROVE StartupTypeOK'
    BY <1>1 DEF Disconnect, Unless
<1>2. ASSUME NEW w \in Wms, TakeRequest(w) PROVE StartupTypeOK'
  <2>1. out' \in [Wms -> Seq(Request)]
    <3>1. out' = [out EXCEPT ![w] = Tail(@)] /\ out[w] # <<>>
      BY <1>2, Zenon DEF TakeRequest
    <3>2. out \in [Wms -> Seq(Request)]
      OBVIOUS
    <3> HIDE DEF Request, StartupTypeOK
    <3>3. Tail(out[w]) \in Seq(Request)
      BY <3>1, <3>2, SeqParts
    <3> QED BY <3>1, <3>2, <3>3
  <2>2. Append(in[w], "error") \in Seq(Windows \cup {"error"})
    BY SeqJoins
  <2>3. in' \in [Wms -> Seq(Windows \cup {"error"})]
    <3>1. in' = in \/ in' = [in EXCEPT ![w] = Append(@, "error")]
      BY <1>2, Zenon DEF TakeRequest, Redirect
    <3> DEFINE Inboxes == Seq(Windows \cup {"error"})
    <3>2. in \in [Wms -> Inboxes] /\ Append(in[w], "error") \in Inboxes
      BY <2>2
    <3> HIDE DEF Inboxes, StartupTypeOK
    <3>3. in' \in [Wms -> Inboxes]
      BY <3>1, <3>2
    <3> QED BY <3>3 DEF Inboxes
  <2>4. grabbed' \in Wms \cup {None} /\ redirect' \in Wms \cup {None}
    BY <1>2 DEF TakeRequest, Redirect
  <2> QED BY <1>2, <2>1, <2>3, <2>4 DEF TakeRequest
<1>3. ASSUME NEW x \in Windows, AskToMap(x) \/ TakeMap(x) PROVE StartupTypeOK'
  <2>1. CASE redirect \in Wms
    <3>1. Append(in[redirect], x) \in Seq(Windows \cup {"error"})
      BY <2>1, SeqJoins
    <3>2. in' = in \/ in' = [in EXCEPT ![redirect] = Append(@, x)]
      BY <1>3, Zenon DEF AskToMap, TakeMap
    <3>3. in' \in [Wms -> Seq(Windows \cup {"error"})]
      <4> DEFINE Inboxes == Seq(Windows \cup {"error"})
      <4>1. in \in [Wms -> Inboxes] /\ Append(in[redirect], x) \in Inboxes
        BY <3>1
      <4> HIDE DEF Inboxes, StartupTypeOK
      <4>2. in' \in [Wms -> Inboxes]
        BY <2>1, <3>2, <4>1
      <4> QED BY <4>2 DEF Inboxes
    <3>4. UNCHANGED <<pc, out, loaded, grabbed, redirect, conf_dir, sock>>
      BY <1>3, Zenon DEF AskToMap, TakeMap
    <3>5. screen' \in [Windows -> {"none", "calling", "asked", "mapped"}]
      <4>1. PICK to \in {"calling", "asked", "mapped"} : screen' = [screen EXCEPT ![x] = to]
        BY <1>3, Zenon DEF AskToMap, TakeMap
      <4> QED BY <4>1
    <3>6. asked' \in [Windows -> Wms \cup {None}]
      <4>1. asked' = asked \/ asked' = [asked EXCEPT ![x] = redirect]
        BY <1>3, Zenon DEF AskToMap, TakeMap
      <4> QED BY <2>1, <4>1
    <3> QED BY <3>3, <3>4, <3>5, <3>6
  <2>2. CASE redirect = None
    BY <1>3, <2>2 DEF AskToMap, TakeMap
  <2> QED BY <2>1, <2>2
<1>4. ASSUME NEW w \in Wms, Begin(w) \/ Claim(w) \/ Sync(w) PROVE StartupTypeOK'
  <2>1. out[w] \o <<"grab", "claim">> \in Seq(Request)
    BY SeqJoins
  <2>2. out' \in [Wms -> Seq(Request)]
    <3>1. out' = out \/ out' = [out EXCEPT ![w] = @ \o <<"grab", "claim">>]
      BY <1>4, Zenon DEF Begin, Claim, Sync, Sends
    <3>2. out \in [Wms -> Seq(Request)]
      OBVIOUS
    <3> HIDE DEF Request, StartupTypeOK
    <3> QED BY <2>1, <3>1, <3>2
  <2>3. pc' \in [Wms -> Steps \cup {"off", "gone"}]
    <3>1. PICK to \in {"begin", "sync", "poll"} : pc' = [pc EXCEPT ![w] = to]
      BY <1>4, Zenon DEF Begin, Claim, Sync, Moves
    <3> QED BY <3>1 DEF Steps
  <2>4. /\ in' = in /\ loaded' = loaded /\ grabbed' = grabbed
        /\ redirect' = redirect /\ screen' = screen /\ asked' = asked /\ sock' = sock
    BY <1>4, Zenon DEF Begin, Claim, Sync
  <2>5. conf_dir' \in {"there", "missing", "unusable"}
    <3>1. conf_dir' \in {conf_dir, "there", "missing"}
      BY <1>4, Zenon DEF Begin, Claim, Sync, init_conf_dir
    <3> QED BY <3>1
  <2> QED BY <2>2, <2>3, <2>4, <2>5
<1>5. ASSUME NEW w \in Wms, Poll(w) PROVE StartupTypeOK'
  <2>1. CASE in[w] # <<>> /\ Head(in[w]) = "error"
    BY <1>1, <1>5, <2>1 DEF Poll
  <2>2. CASE in[w] # <<>> /\ Head(in[w]) # "error"
    <3>1. Tail(in[w]) \in Seq(Windows \cup {"error"})
      BY <2>2, SeqParts
    <3>2. in' = [in EXCEPT ![w] = Tail(@)]
          /\ UNCHANGED <<pc, out, loaded, grabbed, redirect, screen, asked, conf_dir, sock>>
      BY <1>5, <2>2 DEF Poll
    <3> QED BY <3>1, <3>2
  <2>3. CASE in[w] = <<>>
    BY <1>5, <2>3 DEF Poll, Moves, Steps
  <2> QED BY <2>1, <2>2, <2>3
<1>6. ASSUME NEW w \in Wms, Scan(w) \/ Select(w) PROVE StartupTypeOK'
  <2>1. out[w] \o <<"select", "ungrab">> \in Seq(Request)
    BY SeqJoins
  <2>2a. out' = out \/ out' = [out EXCEPT ![w] = @ \o <<"select", "ungrab">>]
    BY <1>6 DEF Scan, Select, Sends
  <2>2. out' \in [Wms -> Seq(Request)]
    <3> DEFINE Outboxes == Seq(Request)
    <3>1. out \in [Wms -> Outboxes] /\ out[w] \o <<"select", "ungrab">> \in Outboxes
      BY <2>1
    <3> HIDE DEF Outboxes, StartupTypeOK
    <3>2. out' \in [Wms -> Outboxes]
      BY <2>2a, <3>1
    <3> QED BY <3>2 DEF Outboxes
  <2>3. pc' \in [Wms -> Steps \cup {"off", "gone"}]
    <3>1. PICK to \in {"select", "unlink"} : pc' = [pc EXCEPT ![w] = to]
      BY <1>6, Zenon DEF Scan, Select, Moves
    <3> QED BY <3>1 DEF Steps
  <2> QED BY <1>6, <2>2, <2>3 DEF Scan, Select
<1>7. ASSUME NEW w \in Wms, Unlink(w) \/ Bind(w) PROVE StartupTypeOK'
    BY <1>1, <1>7 DEF Unlink, Bind, Moves, Steps
<1>8. ASSUME NEW w \in Wms, load_init_scheme(w) PROVE StartupTypeOK'
    BY <1>8 DEF load_init_scheme, Moves, Steps
<1>9. ASSUME NEW w \in Wms, Handle(w) PROVE StartupTypeOK'
  <2>1. Head(in[w]) \in Windows \cup {"error"} /\ Tail(in[w]) \in Seq(Windows \cup {"error"})
    BY <1>9, SeqParts DEF Handle
  <2> QED BY <1>9, <2>1 DEF Handle
<1>10. ASSUME NEW w \in Wms, Stop(w) \/ Crash(w) PROVE StartupTypeOK'
    BY <1>1, <1>10 DEF Stop, Crash
<1>11. CASE UNCHANGED svars
    BY <1>11 DEF svars
<1> QED BY <1>2, <1>3, <1>4, <1>5, <1>6, <1>7, <1>8, <1>9, <1>10, <1>11
        DEF StartupNext, Main, Rest

----------------------------------------------------------------------------
\* What is said of a process that a step does not move.
LEMMA Bystander ==
    ASSUME StartupTypeOK, NEW v \in Wms, Process(v),
           pc'[v] = pc[v], out'[v] = out[v], in'[v] = in[v],
           grabbed' = v <=> grabbed = v, redirect' = v <=> redirect = v,
           pc[v] \in {"load", "loop"} /\ sock = v => sock' = v
    PROVE  Process(v)'
BY DEF Process, Outside, Claiming, Checking, Claimed, Releasing, Listening, Apart, Answered

\* A process that ends takes its grab and its redirection along.
LEMMA Ending ==
    ASSUME StartupInv, NEW w \in Wms, Disconnect(w)
    PROVE  \A v \in Wms : Process(v)'
<1> SUFFICES ASSUME NEW v \in Wms PROVE Process(v)'
    OBVIOUS
<1>1. StartupTypeOK /\ Process(v)
    BY DEF StartupInv
<1>2. CASE v = w
  <2>1. /\ pc'[w] = "gone" /\ out'[w] = <<>> /\ in'[w] = <<>>
        /\ grabbed' # w /\ redirect' # w
    BY <1>1, StartupAssumption DEF Disconnect, Unless, StartupTypeOK
  <2> QED BY <1>2, <2>1 DEF Process, Outside, Claiming, Checking, Claimed, Releasing,
             Listening, Apart
<1>3. CASE v # w
  <2>1. pc'[v] = pc[v] /\ out'[v] = out[v] /\ in'[v] = in[v] /\ sock' = sock
    BY <1>1, <1>3 DEF Disconnect, StartupTypeOK
  <2>2. (grabbed' = v <=> grabbed = v) /\ (redirect' = v <=> redirect = v)
    BY <1>3, StartupAssumption DEF Disconnect, Unless
  <2> QED BY <1>1, <2>1, <2>2, Bystander
<1> QED BY <1>2, <1>3

\* The server takes a request: only of the process that has grabbed it, or
\* that grabs it now.
LEMMA Taking ==
    ASSUME StartupInv, NEW w \in Wms, TakeRequest(w)
    PROVE  \A v \in Wms : Process(v)'
<1> SUFFICES ASSUME NEW v \in Wms PROVE Process(v)'
    OBVIOUS
<1>1. StartupTypeOK /\ Process(v) /\ Process(w)
    BY DEF StartupInv
<1>2. out'[w] = Tail(out[w]) /\ pc'[w] = pc[w]
    BY <1>1 DEF TakeRequest, StartupTypeOK
<1>3. pc[w] = "sync" \/ pc[w] \in {"unlink", "bind", "load", "loop"}
    BY <1>1 DEF TakeRequest, Process, Outside, Checking, Claimed, Answered, StartupTypeOK, Steps
<1>4. CASE pc[w] = "sync" /\ out[w] = <<"grab", "claim">>
  <2>1. in[w] = <<>> /\ redirect # w
    BY <1>1, <1>4, Requests DEF Process, Claiming, Answered, Apart
  <2>2. grabbed' = w /\ redirect' = redirect /\ in' = in
    BY <1>4, Requests DEF TakeRequest
  <2>3. out'[w] = <<"claim">>
    BY <1>2, <1>4, Requests
  <2>4. CASE v = w
    BY <1>2, <1>4, <2>1, <2>2, <2>3, <2>4
       DEF Process, Outside, Claiming, Checking, Claimed, Releasing, Listening
  <2>5. CASE v # w
    <3>1. pc'[v] = pc[v] /\ out'[v] = out[v] /\ sock' = sock
      BY <1>1, <2>5 DEF TakeRequest, StartupTypeOK
    <3>2. grabbed # v
      BY <2>5, StartupAssumption DEF TakeRequest
    <3> QED BY <1>1, <2>2, <2>5, <3>1, <3>2, Bystander
  <2> QED BY <2>4, <2>5
<1>5. CASE pc[w] = "sync" /\ out[w] = <<"claim">>
  <2>1. in[w] = <<>> /\ redirect # w /\ grabbed = w
    BY <1>1, <1>5, Requests DEF Process, Claiming, Answered
  <2>2. grabbed' = grabbed /\ Redirect(w)
    BY <1>5, Requests DEF TakeRequest
  <2>3. out'[w] = <<>>
    BY <1>2, <1>5, Requests
  <2>4. CASE v = w
    <3>1. \/ redirect' = w /\ in'[w] = <<>>
          \/ redirect' # w /\ in'[w] = <<"error">>
      BY <1>1, <2>1, <2>2, Requests DEF Redirect, StartupTypeOK
    <3> QED BY <1>2, <1>5, <2>1, <2>2, <2>3, <2>4, <3>1
       DEF Process, Outside, Claiming, Checking, Claimed, Releasing, Listening, Answered
  <2>5. CASE v # w
    <3>1. pc'[v] = pc[v] /\ out'[v] = out[v] /\ sock' = sock
      BY <1>1, <2>5 DEF TakeRequest, StartupTypeOK
    <3>2. in'[v] = in[v] /\ (redirect' = v <=> redirect = v)
      BY <1>1, <2>1, <2>2, <2>5, StartupAssumption DEF Redirect, StartupTypeOK
    <3> QED BY <1>1, <2>2, <3>1, <3>2, Bystander
  <2> QED BY <2>4, <2>5
<1>6. CASE pc[w] \in {"unlink", "bind", "load", "loop"}
  <2>1. redirect = w /\ grabbed = w /\ out[w] \in {<<"select", "ungrab">>, <<"ungrab">>}
    BY <1>1, <1>6 DEF TakeRequest, Process, Releasing
  <2>2. redirect' = w /\ in' = in /\ sock' = sock
    BY <2>1, Requests DEF TakeRequest, Redirect
  <2>3. \/ out'[w] = <<"ungrab">> /\ grabbed' = w
        \/ out'[w] = <<>> /\ grabbed' = None
    BY <1>2, <2>1, Requests DEF TakeRequest
  <2>4. CASE v = w
    BY <1>1, <1>2, <1>6, <2>2, <2>3, <2>4
       DEF Process, Outside, Claiming, Checking, Claimed, Releasing, Listening
  <2>5. CASE v # w
    <3>1. pc'[v] = pc[v] /\ out'[v] = out[v]
      BY <1>1, <2>5 DEF TakeRequest, StartupTypeOK
    <3> QED BY <1>1, <2>1, <2>2, <2>3, <2>5, <3>1, StartupAssumption, Bystander
  <2> QED BY <2>4, <2>5
<1>7. pc[w] = "sync" => out[w] \in {<<"grab", "claim">>, <<"claim">>}
    BY <1>1 DEF TakeRequest, Process, Claiming, Answered
<1> QED BY <1>3, <1>4, <1>5, <1>6, <1>7

\* A program's request reaches nwm only once the server has been released.
LEMMA Mapping ==
    ASSUME StartupInv, NEW x \in Windows, AskToMap(x) \/ TakeMap(x)
    PROVE  \A v \in Wms : Process(v)'
<1> SUFFICES ASSUME NEW v \in Wms PROVE Process(v)'
    OBVIOUS
<1>1. StartupTypeOK /\ Process(v)
    BY DEF StartupInv
<1>2. /\ pc' = pc /\ out' = out /\ grabbed' = grabbed
      /\ redirect' = redirect /\ sock' = sock
    BY DEF AskToMap, TakeMap
<1>3. CASE in'[v] = in[v]
    BY <1>1, <1>2, <1>3, Bystander
<1>4. CASE in'[v] # in[v]
  <2>1. grabbed = None /\ redirect = v
    BY <1>1, <1>4 DEF AskToMap, TakeMap, StartupTypeOK
  <2>2. pc[v] \in {"unlink", "bind", "load", "loop"}
    BY <1>1, <2>1, StartupAssumption
       DEF Process, Outside, Claiming, Checking, Claimed, Answered, Apart, StartupTypeOK, Steps
  <2> QED BY <1>1, <1>2, <2>2
       DEF Process, Outside, Claiming, Checking, Claimed, Releasing, Listening
<1> QED BY <1>3, <1>4

\* The steps of main(): of the process itself first, then of the others.
LEMMA Running ==
    ASSUME StartupInv, NEW w \in Wms, Main(w)
    PROVE  \A v \in Wms : Process(v)'
<1> SUFFICES ASSUME ~Disconnect(w) PROVE \A v \in Wms : Process(v)'
    BY Ending
<1>1. StartupTypeOK /\ Process(w)
    BY DEF StartupInv
<1>2. Process(w)'
  <2>1. CASE Begin(w)
    BY <1>1, <2>1 DEF Begin, Moves, StartupTypeOK, Process, Outside, Claiming, Checking,
       Claimed, Releasing, Listening, Apart
  <2>2. CASE Claim(w)
    <3>1. out'[w] = <<"grab", "claim">>
      BY <1>1, <2>2, Requests DEF Claim, Moves, Sends, StartupTypeOK, Process, Outside
    <3> QED BY <1>1, <2>2, <3>1 DEF Claim, Moves, StartupTypeOK, Process, Outside,
               Claiming, Checking, Claimed, Releasing, Listening, Apart
  <2>3. CASE Sync(w)
    <3>1. Answered(w)
      BY <1>1, <2>3, Requests DEF Sync, Moves, Process, Claiming
    <3> QED BY <1>1, <2>3, <3>1 DEF Sync, Moves, StartupTypeOK, Process, Outside,
               Claiming, Checking, Claimed, Releasing, Listening, Answered
  <2>4. CASE Poll(w)
    <3>1. Answered(w)
      BY <1>1, <2>4 DEF Poll, Moves, Process, Checking
    <3>2. in[w] = <<>>
      BY <2>4, <3>1, Requests DEF Poll, Answered
    <3> QED BY <1>1, <2>4, <3>1, <3>2, Requests DEF Poll, Moves, StartupTypeOK, Process,
               Outside, Claiming, Checking, Claimed, Releasing, Listening, Answered
  <2>5. CASE Scan(w)
    BY <1>1, <2>5 DEF Scan, Moves, StartupTypeOK, Process, Outside, Claiming, Checking,
       Claimed, Releasing, Listening
  <2>6. CASE Select(w)
    <3>1. out'[w] = <<"select", "ungrab">>
      BY <1>1, <2>6, Requests DEF Select, Moves, Sends, StartupTypeOK, Process, Claimed
    <3> QED BY <1>1, <2>6, <3>1 DEF Select, Moves, StartupTypeOK, Process, Outside,
               Claiming, Checking, Claimed, Releasing, Listening
  <2>7. CASE Unlink(w)
    BY <1>1, <2>7 DEF Unlink, Moves, StartupTypeOK, Process, Outside, Claiming, Checking,
       Claimed, Releasing, Listening
  <2>8. CASE Bind(w)
    BY <1>1, <2>8 DEF Bind, Moves, StartupTypeOK, Process, Outside, Claiming, Checking,
       Claimed, Releasing, Listening
  <2>9. CASE load_init_scheme(w)
    BY <1>1, <2>9 DEF load_init_scheme, Moves, StartupTypeOK, Process, Outside, Claiming,
       Checking, Claimed, Releasing, Listening
  <2>10. CASE Handle(w)
    BY <1>1, <2>10 DEF Handle, StartupTypeOK, Process, Outside, Claiming, Checking,
       Claimed, Releasing, Listening
  <2> QED BY <2>1, <2>2, <2>3, <2>4, <2>5, <2>6, <2>7, <2>8, <2>9, <2>10 DEF Main
<1>3. ASSUME NEW v \in Wms, v # w PROVE Process(v)'
  <2>1. Process(v)
    BY DEF StartupInv
  <2>2. grabbed' = grabbed /\ redirect' = redirect
    BY DEF Main, Begin, Claim, Sync, Poll, Scan, Select, Unlink, Bind, load_init_scheme, Handle
  <2>3. pc'[v] = pc[v]
    BY <1>1, <1>3 DEF Main, Begin, Claim, Sync, Poll, Scan, Select, Unlink, Bind,
       load_init_scheme, Handle, Moves, StartupTypeOK
  <2>4. out'[v] = out[v]
    BY <1>1, <1>3 DEF Main, Begin, Claim, Sync, Poll, Scan, Select, Unlink, Bind,
       load_init_scheme, Handle, Sends, StartupTypeOK
  <2>5. in'[v] = in[v]
    BY <1>1, <1>3 DEF Main, Begin, Claim, Sync, Poll, Scan, Select, Unlink, Bind,
       load_init_scheme, Handle, StartupTypeOK
  <2>6. pc[v] \in {"load", "loop"} /\ sock = v => sock' = v
    <3>1. CASE Unlink(w) \/ Bind(w)
      <4>1. redirect = w
        BY <1>1, <3>1 DEF Unlink, Bind, Moves, Process, Releasing
      <4> QED BY <1>3, <2>1, <4>1 DEF Process, Releasing
    <3>2. CASE ~(Unlink(w) \/ Bind(w))
      BY <3>2 DEF Main, Begin, Claim, Sync, Poll, Scan, Select, load_init_scheme, Handle
    <3> QED BY <3>1, <3>2
  <2> QED BY <1>1, <2>1, <2>2, <2>3, <2>4, <2>5, <2>6, Bystander
<1> QED BY <1>2, <1>3

LEMMA StartupStep == StartupInv /\ [StartupNext]_svars => StartupInv'
<1> SUFFICES ASSUME StartupInv, [StartupNext]_svars PROVE StartupInv'
    OBVIOUS
<1>1. StartupTypeOK'
    BY StartupTypes DEF StartupInv
<1>2. CASE UNCHANGED svars
    BY <1>1, <1>2 DEF svars, StartupInv, Process, Outside, Claiming, Checking, Claimed,
       Releasing, Listening, Apart, Answered
<1>3. ASSUME NEW w \in Wms, Main(w) \/ TakeRequest(w) \/ Stop(w) \/ Crash(w)
      PROVE  StartupInv'
    BY <1>1, <1>3, Running, Taking, Ending DEF Stop, Crash, StartupInv
<1>4. ASSUME NEW x \in Windows, AskToMap(x) \/ TakeMap(x) PROVE StartupInv'
    BY <1>1, <1>4, Mapping DEF StartupInv
<1> QED BY <1>2, <1>3, <1>4 DEF StartupNext, Rest

\* What holds of each process at each place of main(), in every reachable state.
THEOREM StartupInvariant == StartupSpec => []StartupInv
<1>1. StartupInit => StartupInv
    BY StartupInitial
<1>2. StartupInv /\ [StartupNext]_svars => StartupInv'
    BY StartupStep
<1> QED BY <1>1, <1>2, PTL DEF StartupSpec

\* Every variable keeps its type, for any number of processes and windows.
THEOREM StartupTypeCorrect == StartupSpec => []StartupTypeOK
<1>1. StartupInv => StartupTypeOK
    BY DEF StartupInv
<1> QED BY <1>1, StartupInvariant, PTL

\* Of any number of nwm processes started in any order and killed at any
\* point, one at most is past the check for another window manager.
THEOREM OneManager == StartupSpec => []OnlyOneManages
<1>1. StartupInv => OnlyOneManages
    BY DEF StartupInv, OnlyOneManages, PastTheCheck, Process, Claimed, Releasing
<1> QED BY <1>1, StartupInvariant, PTL

\* The socket in ~/.nwm is that of the nwm which manages the screen, from the
\* moment it has bound it until it ends.
THEOREM SocketIsTheManagers == StartupSpec => []SocketOfManager
<1>1. StartupInv => SocketOfManager
    BY DEF StartupInv, SocketOfManager, Process, Listening
<1> QED BY <1>1, StartupInvariant, PTL

\* The events thrown away before the handlers are set are errors only.
THEOREM NoRequestThrownAway == StartupSpec => []NothingThrownAway
<1>1. StartupInv => NothingThrownAway
  <2> SUFFICES ASSUME StartupInv, NEW w \in Wms, pc[w] = "poll", NEW k \in DOMAIN in[w]
               PROVE  in[w][k] = "error"
    BY DEF NothingThrownAway
  <2>1. in[w] = <<>> \/ in[w] = <<"error">>
    BY DEF StartupInv, Process, Checking, Answered
  <2> QED BY <2>1
<1> QED BY <1>1, StartupInvariant, PTL
----------------------------------------------------------------------------
(* What is sent and what handles it (EventDispatch).                       *)

EventTypes == (2..127) \cup (130..255)
Messages == [type : Types, code : ErrorCodes]

\* The table of events once main() has filled it: a place holds the handler of
\* the event it belongs to, or none.
Filled ==
    \A n \in 0..125 :
        \/ event[n] \in Set /\ UKIND[event[n]] = n + 2
        \/ event[n] = NULL /\ \A h \in Set : UKIND[h] # n + 2

\* The tables of each stage: no handler of events, and the one that ends nwm for
\* errors, until the check is over; all handlers, and none that ends it, after.
Tables ==
    /\ stage \in {"init", "check", "exited"} => \A n \in 0..125 : event[n] = NULL
    /\ stage = "check" => \A n \in 0..255 : error[n] = "startup_error"
    /\ stage = "running" => Filled /\ \A n \in 0..255 : error[n] = "error"

DispatchInv ==
    /\ stage \in {"init", "check", "running", "exited"}
    /\ queue \in Seq(Messages)
    /\ Tables

\* The numbers of the events are those of the protocol, each its own.
LEMMA KindsDiffer ==
    /\ \A h \in Set : UKIND[h] \in 2..34
    /\ \A g, h \in Set : UKIND[g] = UKIND[h] => g = h
BY DEF Set, Quiet, Acting, UKIND, handle_button_events, handle_configure_notify,
       handle_pointer_and_exposure, handle_key_release, handle_other_notices

\* The place of an event does not depend on the bit of SendEvent.
LEMMA PlaceOfEvent ==
    ASSUME NEW type \in EventTypes
    PROVE  /\ event_index(type) \in 0..125
           /\ event_index(type) + 2 = IF type < 128 THEN type ELSE type - 128
BY DEF event_index, EventTypes

\* An event that is of a kind is of this kind with or without the bit.
LEMMA KindOfEvent ==
    ASSUME NEW type \in EventTypes, NEW kind \in 2..34
    PROVE  kind \in {type, type - 128} <=> kind = event_index(type) + 2
<1>1. CASE type \in 2..127
  <2>1. event_index(type) + 2 = type
    BY <1>1, PlaceOfEvent
  <2> QED BY <1>1, <2>1
<1>2. CASE type \in 130..255
  <2>1. event_index(type) + 2 = type - 128
    BY <1>2, PlaceOfEvent
  <2> QED BY <1>2, <2>1
<1> QED BY <1>1, <1>2 DEF EventTypes

\* No assertion fails for what the server sends.
LEMMA NothingAsserted == \A type \in Types : Asserted(type)
BY EventDispatchAssumption DEF Asserted

LEMMA DispatchInitial == DispatchInit => DispatchInv
BY DEF DispatchInit, DispatchInv, Tables

\* Setting the handlers puts each at the place of its event.
LEMMA SettingFills ==
    ASSUME \A n \in 0..125 : event[n] = NULL, set_event_handlers
    PROVE  Filled'
<1> SUFFICES ASSUME NEW n \in 0..125
             PROVE  \/ event'[n] \in Set /\ UKIND[event'[n]] = n + 2
                    \/ event'[n] = NULL /\ \A h \in Set : UKIND[h] # n + 2
    BY DEF Filled
<1>1. \A h \in Set : event_index(UKIND[h]) = UKIND[h] - 2
  <2> TAKE h \in Set
  <2>1. UKIND[h] \in 2..34
    BY KindsDiffer
  <2>2. UKIND[h] \in EventTypes
    BY <2>1 DEF EventTypes
  <2>3. /\ event_index(UKIND[h]) \in Int
        /\ event_index(UKIND[h]) + 2 = UKIND[h]
    BY <2>1, <2>2, PlaceOfEvent
  <2> QED BY <2>1, <2>3
<1>2. \A h \in Set : event_index(UKIND[h]) = n <=> UKIND[h] = n + 2
  <2> TAKE h \in Set
  <2>1. UKIND[h] \in Int
    BY KindsDiffer
  <2> QED BY <1>1, <2>1
<1>3. event'[n] = IF \E h \in Set : event_index(UKIND[h]) = n
                  THEN CHOOSE h \in Set : event_index(UKIND[h]) = n
                  ELSE event[n]
    BY DEF set_event_handlers
<1>4. CASE \E h \in Set : event_index(UKIND[h]) = n
  <2>1. event'[n] \in Set /\ event_index(UKIND[event'[n]]) = n
    BY <1>3, <1>4
  <2> QED BY <2>1, <1>2
<1>5. CASE ~\E h \in Set : event_index(UKIND[h]) = n
    BY <1>2, <1>3, <1>5
<1> QED BY <1>4, <1>5

\* What the handling of a message does: the one at the head is handled, and
\* only an error during the check ends nwm.
LEMMA Handling ==
    ASSUME DispatchInv, xcb_event_handle
    PROVE  /\ Head(queue) \in Messages /\ queue' \in Seq(Messages)
           /\ called' = [type |-> Head(queue).type, code |-> Head(queue).code,
                         handler |-> handler_of(Head(queue))]
           /\ \/ stage' = stage
              \/ stage' = "exited" /\ stage = "check" /\ Head(queue).type = 0
<1>1. Head(queue) \in Messages /\ queue' \in Seq(Messages)
    BY DEF DispatchInv, xcb_event_handle
<1>2. Asserted(Head(queue).type)
    BY <1>1, NothingAsserted DEF Messages
<1>3. /\ called' = [type |-> Head(queue).type, code |-> Head(queue).code,
                    handler |-> handler_of(Head(queue))]
      /\ stage' = StageAfter(handler_of(Head(queue)))
    BY <1>2 DEF xcb_event_handle
<1>4. ASSUME stage' # stage
      PROVE  stage' = "exited" /\ stage = "check" /\ Head(queue).type = 0
  <2>1. stage' = "exited" /\ handler_of(Head(queue)) = "startup_error"
      BY <1>3, <1>4 DEF StageAfter
  <2>2. CASE Head(queue).type = 0
    <3>1. Head(queue).code \in 0..255
      BY <1>1, EventDispatchAssumption DEF Messages
    <3>2. error[Head(queue).code] = "startup_error"
      BY <2>1, <2>2 DEF handler_of
    <3>3. stage # "running"
      BY <3>1, <3>2 DEF DispatchInv, Tables
    <3> QED BY <2>1, <2>2, <3>3 DEF xcb_event_handle
  <2>3. CASE Head(queue).type # 0
    <3>0. Head(queue).type \in EventTypes
      BY <1>1, <2>3, EventDispatchAssumption DEF Messages, EventTypes
    <3>1. event_index(Head(queue).type) \in 0..125
      BY <3>0, PlaceOfEvent
    <3>2. event[event_index(Head(queue).type)] \in Set \cup {NULL}
      BY <3>1 DEF DispatchInv, Tables, Filled, xcb_event_handle
    <3>3. "startup_error" \notin Set \cup {NULL}
      BY EventDispatchAssumption
         DEF ErrorHandlers, Set, Quiet, Acting, handle_button_events,
             handle_configure_notify, handle_pointer_and_exposure,
             handle_key_release, handle_other_notices
    <3> QED BY <2>1, <2>3, <3>2, <3>3 DEF handler_of
  <2> QED BY <2>2, <2>3
<1> QED BY <1>1, <1>3, <1>4

LEMMA DispatchStep == DispatchInv /\ [DispatchNext]_dvars => DispatchInv'
<1> SUFFICES ASSUME DispatchInv, [DispatchNext]_dvars PROVE DispatchInv'
    OBVIOUS
<1>1. CASE PrepareCheck
    BY <1>1 DEF PrepareCheck, set_exclusive_error_handler, DispatchInv, Tables
<1>2. CASE EndCheck
  <2>1. Filled'
    BY <1>2, SettingFills DEF EndCheck, DispatchInv, Tables
  <2>2. \A n \in 0..255 : error'[n] = "error"
    BY <1>2 DEF EndCheck, set_exclusive_error_handler
  <2> QED BY <1>2, <2>1, <2>2 DEF EndCheck, DispatchInv, Tables
<1>3. CASE Receive
  <2>1. queue' \in Seq(Messages)
    BY <1>3 DEF Receive, DispatchInv, Messages
  <2> QED BY <1>3, <2>1 DEF Receive, DispatchInv, Tables, Filled
<1>4. CASE xcb_event_handle
  <2>1. event' = event /\ error' = error
    BY <1>4 DEF xcb_event_handle
  <2>2. queue' \in Seq(Messages)
    BY <1>4, Handling
  <2>3. stage' = stage \/ (stage' = "exited" /\ stage = "check")
    BY <1>4, Handling
  <2>4. Tables'
    <3>1. CASE stage' = stage
      BY <2>1, <3>1 DEF DispatchInv, Tables, Filled
    <3>2. CASE stage' = "exited" /\ stage = "check"
      <4>1. \A n \in 0..125 : event[n] = NULL
        BY <3>2 DEF DispatchInv, Tables
      <4> QED BY <2>1, <3>2, <4>1 DEF Tables
    <3> QED BY <2>3, <3>1, <3>2
  <2>5. stage' \in {"init", "check", "running", "exited"}
    BY <2>3 DEF DispatchInv
  <2> QED BY <2>2, <2>4, <2>5 DEF DispatchInv
<1>5. CASE UNCHANGED dvars
    BY <1>5 DEF dvars, DispatchInv, Tables, Filled
<1> QED BY <1>1, <1>2, <1>3, <1>4, <1>5 DEF DispatchNext, Ended

\* The tables of each stage, in every reachable state; and no message of the
\* server runs into an assertion.
THEOREM DispatchInvariant == DispatchSpec => []DispatchInv
BY DispatchInitial, DispatchStep, PTL DEF DispatchSpec

\* Only the handling of a message makes the queue shorter.
LEMMA OnlyHandlingShortens ==
    ASSUME DispatchInv, [DispatchNext]_dvars, Len(queue') < Len(queue)
    PROVE  xcb_event_handle
<1>1. ~Receive
  <2> SUFFICES ASSUME Receive PROVE FALSE
    OBVIOUS
  <2> QED BY DEF Receive, DispatchInv, Messages
<1>2. queue' # queue
    OBVIOUS
<1> QED BY <1>1, <1>2
       DEF DispatchNext, PrepareCheck, EndCheck, Ended, dvars

\* Every message that is handled reaches the handler it is for, whatever the
\* server sends: an error that of the stage, an event after the check the handler
\* of its own kind, and an event during the check or of another kind none.
THEOREM EventsReachTheirHandlers == DispatchSpec => EachToItsHandler
<1>1. DispatchInv /\ [DispatchNext]_dvars
          => (Len(queue') < Len(queue) => IsFor(Head(queue), called'.handler, stage))
  <2> SUFFICES ASSUME DispatchInv, [DispatchNext]_dvars, Len(queue') < Len(queue)
               PROVE  IsFor(Head(queue), called'.handler, stage)
      OBVIOUS
  <2>1. xcb_event_handle
      BY OnlyHandlingShortens
  <2>2. called'.handler = handler_of(Head(queue))
      BY <2>1, Handling
  <2>3. Head(queue) \in Messages
      BY <2>1, Handling
  <2>4. stage \in {"check", "running"}
      BY <2>1 DEF xcb_event_handle
  <2>5. CASE Head(queue).type = 0
    <3>1. Head(queue).code \in 0..255
      BY <2>3, EventDispatchAssumption DEF Messages
    <3>2. called'.handler = error[Head(queue).code]
      BY <2>2, <2>5 DEF handler_of
    <3> QED BY <2>4, <2>5, <3>1, <3>2 DEF DispatchInv, Tables, IsFor
  <2>6. CASE Head(queue).type # 0
    <3> DEFINE type == Head(queue).type
    <3>1. type \in EventTypes
        BY <2>3, <2>6, EventDispatchAssumption DEF Messages, EventTypes
    <3>2. called'.handler = event[event_index(type)]
        BY <2>2, <2>6 DEF handler_of
    <3> HIDE DEF type
    <3>3. /\ event_index(type) \in 0..125
          /\ event_index(type) + 2 = IF type < 128 THEN type ELSE type - 128
        BY <3>1, PlaceOfEvent
    <3>4. CASE stage = "check"
      <4>1. called'.handler = NULL
        BY <3>2, <3>3, <3>4 DEF DispatchInv, Tables
      <4> QED BY <2>6, <3>4, <4>1 DEF IsFor
    <3>5. CASE stage = "running"
      <4>1. \A h \in Set : UKIND[h] \in {type, type - 128}
                               <=> UKIND[h] = event_index(type) + 2
        <5> TAKE h \in Set
        <5>1. UKIND[h] \in 2..34
          BY KindsDiffer
        <5> QED BY <3>1, <5>1, KindOfEvent
      <4>2. \/ event[event_index(type)] \in Set
               /\ UKIND[event[event_index(type)]] = event_index(type) + 2
            \/ event[event_index(type)] = NULL
               /\ \A h \in Set : UKIND[h] # event_index(type) + 2
          BY <3>3, <3>5 DEF DispatchInv, Tables, Filled
      <4> QED BY <2>6, <3>2, <3>5, <4>1, <4>2 DEF IsFor, type
    <3> QED BY <2>4, <3>4, <3>5
  <2> QED BY <2>5, <2>6
<1> QED BY <1>1, DispatchInvariant, PTL DEF DispatchSpec, EachToItsHandler

\* An error ends nwm during the check for another window manager, and nothing
\* does at any other time.
THEOREM FatalInCheckOnly == DispatchSpec => OnlyTheCheckIsFatal
<1>1. DispatchInv /\ [DispatchNext]_dvars
          => (stage' = "exited" /\ stage # "exited"
                  => stage = "check" /\ called'.type = 0)
  <2> SUFFICES ASSUME DispatchInv, [DispatchNext]_dvars,
                      stage' = "exited", stage # "exited"
               PROVE  stage = "check" /\ called'.type = 0
      OBVIOUS
  <2>1. xcb_event_handle
      BY DEF DispatchNext, PrepareCheck, EndCheck, Receive, Ended, dvars
  <2> QED BY <2>1, Handling
<1> QED BY <1>1, DispatchInvariant, PTL DEF DispatchSpec, OnlyTheCheckIsFatal
=============================================================================
