---------------------------- MODULE ClientsProofs ----------------------------
(***************************************************************************)
(* Proofs that nwm keeps its types, manages no window twice and keeps no   *)
(* client of a destroyed window unknowingly, and that Clients implements   *)
(* WindowManagement: for any windows, structures, commands, bounds and     *)
(* contents of the hooks.                                                  *)
(*                                                                         *)
(* The argument is one inductive invariant, IInv.  The two properties need *)
(* each other: a DestroyNotify removes one client, which is enough because *)
(* no other has its window; and they need FreedUnlisted, because free()    *)
(* may overwrite the `window' of a structure.                              *)
(*                                                                         *)
(* The last parts are about what the user sees, and need something of the  *)
(* configuration: the calls are for listed clients (AimedInv), every       *)
(* window on the screen is under control (ScreenInv), and the layout is    *)
(* that of the clients or will be computed again (LaidInv), each an        *)
(* invariant relative to the ones before it.                               *)
(***************************************************************************)
EXTENDS ClientsImplements, SequenceTheorems, TLAPS

----------------------------------------------------------------------------
(* What every request to the X server and every move of a program         *)
(* preserves: the types of the server's state, and that the destruction   *)
(* of a window is noticed, which the rest of the proof builds on.         *)

\* The window is there, or the event that reports its end is pending.
Noticed(w) == Exists(w) \/ Pending("DestroyNotify", w)

\* A step of the server that takes no event away.
XPreserved == XTypeOK' /\ \A v \in Windows : Noticed(v) => Noticed(v)'

\* Putting events at the end of the queue loses none of those pending.
LEMMA QueueGrows ==
    ASSUME XTypeOK, NEW s \in Seq(EventSet), xqueue' = xqueue \o s
    PROVE  /\ xqueue' \in Seq(EventSet)
           /\ \A t, v : Pending(t, v) => Pending(t, v)'
           /\ \A i \in DOMAIN s : Pending(s[i].type, s[i].window)'
<1>1. xqueue \in Seq(EventSet) BY DEF XTypeOK
<1>2. /\ xqueue' \in Seq(EventSet)
      /\ Len(xqueue') = Len(xqueue) + Len(s)
      /\ \A i \in 1..(Len(xqueue) + Len(s)) :
            xqueue'[i] = IF i <= Len(xqueue) THEN xqueue[i] ELSE s[i - Len(xqueue)]
  BY <1>1, ConcatProperties
<1>3. DOMAIN xqueue = 1..Len(xqueue) /\ Len(xqueue) \in Nat
  BY <1>1, LenProperties
<1>4. DOMAIN s = 1..Len(s) /\ Len(s) \in Nat
  BY LenProperties
<1>5. DOMAIN xqueue' = 1..Len(xqueue')
  BY <1>2, LenProperties
<1>6. ASSUME NEW t, NEW v, Pending(t, v)
      PROVE  Pending(t, v)'
  <2>1. PICK i \in DOMAIN xqueue : xqueue[i].type = t /\ xqueue[i].window = v
    BY <1>6 DEF Pending
  <2>2. i \in DOMAIN xqueue' /\ xqueue'[i] = xqueue[i]
    BY <1>2, <1>3, <1>4, <1>5
  <2>. QED BY <2>1, <2>2 DEF Pending
<1>7. ASSUME NEW i \in DOMAIN s
      PROVE  Pending(s[i].type, s[i].window)'
  <2>1. /\ Len(xqueue) + i \in DOMAIN xqueue'
        /\ xqueue'[Len(xqueue) + i] = s[i]
    BY <1>2, <1>3, <1>4, <1>5
  <2>. QED BY <2>1 DEF Pending
<1>. QED BY <1>2, <1>6, <1>7

LEMMA Singleton ==
    ASSUME NEW S, NEW e \in S
    PROVE  <<e>> \in Seq(S) /\ Len(<<e>>) = 1 /\ <<e>>[1] = e
OBVIOUS

LEMMA EventTypes ==
    ASSUME NEW w \in Windows, NEW type \in {"MapRequest", "UnmapNotify", "DestroyNotify"},
           NEW sent \in BOOLEAN
    PROVE  /\ Event(type, w, sent) \in EventSet
           /\ <<Event(type, w, sent)>> \in Seq(EventSet)
           /\ Unmapping(w) \in Seq(EventSet)
<1>1. Event(type, w, sent) \in EventSet /\ Event("UnmapNotify", w, FALSE) \in EventSet
  BY DEF Event, EventSet
<1>2. <<Event(type, w, sent)>> \in Seq(EventSet)
  BY <1>1, Singleton
<1>3. <<Event("UnmapNotify", w, FALSE)>> \in Seq(EventSet) /\ <<>> \in Seq(EventSet)
  BY <1>1, Singleton, EmptySeq
<1>. QED BY <1>1, <1>2, <1>3 DEF Unmapping

\* A step that only adds to the queue and destroys no window.
LEMMA NoDestruction ==
    ASSUME XTypeOK, NEW s \in Seq(EventSet), xqueue' = xqueue \o s,
           \A v \in Windows : Exists(v) => Exists(v)'
    PROVE  \A v \in Windows : Noticed(v) => Noticed(v)'
BY QueueGrows DEF Noticed

LEMMA XUnchanged == XTypeOK /\ UNCHANGED xvars => XPreserved
BY DEF XTypeOK, xvars, XPreserved, Noticed, Exists, Pending

LEMMA ServerMapPreserves ==
    ASSUME XTypeOK, NEW w, ServerMap(w)
    PROVE  XPreserved
<1>1. XTypeOK' BY DEF XTypeOK, ServerMap, Exists
<1>2. \A v \in Windows : Noticed(v) => Noticed(v)'
  BY DEF XTypeOK, ServerMap, Noticed, Exists, Pending
<1>. QED BY <1>1, <1>2 DEF XPreserved

LEMMA ServerFocusPreserves ==
    ASSUME XTypeOK, NEW w, ServerFocus(w)
    PROVE  XPreserved
<1>1. XTypeOK' BY DEF XTypeOK, ServerFocus, Mapped
<1>2. \A v \in Windows : Noticed(v) => Noticed(v)'
  BY DEF ServerFocus, Noticed, Exists, Pending
<1>. QED BY <1>1, <1>2 DEF XPreserved

LEMMA ServerUnmapPreserves ==
    ASSUME XTypeOK, NEW w, ServerUnmap(w)
    PROVE  XPreserved
<1>1. Unmapping(w) \in Seq(EventSet)
  <2>1. CASE w \in Windows BY <2>1, EventTypes
  <2>2. CASE w \notin Windows BY <2>2, EmptySeq DEF Unmapping, Mapped
  <2>. QED BY <2>1, <2>2
<1>2. xqueue' = xqueue \o Unmapping(w)
  BY DEF ServerUnmap
<1>3. XTypeOK'
  <2>1. xqueue' \in Seq(EventSet) BY <1>1, <1>2, QueueGrows
  <2>. QED BY <2>1 DEF XTypeOK, ServerUnmap, DropFocus, Mapped
<1>4. \A v \in Windows : Exists(v) => Exists(v)'
  BY DEF XTypeOK, ServerUnmap, Exists, Mapped
<1>. QED BY <1>1, <1>2, <1>3, <1>4, NoDestruction DEF XPreserved

\* The window that goes away leaves its event at the end of the queue.
LEMMA ServerDestroyPreserves ==
    ASSUME XTypeOK, NEW w, ServerDestroy(w)
    PROVE  XPreserved
<1>1. CASE ~Exists(w)
  BY <1>1, XUnchanged DEF ServerDestroy
<1>2. CASE Exists(w)
  <2>. DEFINE ev == Event("DestroyNotify", w, FALSE)
              s == Unmapping(w) \o <<ev>>
  <2>1. w \in Windows BY <1>2 DEF Exists
  <2>2. ev \in EventSet /\ <<ev>> \in Seq(EventSet) /\ Unmapping(w) \in Seq(EventSet)
    BY <2>1, EventTypes
  <2>3. /\ s \in Seq(EventSet)
        /\ Len(s) \in DOMAIN s
        /\ s[Len(s)] = ev
    <3>. HIDE DEF ev
    <3>1. Len(<<ev>>) = 1 /\ <<ev>>[1] = ev OBVIOUS
    <3>2. Len(Unmapping(w)) \in Nat BY <2>2, LenProperties
    <3>3. /\ s \in Seq(EventSet) /\ Len(s) = Len(Unmapping(w)) + 1
          /\ s[Len(Unmapping(w)) + 1] = ev
      <4>. DEFINE n == Len(Unmapping(w))
      <4>1. /\ s \in Seq(EventSet) /\ Len(s) = n + Len(<<ev>>)
            /\ \A i \in 1..(n + Len(<<ev>>)) :
                  s[i] = IF i <= n THEN Unmapping(w)[i] ELSE <<ev>>[i - n]
        BY <2>2, ConcatProperties
      <4>2. n + 1 \in 1..(n + 1) /\ ~(n + 1 <= n) /\ (n + 1) - n = 1
        BY <3>2
      <4>. QED BY <3>1, <4>1, <4>2
    <3>4. Len(s) \in 1..Len(s) /\ DOMAIN s = 1..Len(s)
      BY <3>2, <3>3, LenProperties
    <3>. QED BY <3>3, <3>4
  <2>4. xqueue' = xqueue \o s
    <3>1. xqueue \in Seq(EventSet) BY DEF XTypeOK
    <3>2. xqueue' = (xqueue \o Unmapping(w)) \o <<ev>> BY <1>2 DEF ServerDestroy
    <3>. QED BY <3>1, <3>2, <2>2, ConcatAssociative
  <2>. HIDE DEF s
  <2>5. /\ xqueue' \in Seq(EventSet)
        /\ \A v \in Windows : Pending("DestroyNotify", v) => Pending("DestroyNotify", v)'
        /\ Pending("DestroyNotify", w)'
    <3>1. ev.type = "DestroyNotify" /\ ev.window = w BY DEF Event
    <3>. QED BY <2>3, <2>4, <3>1, QueueGrows
  <2>6. XTypeOK'
    BY <1>2, <2>5 DEF XTypeOK, ServerDestroy, DropFocus
  <2>7. \A v \in Windows : Exists(v) /\ v # w => Exists(v)'
    BY <1>2 DEF XTypeOK, ServerDestroy, Exists
  <2>. QED BY <2>5, <2>6, <2>7 DEF XPreserved, Noticed
<1>. QED BY <1>1, <1>2

\* Whatever a program does keeps the server's types and notices.
THEOREM AppStepPreserves ==
    ASSUME XServerAssumption, XTypeOK, AppStep
    PROVE  XPreserved
<1>. PICK w \in Windows :
        \/ AppCreate(w) \/ AppMap(w) \/ AppUnmap(w)
        \/ AppWithdraw(w) \/ AppDestroy(w) \/ AppFocus(w)
  BY DEF AppStep
<1>1. CASE AppCreate(w)
  <2>1. XTypeOK' BY <1>1 DEF XTypeOK, AppCreate
  <2>2. \A v \in Windows : Noticed(v) => Noticed(v)'
    BY <1>1 DEF XTypeOK, AppCreate, Noticed, Exists, Pending
  <2>. QED BY <2>1, <2>2 DEF XPreserved
<1>2. CASE AppMap(w)
  <2>1. CASE w \in xoverride
    BY <1>2, <2>1, ServerMapPreserves DEF AppMap
  <2>2. CASE w \notin xoverride
    <3>. DEFINE ev == Event("MapRequest", w, FALSE)
    <3>1. ev \in EventSet /\ <<ev>> \in Seq(EventSet) BY EventTypes
    <3>2. xqueue \in Seq(EventSet) BY DEF XTypeOK
    <3>3. xqueue' = xqueue \o <<ev>>
      BY <1>2, <2>2, <3>1, <3>2, AppendIsConcat DEF AppMap
    <3>4. UNCHANGED <<xstate, xoverride, xfocus, lives>>
      BY <1>2, <2>2 DEF AppMap
    <3>5. XTypeOK' BY <3>1, <3>3, <3>4, QueueGrows DEF XTypeOK
    <3>6. \A v \in Windows : Exists(v) => Exists(v)' BY <3>4 DEF Exists
    <3>. QED BY <3>1, <3>3, <3>5, <3>6, NoDestruction DEF XPreserved
  <2>. QED BY <2>1, <2>2
<1>3. CASE AppUnmap(w)
  BY <1>3, ServerUnmapPreserves DEF AppUnmap
<1>4. CASE AppWithdraw(w)
  <2>. DEFINE ev == Event("UnmapNotify", w, TRUE)
              s == Unmapping(w) \o <<ev>>
  <2>1. <<ev>> \in Seq(EventSet) /\ Unmapping(w) \in Seq(EventSet) BY EventTypes
  <2>2. s \in Seq(EventSet) BY <2>1, ConcatProperties
  <2>3. xqueue' = xqueue \o s
    <3>1. xqueue \in Seq(EventSet) BY DEF XTypeOK
    <3>2. xqueue' = (xqueue \o Unmapping(w)) \o <<ev>> BY <1>4 DEF AppWithdraw
    <3>. QED BY <3>1, <3>2, <2>1, ConcatAssociative
  <2>. HIDE DEF s
  <2>4. xqueue' \in Seq(EventSet) BY <2>2, <2>3, QueueGrows
  <2>5. XTypeOK' BY <1>4, <2>4 DEF XTypeOK, AppWithdraw, DropFocus
  <2>6. \A v \in Windows : Exists(v) => Exists(v)'
    BY <1>4 DEF XTypeOK, AppWithdraw, Exists
  <2>. QED BY <2>2, <2>3, <2>5, <2>6, NoDestruction DEF XPreserved
<1>5. CASE AppDestroy(w)
  BY <1>5, ServerDestroyPreserves DEF AppDestroy
<1>6. CASE AppFocus(w)
  BY <1>6, ServerFocusPreserves DEF AppFocus
<1>. QED BY <1>1, <1>2, <1>3, <1>4, <1>5, <1>6

----------------------------------------------------------------------------
(* The inductive invariant.                                               *)

\* A structure that is about to be freed is no longer in the list.
FreedUnlisted ==
    \A i \in DOMAIN todo : todo[i].proc = "free" => todo[i].client \notin Listed

IInv == TypeOK /\ NoDuplicateWindow /\ NoZombieClient /\ FreedUnlisted

----------------------------------------------------------------------------
(* The agenda.                                                             *)

\* Calls that free nothing.
Clean(calls) == \A i \in DOMAIN calls : calls[i].proc # "free"

\* What a step may do to the agenda.
TodoOK ==
    /\ todo' \in Seq(CallSet) /\ caught' \in BOOLEAN
    /\ \A i \in DOMAIN todo' : todo'[i].proc = "free" =>
                               \E j \in DOMAIN todo : todo[j] = todo'[i]

LEMMA CallTyped ==
    ASSUME NEW p \in Procs, p # "free", NEW c \in Clients
    PROVE  /\ Call(p, c) \in CallSet
           /\ <<Call(p, c)>> \in Seq(CallSet) /\ Clean(<<Call(p, c)>>)
<1>1. Call(p, c) \in CallSet /\ Call(p, c).proc # "free"
  BY DEF Call, CallSet
<1>2. \A e \in CallSet : e.proc # "free" => <<e>> \in Seq(CallSet) /\ Clean(<<e>>)
  BY Singleton DEF Clean
<1>. QED BY <1>1, <1>2

LEMMA RunHookTyped ==
    ASSUME ClientsAssumption, NEW hook \in HookNames, NEW c \in Clients
    PROVE  run_hook(hook, c) \in Seq(CallSet) /\ Clean(run_hook(hook, c))
<1>1. Hooks[hook] \in Seq(Procs \ {"free"})
  BY DEF ClientsAssumption
<1>2. /\ Len(Hooks[hook]) \in Nat
      /\ \A i \in 1..Len(Hooks[hook]) : Hooks[hook][i] \in Procs \ {"free"}
  BY <1>1, LenProperties, ElementOfSeq
<1>3. \A i \in 1..Len(Hooks[hook]) : /\ Call(Hooks[hook][i], c) \in CallSet
                                     /\ Call(Hooks[hook][i], c).proc # "free"
  BY <1>2 DEF Call, CallSet
<1>4. run_hook(hook, c) \in [1..Len(Hooks[hook]) -> CallSet]
  BY <1>3 DEF run_hook
<1>5. run_hook(hook, c) \in Seq(CallSet)
  BY <1>2, <1>4
<1>6. Clean(run_hook(hook, c))
  BY <1>3 DEF run_hook, Clean
<1>. QED BY <1>5, <1>6

LEMMA CleanConcat ==
    ASSUME NEW s \in Seq(CallSet), NEW t \in Seq(CallSet), Clean(s), Clean(t)
    PROVE  s \o t \in Seq(CallSet) /\ Clean(s \o t)
<1>1. /\ s \o t \in Seq(CallSet) /\ Len(s \o t) = Len(s) + Len(t)
      /\ \A i \in 1..(Len(s) + Len(t)) :
            (s \o t)[i] = IF i <= Len(s) THEN s[i] ELSE t[i - Len(s)]
  BY ConcatProperties
<1>2. /\ DOMAIN s = 1..Len(s) /\ Len(s) \in Nat
      /\ DOMAIN t = 1..Len(t) /\ Len(t) \in Nat
      /\ DOMAIN (s \o t) = 1..(Len(s) + Len(t))
  BY <1>1, LenProperties
<1>. QED BY <1>1, <1>2 DEF Clean

LEMMA StartOK ==
    ASSUME NEW calls \in Seq(CallSet), Clean(calls), todo' = calls,
           caught' \in BOOLEAN
    PROVE  TodoOK
BY DEF TodoOK, Clean

LEMMA ThenOK ==
    ASSUME todo \in Seq(CallSet), todo # <<>>,
           NEW calls \in Seq(CallSet), Clean(calls), Then(calls)
    PROVE  TodoOK
<1>1. /\ Tail(todo) \in Seq(CallSet)
      /\ \A i \in 1..Len(Tail(todo)) : Tail(todo)[i] = todo[i + 1]
      /\ Len(Tail(todo)) = Len(todo) - 1
  BY HeadTailProperties
<1>2. /\ todo' \in Seq(CallSet) /\ Len(todo') = Len(calls) + Len(Tail(todo))
      /\ \A i \in 1..(Len(calls) + Len(Tail(todo))) :
            todo'[i] = IF i <= Len(calls) THEN calls[i]
                       ELSE Tail(todo)[i - Len(calls)]
  BY <1>1, ConcatProperties DEF Then
<1>3. /\ DOMAIN todo = 1..Len(todo) /\ Len(todo) \in Nat
      /\ DOMAIN calls = 1..Len(calls) /\ Len(calls) \in Nat
      /\ DOMAIN todo' = 1..Len(todo')
  BY <1>2, LenProperties
<1>4. ASSUME NEW i \in DOMAIN todo', todo'[i].proc = "free"
      PROVE  \E j \in DOMAIN todo : todo[j] = todo'[i]
  <2>1. ~(i <= Len(calls)) BY <1>2, <1>3, <1>4 DEF Clean
  <2>2. Len(Tail(todo)) \in Nat BY <1>1, LenProperties
  <2>3. i \in 1..(Len(calls) + Len(Tail(todo))) BY <1>2, <1>3, <1>4
  <2>4. todo'[i] = Tail(todo)[i - Len(calls)] BY <1>2, <2>1, <2>3
  <2>5. i - Len(calls) \in 1..Len(Tail(todo)) BY <1>3, <2>1, <2>2, <2>3
  <2>6. /\ i - Len(calls) + 1 \in DOMAIN todo
        /\ todo[i - Len(calls) + 1] = todo'[i]
    BY <1>1, <1>3, <2>4, <2>5
  <2>. QED BY <2>6
<1>5. caught' \in BOOLEAN BY DEF Then, StayCaught
<1>. QED BY <1>2, <1>4, <1>5 DEF TodoOK

LEMMA ReturnOK ==
    ASSUME todo \in Seq(CallSet), todo # <<>>, Return
    PROVE  TodoOK
<1>1. Tail(todo) \in Seq(CallSet) BY HeadTailProperties
<1>2. <<>> \in Seq(CallSet) /\ Clean(<<>>) BY EmptySeq DEF Clean
<1>3. Then(<<>>) BY <1>1, ConcatEmptySeq DEF Return, Then
<1>. QED BY <1>2, <1>3, ThenOK

\* The argument of a call that C code makes is a structure.
LEMMA ArgIsClient ==
    ASSUME ClientsAssumption, TypeOK,
           NEW p \in CoreProcs \ {"focus_client", "focus_next", "focus_prev"}, Calls(p)
    PROVE  Arg \in Clients /\ todo # <<>> /\ todo \in Seq(CallSet)
<1>1. Head(todo) \in CallSet BY HeadTailProperties DEF TypeOK, Calls
<1>2. Head(todo) \notin ConfigCalls BY DEF ClientsAssumption, Calls
<1>. QED BY <1>1, <1>2 DEF TypeOK, Calls, Arg, CallSet

----------------------------------------------------------------------------
(* The list.                                                               *)

LEMMA RemoveAtProperties ==
    ASSUME NEW S, NEW s \in Seq(S), NEW i \in DOMAIN s
    PROVE  /\ RemoveAt(s, i) \in Seq(S)
           /\ DOMAIN RemoveAt(s, i) = 1..(Len(s) - 1)
           /\ \A j \in 1..(Len(s) - 1) :
                 RemoveAt(s, i)[j] = IF j < i THEN s[j] ELSE s[j + 1]
<1>1. Len(s) \in Nat /\ i \in 1..Len(s) /\ DOMAIN s = 1..Len(s)
      /\ \A j \in 1..Len(s) : s[j] \in S
  BY LenProperties, ElementOfSeq
<1>. DEFINE a == SubSeq(s, 1, i - 1)
            b == SubSeq(s, i + 1, Len(s))
<1>2. /\ a \in Seq(S) /\ Len(a) = i - 1
      /\ \A j \in 1..(i - 1) : a[j] = s[j]
  <2>1. 1 \in Int /\ i - 1 \in Int /\ \A j \in 1..(i - 1) : s[j] \in S
    BY <1>1
  <2>2. /\ a \in Seq(S) /\ Len(a) = IF 1 <= i - 1 THEN (i - 1) - 1 + 1 ELSE 0
        /\ \A j \in 1..((i - 1) - 1 + 1) : a[j] = s[1 + j - 1]
    BY <2>1, SubSeqProperties
  <2>. QED BY <1>1, <2>2
<1>3. /\ b \in Seq(S) /\ Len(b) = Len(s) - i
      /\ \A j \in 1..(Len(s) - i) : b[j] = s[i + j]
  <2>1. i + 1 \in Int /\ Len(s) \in Int /\ \A j \in (i + 1)..Len(s) : s[j] \in S
    BY <1>1
  <2>2. /\ b \in Seq(S)
        /\ Len(b) = IF i + 1 <= Len(s) THEN Len(s) - (i + 1) + 1 ELSE 0
        /\ \A j \in 1..(Len(s) - (i + 1) + 1) : b[j] = s[(i + 1) + j - 1]
    BY <2>1, SubSeqProperties
  <2>3. \A j \in 1..(Len(s) - i) : /\ j \in 1..(Len(s) - (i + 1) + 1)
                                   /\ (i + 1) + j - 1 = i + j
    BY <1>1
  <2>4. Len(b) = Len(s) - i BY <1>1, <2>2
  <2>. QED BY <2>2, <2>3, <2>4
<1>4. RemoveAt(s, i) = a \o b BY DEF RemoveAt
<1>. HIDE DEF a, b
<1>5. /\ a \o b \in Seq(S) /\ Len(a \o b) = Len(a) + Len(b)
      /\ \A j \in 1..(Len(a) + Len(b)) :
            (a \o b)[j] = IF j <= Len(a) THEN a[j] ELSE b[j - Len(a)]
  BY <1>2, <1>3, ConcatProperties
<1>6. Len(a) + Len(b) = Len(s) - 1 BY <1>1, <1>2, <1>3
<1>7. DOMAIN (a \o b) = 1..(Len(s) - 1) BY <1>5, <1>6, LenProperties
<1>8. ASSUME NEW j \in 1..(Len(s) - 1)
      PROVE  (a \o b)[j] = IF j < i THEN s[j] ELSE s[j + 1]
  <2>1. CASE j < i
    <3>1. j \in 1..(i - 1) BY <1>1, <2>1
    <3>. QED BY <1>1, <1>2, <1>5, <1>6, <2>1, <3>1
  <2>2. CASE ~(j < i)
    <3>1. ~(j <= i - 1) /\ j - (i - 1) \in 1..(Len(s) - i) /\ i + (j - (i - 1)) = j + 1
      BY <1>1, <2>2
    <3>2. (a \o b)[j] = b[j - (i - 1)] BY <1>2, <1>5, <1>6, <3>1
    <3>3. b[j - (i - 1)] = s[j + 1] BY <1>3, <3>1
    <3>. QED BY <2>2, <3>2, <3>3
  <2>. QED BY <2>1, <2>2
<1>. QED BY <1>4, <1>5, <1>7, <1>8

\* With no window managed twice, no structure is listed twice.
LEMMA ListedOnce ==
    ASSUME NoDuplicateWindow
    PROVE  \A i, j \in DOMAIN client_list : client_list[i] = client_list[j] => i = j
BY DEF NoDuplicateWindow

LEMMA NextFieldTyped ==
    ASSUME TypeOK, NEW c \in Clients
    PROVE  NextField(c) \in Clients \cup {NULL}
<1>1. /\ DOMAIN client_list = 1..Len(client_list) /\ Len(client_list) \in Nat
      /\ \A i \in 1..Len(client_list) : client_list[i] \in Clients
  BY LenProperties, ElementOfSeq DEF TypeOK
<1>2. CASE c \notin Listed BY <1>2 DEF NextField, TypeOK
<1>3. CASE c \in Listed
  <2>. DEFINE k == CHOOSE i \in DOMAIN client_list : client_list[i] = c
  <2>1. k \in DOMAIN client_list BY <1>3 DEF Listed
  <2>2. NextField(c) = IF k < Len(client_list) THEN client_list[k + 1] ELSE NULL
    BY <1>3 DEF NextField
  <2>. HIDE DEF k
  <2>3. k < Len(client_list) => k + 1 \in 1..Len(client_list) BY <1>1, <2>1
  <2>. QED BY <1>1, <2>2, <2>3
<1>. QED BY <1>2, <1>3

LEMMA FirstClientTyped == TypeOK => first_client \in Clients \cup {NULL}
<1>1. TypeOK /\ client_list # <<>> => client_list[1] \in Clients
  <2>1. TypeOK /\ client_list # <<>> => Len(client_list) \in Nat \ {0}
    BY EmptySeq DEF TypeOK
  <2>. QED BY <2>1, ElementOfSeq DEF TypeOK
<1>. QED BY <1>1 DEF first_client

LEMMA NextClientTyped ==
    ASSUME TypeOK, NEW c \in Clients
    PROVE  next_client(c) \in Clients \cup {NULL}
BY NextFieldTyped, FirstClientTyped DEF next_client

LEMMA PrevClientTyped ==
    ASSUME TypeOK, client_list # <<>>, NEW c
    PROVE  prev_client(c) \in Clients
<1>1. /\ DOMAIN client_list = 1..Len(client_list) /\ Len(client_list) \in Nat \ {0}
      /\ \A i \in 1..Len(client_list) : client_list[i] \in Clients
  BY LenProperties, EmptySeq, ElementOfSeq DEF TypeOK
<1>2. CASE \E i \in 2..Len(client_list) : client_list[i] = c
  <2>. DEFINE k == CHOOSE i \in 2..Len(client_list) : client_list[i] = c
  <2>1. k \in 2..Len(client_list) BY <1>2
  <2>2. prev_client(c) = client_list[k - 1] BY <1>2 DEF prev_client
  <2>. HIDE DEF k
  <2>3. k - 1 \in 1..Len(client_list) BY <1>1, <2>1
  <2>. QED BY <1>1, <2>2, <2>3
<1>3. CASE ~\E i \in 2..Len(client_list) : client_list[i] = c
  <2>1. prev_client(c) = client_list[Len(client_list)] BY <1>3 DEF prev_client
  <2>2. Len(client_list) \in 1..Len(client_list) BY <1>1
  <2>. QED BY <1>1, <2>1, <2>2
<1>. QED BY <1>2, <1>3

\* With no window managed twice, find_client finds whatever is managed.
LEMMA FoundWhenManaged ==
    ASSUME TypeOK, NoDuplicateWindow, NEW w, Managed(w)
    PROVE  \E i \in DOMAIN client_list : Finds(w, i)
<1>1. PICK i \in DOMAIN client_list : window[client_list[i]] = w
  BY DEF Managed
<1>2. DOMAIN client_list = 1..Len(client_list) /\ Len(client_list) \in Nat
  BY LenProperties DEF TypeOK
<1>3. \A j \in 1..(i - 1) : j \in DOMAIN client_list /\ j # i
  BY <1>2
<1>4. Finds(w, i) BY <1>1, <1>3 DEF Finds, NoDuplicateWindow
<1>. QED BY <1>4

LEMMA FocusClientTyped ==
    ASSUME TypeOK, NoDuplicateWindow
    PROVE  get_focus_client \in Listed \cup {Unspecified}
<1>1. CASE Managed(xfocus)
  <2>. DEFINE k == CHOOSE i \in DOMAIN client_list : Finds(xfocus, i)
  <2>1. k \in DOMAIN client_list BY <1>1, FoundWhenManaged
  <2>2. get_focus_client = client_list[k] BY <1>1 DEF get_focus_client
  <2>. HIDE DEF k
  <2>. QED BY <2>1, <2>2 DEF Listed
<1>2. CASE ~Managed(xfocus) BY <1>2 DEF get_focus_client
<1>. QED BY <1>1, <1>2

LEMMA ListedTyped == TypeOK => Listed \subseteq Clients
BY LenProperties, ElementOfSeq DEF TypeOK, Listed
----------------------------------------------------------------------------
(* Steps that leave the clients alone.                                     *)

\* NoZombieClient in the terms of the server: every client's end is noticed.
LEMMA ClientsNoticed ==
    ASSUME TypeOK
    PROVE  NoZombieClient <=>
             \A i \in DOMAIN client_list : /\ window[client_list[i]] \in Windows
                                           /\ Noticed(window[client_list[i]])
<1>1. \A w : Noticed(w) => w \in Windows
  <2>1. xqueue \in Seq(EventSet) /\ \A e \in EventSet : e.window \in Windows
    BY DEF TypeOK, XTypeOK, EventSet
  <2>2. \A i \in DOMAIN xqueue : xqueue[i] \in EventSet
    BY <2>1, LenProperties, ElementOfSeq
  <2>. QED BY <2>1, <2>2 DEF Noticed, Exists, Pending
<1>. QED BY <1>1 DEF NoZombieClient, Noticed

LEMMA FreedStayUnlisted ==
    ASSUME FreedUnlisted, TodoOK, Listed' \subseteq Listed
    PROVE  FreedUnlisted'
<1>. SUFFICES ASSUME NEW i \in DOMAIN todo', todo'[i].proc = "free"
              PROVE  todo'[i].client \notin Listed'
  BY DEF FreedUnlisted
<1>1. PICK j \in DOMAIN todo : todo[j] = todo'[i] BY DEF TodoOK
<1>. QED BY <1>1 DEF FreedUnlisted

LEMMA QuietStep ==
    ASSUME IInv, XPreserved, TodoOK, UNCHANGED <<client_list, window, next>>,
           tiled' \subseteq Windows, pointer_window' \in Windows \cup {NoWindow},
           status' \in {"running", "dead"}
    PROVE  IInv'
<1>1. TypeOK' BY DEF IInv, TypeOK, XPreserved, TodoOK
<1>2. NoDuplicateWindow' BY DEF IInv, NoDuplicateWindow
<1>3. NoZombieClient'
  <2>1. \A i \in DOMAIN client_list : /\ window[client_list[i]] \in Windows
                                      /\ Noticed(window[client_list[i]])'
    BY ClientsNoticed DEF IInv, XPreserved
  <2>2. \A i \in DOMAIN client_list : (Noticed(window[client_list[i]]))'
    BY <2>1 DEF Noticed, Exists, Pending
  <2>. QED BY <2>2 DEF NoZombieClient, Noticed
<1>4. FreedUnlisted'
  <2>1. Listed' = Listed BY DEF Listed
  <2>. QED BY <2>1, FreedStayUnlisted DEF IInv
<1>. QED BY <1>1, <1>2, <1>3, <1>4 DEF IInv
\* The calls that only talk to the server, and those that only make calls.
LEMMA ServerCallPreserves ==
    ASSUME ClientsAssumption, IInv,
           map_client \/ unmap_client \/ kill_client \/ set_focus_client
    PROVE  IInv'
<1>. USE DEF IInv
<1>1. CASE map_client
  <2>1. Calls("map_client") BY <1>1 DEF map_client
  <2>2. Arg \in Clients /\ todo # <<>> /\ todo \in Seq(CallSet)
    BY <2>1, ArgIsClient DEF CoreProcs
  <2>3. TodoOK
    BY <1>1, <2>2, RunHookTyped, ThenOK DEF map_client, HookNames
  <2>4. XPreserved BY <1>1, ServerMapPreserves DEF map_client, TypeOK
  <2>. QED BY <1>1, <2>3, <2>4, QuietStep DEF map_client, TypeOK
<1>2. CASE unmap_client
  <2>1. Calls("unmap_client") BY <1>2 DEF unmap_client
  <2>2. Arg \in Clients /\ todo # <<>> /\ todo \in Seq(CallSet)
    BY <2>1, ArgIsClient DEF CoreProcs
  <2>3. TodoOK
    BY <1>2, <2>2, RunHookTyped, ThenOK DEF unmap_client, HookNames
  <2>4. XPreserved BY <1>2, ServerUnmapPreserves DEF unmap_client, TypeOK
  <2>. QED BY <1>2, <2>3, <2>4, QuietStep DEF unmap_client, TypeOK
<1>3. CASE kill_client
  <2>1. TodoOK BY <1>3, ReturnOK DEF kill_client, TypeOK, Calls
  <2>2. XPreserved BY <1>3, ServerDestroyPreserves DEF kill_client, TypeOK
  <2>. QED BY <1>3, <2>1, <2>2, QuietStep DEF kill_client, TypeOK
<1>4. CASE set_focus_client
  <2>1. Calls("set_focus_client") BY <1>4 DEF set_focus_client
  <2>2. Arg \in Clients /\ todo # <<>> /\ todo \in Seq(CallSet)
    BY <2>1, ArgIsClient DEF CoreProcs
  <2>3. TodoOK
    BY <1>4, <2>2, RunHookTyped, ThenOK DEF set_focus_client, HookNames
  <2>4. XPreserved BY <1>4, ServerFocusPreserves DEF set_focus_client, TypeOK
  <2>. QED BY <1>4, <2>3, <2>4, QuietStep DEF set_focus_client, TypeOK
<1>. QED BY <1>1, <1>2, <1>3, <1>4

LEMMA CrashPreserves == IInv /\ Crash => IInv'
<1>. SUFFICES ASSUME IInv, Crash PROVE IInv' OBVIOUS
<1>1. TodoOK BY DEF Crash, TodoOK, IInv, TypeOK
<1>2. XPreserved BY XUnchanged DEF Crash, IInv, TypeOK
<1>. QED BY <1>1, <1>2, QuietStep DEF Crash, IInv, TypeOK

LEMMA DestroyClientPreserves ==
    ASSUME ClientsAssumption, IInv, destroy_client
    PROVE  IInv'
<1>1. Arg \in Clients /\ todo # <<>> /\ todo \in Seq(CallSet)
  BY ArgIsClient DEF destroy_client, IInv, CoreProcs
<1>. DEFINE hook == run_hook("destroy-client-hook", Arg)
            kill == <<Call("kill_client", Arg)>>
<1>2. hook \in Seq(CallSet) /\ Clean(hook)
  BY <1>1, RunHookTyped DEF HookNames
<1>3. kill \in Seq(CallSet) /\ Clean(kill)
  <2>1. "kill_client" \in Procs /\ "kill_client" # "free" BY DEF Procs, CoreProcs
  <2>. QED BY <1>1, <2>1, CallTyped
<1>4. (kill \o hook) \in Seq(CallSet) /\ Clean(kill \o hook)
  <2>. HIDE DEF hook, kill
  <2>. QED BY <1>2, <1>3, CleanConcat
<1>5. CASE Crash BY <1>5, CrashPreserves
<1>6. CASE ~Crash
  <2>1. /\ Then(hook) \/ Then(kill \o hook)
        /\ UNCHANGED <<xvars, client_list, window, next, tiled,
                       pointer_window, status>>
    BY <1>6 DEF destroy_client
  <2>. HIDE DEF hook, kill
  <2>2. TodoOK BY <1>1, <1>2, <1>4, <2>1, ThenOK
  <2>3. XPreserved BY <2>1, XUnchanged DEF IInv, TypeOK
  <2>. QED BY <2>1, <2>2, <2>3, QuietStep DEF IInv, TypeOK
<1>. QED BY <1>5, <1>6

LEMMA TodoStep ==
    ASSUME IInv, TodoOK,
           UNCHANGED <<xvars, client_list, window, next, tiled, pointer_window, status>>
    PROVE  IInv'
<1>1. XPreserved BY XUnchanged DEF IInv, TypeOK
<1>. QED BY <1>1, QuietStep DEF IInv, TypeOK
\* The focus procedures of the Scheme API, called with or without a client.
LEMMA FocusCallTyped ==
    ASSUME NEW p \in {"focus_client", "focus_next", "focus_prev"},
           NEW c \in Clients \cup {Unspecified}
    PROVE  <<Call(p, c)>> \in Seq(CallSet) /\ Clean(<<Call(p, c)>>)
<1>1. Call(p, c) \in CallSet /\ Call(p, c).proc # "free"
  BY DEF Call, CallSet, Procs, CoreProcs
<1>2. \A e \in CallSet : e.proc # "free" => <<e>> \in Seq(CallSet) /\ Clean(<<e>>)
  BY Singleton DEF Clean
<1>. QED BY <1>1, <1>2

LEMMA FocusArg ==
    ASSUME ClientsAssumption, TypeOK,
           focus_client \/ focus_next_client \/ focus_next \/ focus_prev
    PROVE  /\ Arg \in Clients \cup {NULL, Unspecified}
           /\ Calls("focus_next") \/ Calls("focus_prev") =>
                 Arg \in Clients \cup {Unspecified}
<1>1. \E p \in {"focus_client", "focus_next_client", "focus_next", "focus_prev"} : Calls(p)
  BY DEF focus_client, focus_next_client, focus_next, focus_prev, FocusNeighbour
<1>2. Head(todo) \in CallSet BY <1>1, HeadTailProperties DEF TypeOK, Calls
<1>3. Head(todo) \notin ConfigCalls BY <1>1 DEF ClientsAssumption, Calls, CoreProcs
<1>. QED BY <1>2, <1>3 DEF Arg, CallSet, Calls

LEMMA FocusClientCallTyped ==
    ASSUME NEW c \in Clients \cup {NULL}
    PROVE  /\ <<Call("focus_client", c)>> \in Seq(CallSet)
           /\ Clean(<<Call("focus_client", c)>>)
<1>1. Call("focus_client", c) \in CallSet /\ Call("focus_client", c).proc # "free"
  BY DEF Call, CallSet, Procs, CoreProcs
<1>2. \A e \in CallSet : e.proc # "free" => <<e>> \in Seq(CallSet) /\ Clean(<<e>>)
  BY Singleton DEF Clean
<1>. QED BY <1>1, <1>2

LEMMA NoCalls == <<>> \in Seq(CallSet) /\ Clean(<<>>)
BY EmptySeq DEF Clean

LEMMA FocusStepPreserves ==
    ASSUME ClientsAssumption, IInv,
           focus_client \/ focus_next_client \/ focus_next \/ focus_prev
    PROVE  IInv'
<1>. USE DEF IInv
<1>1. /\ todo # <<>> /\ todo \in Seq(CallSet)
      /\ UNCHANGED <<xvars, client_list, window, next, tiled, pointer_window, status>>
  BY DEF TypeOK, Calls, focus_client, focus_next_client, focus_next, focus_prev,
         FocusNeighbour
<1>2. Arg \in Clients \cup {NULL, Unspecified} BY FocusArg
<1>3. CASE focus_client
  <2>. DEFINE c == IF Arg = Unspecified THEN first_client ELSE Arg
              call == <<Call("set_focus_client", c)>>
  <2>1. (Then(call) /\ c # NULL) \/ Then(<<>>) BY <1>3 DEF focus_client
  <2>2. CASE Then(call) /\ c # NULL
    <3>1. c \in Clients BY <1>2, <2>2, FirstClientTyped
    <3>2. call \in Seq(CallSet) /\ Clean(call)
      <4>1. "set_focus_client" \in Procs /\ "set_focus_client" # "free" BY DEF Procs, CoreProcs
      <4>. QED BY <3>1, <4>1, CallTyped
    <3>. HIDE DEF call
    <3>3. TodoOK BY <1>1, <2>2, <3>2, ThenOK
    <3>. QED BY <1>1, <3>3, TodoStep
  <2>3. CASE Then(<<>>)
    <3>1. TodoOK BY <1>1, <2>3, NoCalls, ThenOK
    <3>. QED BY <1>1, <3>1, TodoStep
  <2>. QED BY <2>1, <2>2, <2>3
<1>4. CASE focus_next_client
  <2>1. Arg \in Clients BY <1>4, ArgIsClient DEF focus_next_client, CoreProcs
  <2>2. next_client(Arg) \in Clients \cup {NULL} BY <2>1, NextClientTyped
  <2>3. TodoOK
    BY <1>1, <1>4, <2>2, FocusClientCallTyped, ThenOK DEF focus_next_client
  <2>. QED BY <1>1, <2>3, TodoStep
<1>5. ASSUME NEW c \in Clients \cup {NULL}, Then(<<Call("focus_client", c)>>)
      PROVE  IInv'
  <2>1. TodoOK BY <1>1, <1>5, FocusClientCallTyped, ThenOK
  <2>. QED BY <1>1, <2>1, TodoStep
<1>6. CASE Return
  <2>1. TodoOK BY <1>1, <1>6, ReturnOK
  <2>. QED BY <1>1, <2>1, TodoStep
<1>7. \A i \in VisibleAt : client_list[i] \in Clients /\ client_list # <<>>
  <2>1. \A i \in VisibleAt : i \in DOMAIN client_list BY DEF VisibleAt
  <2>2. DOMAIN client_list = 1..Len(client_list) BY LenProperties DEF TypeOK
  <2>. QED BY <2>1, <2>2, ElementOfSeq, EmptySeq DEF TypeOK
<1>8. Calls("focus_next") \/ Calls("focus_prev") => Arg \in Clients \cup {Unspecified}
  BY FocusArg
<1>9. CASE focus_next
  <2>1. SUFFICES ASSUME NEW i \in VisibleAt,
                        Then(<<Call("focus_client", IF Arg = Unspecified
                                                    THEN client_list[i]
                                                    ELSE next_client(Arg))>>)
                 PROVE  IInv'
    BY <1>6, <1>9 DEF focus_next, FocusNeighbour
  <2>2. Arg \in Clients \cup {Unspecified} BY <1>8, <1>9 DEF focus_next, FocusNeighbour
  <2>. DEFINE c == IF Arg = Unspecified THEN client_list[i] ELSE next_client(Arg)
  <2>3. c \in Clients \cup {NULL} BY <1>7, <2>2, NextClientTyped
  <2>. QED BY <1>5, <2>1, <2>3
<1>10. CASE focus_prev
  <2>1. SUFFICES ASSUME NEW i \in VisibleAt,
                        Then(<<Call("focus_client", IF Arg = Unspecified
                                                    THEN client_list[i]
                                                    ELSE prev_client(Arg))>>)
                 PROVE  IInv'
    BY <1>6, <1>10 DEF focus_prev, FocusNeighbour
  <2>. DEFINE c == IF Arg = Unspecified THEN client_list[i] ELSE prev_client(Arg)
  <2>2. c \in Clients \cup {NULL} BY <1>7, PrevClientTyped
  <2>. QED BY <1>5, <2>1, <2>2
<1>. QED BY <1>3, <1>4, <1>9, <1>10

LEMMA AutoTilePreserves ==
    ASSUME IInv, auto_tile
    PROVE  IInv'
<1>1. TodoOK
  <2>1. CASE Return BY <2>1, ReturnOK DEF auto_tile, Calls, IInv, TypeOK
  <2>2. CASE todo' = <<>> /\ caught' = FALSE BY <2>2, NoCalls, StartOK
  <2>3. CASE UNCHANGED <<todo, caught>> BY <2>3 DEF TodoOK, IInv, TypeOK
  <2>. QED BY <2>1, <2>2, <2>3 DEF auto_tile
<1>2. XPreserved BY XUnchanged DEF auto_tile, IInv, TypeOK
<1>3. tiled' \subseteq Windows BY DEF auto_tile, VisibleAt, Mapped
<1>. QED BY <1>1, <1>2, <1>3, QuietStep DEF auto_tile, IInv, TypeOK

\* The structure whose window is overwritten is not listed (FreedUnlisted).
LEMMA FreePreserves ==
    ASSUME ClientsAssumption, IInv, free
    PROVE  IInv'
<1>. USE DEF IInv
<1>1. CASE Crash BY <1>1, CrashPreserves
<1>2. CASE ~Crash
  <2>1. PICK garbage \in {window[Arg], NoWindow} :
           window' = [window EXCEPT ![Arg] = garbage]
    BY <1>2 DEF free
  <2>2. /\ Return
        /\ UNCHANGED <<xvars, client_list, next, tiled, pointer_window, status>>
    BY <1>2 DEF free
  <2>3. Arg \in Clients /\ todo # <<>> /\ todo \in Seq(CallSet)
    BY ArgIsClient DEF free, CoreProcs
  <2>4. Arg \notin Listed
    <3>1. 1 \in DOMAIN todo /\ todo[1] = Head(todo)
      BY <2>3, EmptySeq, LenProperties
    <3>. QED BY <3>1 DEF FreedUnlisted, free, Calls, Arg
  <2>5. TodoOK BY <2>2, <2>3, ReturnOK
  <2>6. window' \in [Clients -> Windows \cup {NoWindow}]
    BY <2>1, <2>3 DEF TypeOK
  <2>7. TypeOK'
    BY <2>2, <2>5, <2>6, XUnchanged DEF TypeOK, XPreserved, TodoOK
  <2>8. \A i \in DOMAIN client_list : window'[client_list[i]] = window[client_list[i]]
    <3>1. \A i \in DOMAIN client_list : client_list[i] \in Clients /\ client_list[i] # Arg
      BY <2>4, ListedTyped DEF Listed
    <3>. QED BY <2>1, <3>1 DEF TypeOK
  <2>9. NoDuplicateWindow' BY <2>2, <2>8 DEF NoDuplicateWindow
  <2>10. NoZombieClient'
    BY <2>2, <2>8 DEF NoZombieClient, Exists, Pending, xvars
  <2>11. FreedUnlisted'
    BY <2>2, <2>5, FreedStayUnlisted DEF Listed
  <2>. QED BY <2>7, <2>9, <2>10, <2>11
<1>. QED BY <1>1, <1>2

LEMMA NwmStepPreserves ==
    ASSUME ClientsAssumption, IInv, NwmStep
    PROVE  IInv'
BY ServerCallPreserves, DestroyClientPreserves, FreePreserves,
   FocusStepPreserves, AutoTilePreserves DEF NwmStep
----------------------------------------------------------------------------
(* The event handlers.                                                     *)

\* Taking an event loses no notice but the one it may itself be.
LEMMA EventTaken ==
    ASSUME TypeOK, NEW type, TakeEvent(type)
    PROVE  /\ XTypeOK' /\ EventWindow \in Windows
           /\ \A v : Noticed(v) /\ (type = "DestroyNotify" => v # EventWindow)
                     => Noticed(v)'
<1>1. xqueue \in Seq(EventSet) /\ xqueue # <<>> BY DEF TypeOK, XTypeOK, TakeEvent
<1>2. /\ Head(xqueue) \in EventSet /\ Tail(xqueue) \in Seq(EventSet)
      /\ Len(Tail(xqueue)) = Len(xqueue) - 1
      /\ \A i \in 1..Len(Tail(xqueue)) : Tail(xqueue)[i] = xqueue[i + 1]
  BY <1>1, HeadTailProperties
<1>3. /\ DOMAIN xqueue = 1..Len(xqueue) /\ Len(xqueue) \in Nat
      /\ DOMAIN Tail(xqueue) = 1..Len(Tail(xqueue))
      /\ Head(xqueue) = xqueue[1]
  BY <1>1, <1>2, LenProperties
<1>4. XTypeOK' BY <1>2 DEF TypeOK, XTypeOK, TakeEvent
<1>5. EventWindow \in Windows BY <1>2 DEF EventWindow, EventSet
<1>6. ASSUME NEW v, Pending("DestroyNotify", v), ~Pending("DestroyNotify", v)'
      PROVE  type = "DestroyNotify" /\ v = EventWindow
  <2>1. PICK i \in DOMAIN xqueue :
           xqueue[i].type = "DestroyNotify" /\ xqueue[i].window = v
    BY <1>6 DEF Pending
  <2>2. CASE i = 1 BY <1>3, <2>1, <2>2 DEF TakeEvent, EventWindow
  <2>3. CASE i # 1
    <3>1. i - 1 \in 1..Len(Tail(xqueue)) /\ (i - 1) + 1 = i BY <1>2, <1>3, <2>3
    <3>2. xqueue' = Tail(xqueue) BY DEF TakeEvent
    <3>3. i - 1 \in DOMAIN xqueue' /\ xqueue'[i - 1] = xqueue[i]
      BY <1>2, <1>3, <3>1, <3>2
    <3>. QED BY <1>6, <2>1, <3>3 DEF Pending
  <2>. QED BY <2>2, <2>3
<1>7. \A v : Exists(v) => Exists(v)' BY DEF TakeEvent, Exists
<1>. QED BY <1>4, <1>5, <1>6, <1>7 DEF Noticed

\* An event after which the list stays as it is.
LEMMA EventIgnored ==
    ASSUME IInv, NEW type, TakeEvent(type), TodoOK,
           type = "DestroyNotify" => ~Managed(EventWindow),
           UNCHANGED <<client_list, window, next>>
    PROVE  IInv'
<1>. USE DEF IInv
<1>1. TypeOK' BY EventTaken DEF TypeOK, TakeEvent, TodoOK
<1>2. NoDuplicateWindow' BY DEF NoDuplicateWindow
<1>3. NoZombieClient'
  <2>1. \A i \in DOMAIN client_list :
           /\ Noticed(window[client_list[i]])
           /\ type = "DestroyNotify" => window[client_list[i]] # EventWindow
    BY ClientsNoticed DEF Managed
  <2>2. \A v : Noticed(v) /\ (type = "DestroyNotify" => v # EventWindow)
                => Noticed(v)'
    BY EventTaken
  <2>3. \A i \in DOMAIN client_list : Noticed(window[client_list[i]])'
    BY <2>1, <2>2 DEF Noticed, Exists, Pending
  <2>. QED BY <2>3 DEF NoZombieClient, Noticed
<1>4. FreedUnlisted' BY FreedStayUnlisted DEF Listed
<1>. QED BY <1>1, <1>2, <1>3, <1>4
\* A client is taken off the list because of the event about its window.
LEMMA UnlinkPreserves ==
    ASSUME IInv, NEW type, TakeEvent(type),
           NEW i \in DOMAIN client_list, Finds(EventWindow, i), Unlink(i),
           todo' \in Seq(CallSet),
           \A j \in DOMAIN todo' : todo'[j].proc = "free" =>
                                   todo'[j].client = client_list[i]
    PROVE  IInv'
<1>. USE DEF IInv
<1>1. /\ client_list \in Seq(Clients) /\ Len(client_list) \in Nat
      /\ DOMAIN client_list = 1..Len(client_list)
      /\ client_list[i] \in Clients
  BY LenProperties, ElementOfSeq DEF TypeOK
<1>2. /\ client_list' \in Seq(Clients)
      /\ DOMAIN client_list' = 1..(Len(client_list) - 1)
      /\ \A j \in 1..(Len(client_list) - 1) :
            client_list'[j] = IF j < i THEN client_list[j] ELSE client_list[j + 1]
  BY <1>1, RemoveAtProperties DEF Unlink
<1>. DEFINE old(j) == IF j < i THEN j ELSE j + 1
<1>3. ASSUME NEW j \in DOMAIN client_list'
      PROVE  /\ old(j) \in DOMAIN client_list /\ old(j) # i
             /\ client_list'[j] = client_list[old(j)]
  BY <1>1, <1>2, <1>3
<1>4. \A j, k \in DOMAIN client_list' : j # k => old(j) # old(k)
  BY <1>1, <1>2
<1>. HIDE DEF old
<1>5. window' = window BY DEF Unlink
<1>6. TypeOK'
  <2>1. next' \in [Clients -> Clients \cup {NULL}]
    BY <1>1, NextFieldTyped DEF Unlink, TypeOK
  <2>. QED BY <1>2, <1>5, <2>1, EventTaken DEF TypeOK, TakeEvent
<1>7. NoDuplicateWindow'
  BY <1>3, <1>4, <1>5 DEF NoDuplicateWindow
<1>8. NoZombieClient'
  <2>1. ASSUME NEW j \in DOMAIN client_list'
        PROVE  (Noticed(window[client_list[j]]))'
    <3>1. PICK v : v = window[client_list[old(j)]] OBVIOUS
    <3>2. v # EventWindow BY <1>3, <3>1 DEF NoDuplicateWindow, Finds
    <3>3. Noticed(v) BY <1>3, <3>1, ClientsNoticed
    <3>4. Noticed(v)' BY <3>2, <3>3, EventTaken
    <3>5. (window[client_list[j]])' = v BY <1>3, <1>5, <3>1
    <3>. QED BY <3>4, <3>5 DEF Noticed, Exists, Pending
  <2>. QED BY <2>1 DEF NoZombieClient, Noticed
<1>9. FreedUnlisted'
  <2>1. \A j \in DOMAIN client_list' : client_list'[j] # client_list[i]
    BY <1>3, ListedOnce
  <2>. QED BY <2>1 DEF FreedUnlisted, Listed
<1>. QED BY <1>6, <1>7, <1>8, <1>9

\* A structure that is not listed becomes the client of a window that is
\* there and was not managed.
LEMMA ManagePreserves ==
    ASSUME ClientsAssumption, IInv, TakeEvent("MapRequest"),
           Exists(EventWindow), ~Managed(EventWindow),
           NEW c \in Clients \ Listed, manage_window(c, EventWindow)
    PROVE  IInv'
<1>. USE DEF IInv
<1>1. EventWindow \in Windows /\ XTypeOK'
      /\ \A v : Noticed(v) => Noticed(v)'
  <2>1. "MapRequest" # "DestroyNotify" OBVIOUS
  <2>. QED BY <2>1, EventTaken
<1>2. /\ client_list \in Seq(Clients) /\ Len(client_list) \in Nat
      /\ DOMAIN client_list = 1..Len(client_list)
      /\ <<c>> \in Seq(Clients) /\ Len(<<c>>) = 1 /\ <<c>>[1] = c
  BY LenProperties, Singleton DEF TypeOK
<1>3. /\ client_list' \in Seq(Clients)
      /\ Len(client_list') = Len(<<c>>) + Len(client_list)
      /\ \A j \in 1..(Len(<<c>>) + Len(client_list)) :
            client_list'[j] = IF j <= Len(<<c>>) THEN <<c>>[j]
                              ELSE client_list[j - Len(<<c>>)]
  BY <1>2, ConcatProperties DEF manage_window
<1>4. DOMAIN client_list' = 1..(1 + Len(client_list))
  BY <1>2, <1>3, LenProperties
<1>5. ASSUME NEW j \in DOMAIN client_list', j # 1
      PROVE  /\ j - 1 \in DOMAIN client_list
             /\ client_list'[j] = client_list[j - 1]
  BY <1>2, <1>3, <1>4, <1>5
<1>6. client_list'[1] = c BY <1>2, <1>3, <1>4
<1>7. /\ window'[c] = EventWindow
      /\ \A j \in DOMAIN client_list : window'[client_list[j]] = window[client_list[j]]
      /\ window' \in [Clients -> Windows \cup {NoWindow}]
  BY <1>1, ListedTyped DEF manage_window, TypeOK, Listed
<1>8. todo' \in Seq(CallSet) /\ Clean(todo')
  <2>. DEFINE hook == run_hook("create-client-hook", c)
              m == Call("map_client", c)
  <2>1. hook \in Seq(CallSet) /\ Clean(hook) BY RunHookTyped DEF HookNames
  <2>2. m \in CallSet /\ m.proc # "free" BY DEF Call, CallSet, Procs, CoreProcs
  <2>. HIDE DEF hook, m
  <2>3. <<m, m>> \in Seq(CallSet) /\ Clean(<<m, m>>) BY <2>2 DEF Clean
  <2>4. todo' = hook \o <<m, m>> BY DEF manage_window, hook, m
  <2>. QED BY <2>1, <2>3, <2>4, CleanConcat
<1>9. TypeOK'
  <2>1. next' \in [Clients -> Clients \cup {NULL}] BY DEF manage_window, TypeOK
  <2>. QED BY <1>1, <1>3, <1>7, <1>8, <2>1 DEF TypeOK, TakeEvent
<1>10. NoDuplicateWindow'
  <2>1. ASSUME NEW j \in DOMAIN client_list', j # 1
        PROVE  window'[client_list'[j]] # EventWindow
    BY <1>5, <1>7, <2>1 DEF Managed
  <2>2. ASSUME NEW j \in DOMAIN client_list', NEW k \in DOMAIN client_list',
               j # k, j # 1, k # 1
        PROVE  window'[client_list'[j]] # window'[client_list'[k]]
    <3>1. /\ j - 1 \in DOMAIN client_list /\ client_list'[j] = client_list[j - 1]
          /\ k - 1 \in DOMAIN client_list /\ client_list'[k] = client_list[k - 1]
      BY <1>5, <2>2
    <3>2. j - 1 # k - 1 BY <1>2, <1>4, <2>2
    <3>. QED BY <1>7, <3>1, <3>2 DEF NoDuplicateWindow
  <2>. QED BY <1>6, <1>7, <2>1, <2>2 DEF NoDuplicateWindow
<1>11. NoZombieClient'
  <2>1. ASSUME NEW j \in DOMAIN client_list'
        PROVE  (Noticed(window[client_list[j]]))'
    <3>1. CASE j = 1
      <4>1. PICK v : v = EventWindow OBVIOUS
      <4>2. Noticed(v)' BY <1>1, <4>1 DEF Noticed
      <4>3. (window[client_list[j]])' = v BY <1>6, <1>7, <3>1, <4>1
      <4>. QED BY <4>2, <4>3 DEF Noticed, Exists, Pending
    <3>2. CASE j # 1
      <4>1. PICK v : v = window[client_list[j - 1]] OBVIOUS
      <4>2. Noticed(v)' BY <1>1, <1>5, <3>2, <4>1, ClientsNoticed
      <4>3. (window[client_list[j]])' = v BY <1>5, <1>7, <3>2, <4>1
      <4>. QED BY <4>2, <4>3 DEF Noticed, Exists, Pending
    <3>. QED BY <3>1, <3>2
  <2>. QED BY <2>1 DEF NoZombieClient, Noticed
<1>12. FreedUnlisted' BY <1>8 DEF FreedUnlisted, Clean
<1>. QED BY <1>9, <1>10, <1>11, <1>12
LEMMA HandleEventPreserves ==
    ASSUME ClientsAssumption, IInv, HandleEvent
    PROVE  IInv'
<1>. USE DEF IInv
<1>a. caught' = FALSE
  BY DEF HandleEvent, handle_map_request_event, handle_destroy_notify_event,
         handle_unmap_notify_event, TakeEvent
<1>0. UNCHANGED todo => TodoOK BY <1>a DEF TodoOK, TypeOK
<1>1. DOMAIN client_list = 1..Len(client_list) /\ client_list \in Seq(Clients)
      /\ \A i \in DOMAIN client_list : client_list[i] \in Clients
  BY LenProperties, ElementOfSeq DEF TypeOK
<1>2. ASSUME NEW i \in DOMAIN client_list, NEW p \in Procs, p # "free",
             todo' = <<Call(p, client_list[i])>>
      PROVE  todo' \in Seq(CallSet) /\ Clean(todo') /\ TodoOK
  <2>. DEFINE call == <<Call(p, client_list[i])>>
  <2>1. call \in Seq(CallSet) /\ Clean(call) BY <1>1, <1>2, CallTyped
  <2>2. todo' = call BY <1>2
  <2>. HIDE DEF call
  <2>. QED BY <1>a, <2>1, <2>2, StartOK
<1>3. CASE handle_map_request_event
  <2>1. TakeEvent("MapRequest") BY <1>3 DEF handle_map_request_event
  <2>2. CASE UNCHANGED <<client_list, window, next, todo>>
    BY <1>0, <2>1, <2>2, EventIgnored
  <2>3. ASSUME NEW i \in DOMAIN client_list,
               todo' = <<Call("map_client", client_list[i])>>,
               UNCHANGED <<client_list, window, next>>
        PROVE  IInv'
    <3>1. "map_client" \in Procs /\ "map_client" # "free" BY DEF Procs, CoreProcs
    <3>2. TodoOK BY <1>2, <2>3, <3>1
    <3>. QED BY <2>1, <2>3, <3>2, EventIgnored
  <2>4. CASE /\ Exists(EventWindow) /\ ~Managed(EventWindow)
             /\ \E c \in Clients \ Listed : manage_window(c, EventWindow)
    BY <2>1, <2>4, ManagePreserves
  <2>. QED BY <1>3, <2>2, <2>3, <2>4 DEF handle_map_request_event
<1>4. CASE handle_destroy_notify_event
  <2>1. TakeEvent("DestroyNotify") BY <1>4 DEF handle_destroy_notify_event
  <2>2. CASE ~Managed(EventWindow) /\ UNCHANGED <<client_list, window, next, todo>>
    BY <1>0, <2>1, <2>2, EventIgnored
  <2>3. ASSUME NEW i \in DOMAIN client_list, Finds(EventWindow, i), Unlink(i),
               todo' = <<Call("destroy_client", client_list[i])>>
        PROVE  IInv'
    <3>1. "destroy_client" \in Procs /\ "destroy_client" # "free" BY DEF Procs, CoreProcs
    <3>2. todo' \in Seq(CallSet) /\ Clean(todo') BY <1>2, <2>3, <3>1
    <3>. QED BY <2>1, <2>3, <3>2, UnlinkPreserves DEF Clean
  <2>. QED BY <1>4, <2>2, <2>3 DEF handle_destroy_notify_event
<1>5. CASE handle_unmap_notify_event
  <2>1. TakeEvent("UnmapNotify") BY <1>5 DEF handle_unmap_notify_event
  <2>2. CASE UNCHANGED <<client_list, window, next, todo>>
    BY <1>0, <2>1, <2>2, EventIgnored
  <2>3. ASSUME NEW i \in DOMAIN client_list, Finds(EventWindow, i), Unlink(i),
               todo' = <<Call("unmap_client", client_list[i]),
                         Call("free", client_list[i])>>
        PROVE  IInv'
    <3>. DEFINE u == Call("unmap_client", client_list[i])
                f == Call("free", client_list[i])
    <3>1. u \in CallSet /\ f \in CallSet BY <1>1 DEF Call, CallSet, Procs, CoreProcs
    <3>2. u.proc # "free" /\ f.client = client_list[i] BY DEF Call
    <3>. HIDE DEF u, f
    <3>3. todo' = <<u, f>> BY <2>3 DEF u, f
    <3>4. /\ todo' \in Seq(CallSet)
          /\ \A j \in DOMAIN todo' : todo'[j].proc = "free" =>
                                      todo'[j].client = client_list[i]
      BY <3>1, <3>2, <3>3
    <3>. QED BY <2>1, <2>3, <3>4, UnlinkPreserves
  <2>. QED BY <1>5, <2>2, <2>3 DEF handle_unmap_notify_event
<1>. QED BY <1>3, <1>4, <1>5 DEF HandleEvent

----------------------------------------------------------------------------
(* The commands and the pointer.                                           *)

\* Starting with a call on a listed client.
LEMMA ListedCallTyped ==
    ASSUME TypeOK, NEW c \in Listed, NEW p \in Procs, p # "free"
    PROVE  <<Call(p, c)>> \in Seq(CallSet) /\ Clean(<<Call(p, c)>>)
BY CallTyped, ListedTyped

LEMMA ReversePreserves ==
    ASSUME IInv, client_list_reverse
    PROVE  IInv'
<1>. USE DEF IInv
<1>. DEFINE n == Len(client_list)
            old(j) == (n - j) + 1
<1>1. /\ client_list \in Seq(Clients) /\ n \in Nat /\ DOMAIN client_list = 1..n
      /\ \A j \in 1..n : client_list[j] \in Clients
  BY LenProperties, ElementOfSeq DEF TypeOK
<1>2. \A j \in 1..n : old(j) \in 1..n BY <1>1
<1>3. \A j, k \in 1..n : j # k => old(j) # old(k) BY <1>1
<1>4. client_list' = [j \in 1..n |-> client_list[old(j)]]
  BY DEF client_list_reverse, Reverse
<1>. HIDE DEF n, old
<1>5. client_list' \in Seq(Clients) /\ DOMAIN client_list' = 1..n
      /\ \A j \in 1..n : client_list'[j] = client_list[old(j)]
  BY <1>1, <1>2, <1>4
<1>6. UNCHANGED <<xvars, window, next, todo, caught, tiled, pointer_window, status>>
  BY DEF client_list_reverse
<1>7. TypeOK' BY <1>5, <1>6 DEF TypeOK, XTypeOK, xvars
<1>8. NoDuplicateWindow' BY <1>1, <1>2, <1>3, <1>5, <1>6 DEF NoDuplicateWindow
<1>9. NoZombieClient'
  BY <1>1, <1>2, <1>5, <1>6 DEF NoZombieClient, Exists, Pending, xvars
<1>10. FreedUnlisted'
  <2>1. TodoOK BY <1>6 DEF TodoOK, TypeOK
  <2>2. Listed' \subseteq Listed BY <1>1, <1>2, <1>5 DEF Listed
  <2>. QED BY <2>1, <2>2, FreedStayUnlisted
<1>. QED BY <1>7, <1>8, <1>9, <1>10

\* Two clients exchange their windows.
LEMMA SwapPreserves ==
    ASSUME IInv, NEW c \in Listed, NEW d \in Listed, NEW m \in Listed,
           client_list_swap(c, d, m)
    PROVE  IInv'
<1>. USE DEF IInv
<1>1. /\ client_list \in Seq(Clients) /\ c \in Clients /\ d \in Clients /\ m \in Clients
      /\ \A i \in DOMAIN client_list : client_list[i] \in Clients
  BY ListedTyped DEF TypeOK, Listed
<1>2. /\ window' = [window EXCEPT ![c] = window[d], ![d] = window[c]]
      /\ UNCHANGED <<xvars, client_list, next, tiled, pointer_window, status>>
  BY DEF client_list_swap
<1>3. \A e \in Clients : window'[e] = IF e = c THEN window[d]
                                      ELSE IF e = d THEN window[c] ELSE window[e]
  BY <1>1, <1>2 DEF TypeOK
<1>4. todo' \in Seq(CallSet) /\ Clean(todo') /\ caught' \in BOOLEAN
  <2>. DEFINE f == Call("focus_client", m)
              t == Call("auto_tile", m)
  <2>1. /\ f \in CallSet /\ t \in CallSet /\ f.proc # "free" /\ t.proc # "free"
    BY <1>1 DEF Call, CallSet, Procs, CoreProcs
  <2>. HIDE DEF f, t
  <2>2. todo' = <<f, t>> BY DEF client_list_swap, Start, f, t
  <2>3. caught' \in BOOLEAN BY DEF client_list_swap, Start
  <2>. QED BY <2>1, <2>2, <2>3 DEF Clean
<1>5. TypeOK'
  <2>1. window' \in [Clients -> Windows \cup {NoWindow}] BY <1>1, <1>2 DEF TypeOK
  <2>. QED BY <1>2, <1>4, <2>1 DEF TypeOK, XTypeOK, xvars
<1>6. NoDuplicateWindow'
  <2>1. \A e, f \in Listed : e # f => window[e] # window[f]
    BY DEF NoDuplicateWindow, Listed
  <2>2. \A e, f \in Listed : e # f => window'[e] # window'[f]
    BY <1>3, <2>1, ListedTyped
  <2>3. \A i, j \in DOMAIN client_list : i # j =>
           /\ client_list[i] \in Listed /\ client_list[j] \in Listed
           /\ client_list[i] # client_list[j]
    BY ListedOnce DEF Listed
  <2>4. \A i, j \in DOMAIN client_list : i # j =>
           window'[client_list[i]] # window'[client_list[j]]
    BY <2>2, <2>3
  <2>5. client_list' = client_list BY <1>2
  <2>. QED BY <2>4, <2>5 DEF NoDuplicateWindow
<1>7. NoZombieClient'
  <2>1. \A e \in Listed : Exists(window[e]) \/ Pending("DestroyNotify", window[e])
    BY DEF NoZombieClient, Listed
  <2>2. \A e \in Listed : Exists(window'[e]) \/ Pending("DestroyNotify", window'[e])
    BY <1>3, <2>1, ListedTyped
  <2>3. \A w : (Exists(w)' <=> Exists(w))
             /\ (Pending("DestroyNotify", w)' <=> Pending("DestroyNotify", w))
    BY <1>2 DEF Exists, Pending, xvars
  <2>4. client_list' = client_list /\ \A i \in DOMAIN client_list : client_list[i] \in Listed
    BY <1>2 DEF Listed
  <2>. QED BY <2>2, <2>3, <2>4, Zenon DEF NoZombieClient, Exists, Pending
<1>8. FreedUnlisted' BY <1>4 DEF FreedUnlisted, Clean
<1>. QED BY <1>5, <1>6, <1>7, <1>8
LEMMA RunCommandPreserves ==
    ASSUME ClientsAssumption, IInv, RunCommand
    PROVE  IInv'
<1>. USE DEF IInv
<1>1. ASSUME NEW calls \in Seq(CallSet), Clean(calls), Start(calls),
             UNCHANGED <<xvars, client_list, window, next, tiled, pointer_window, status>>
      PROVE  IInv'
  <2>1. TodoOK BY <1>1, StartOK DEF Start
  <2>. QED BY <1>1, <2>1, TodoStep
<1>2. ASSUME NEW c \in Listed, NEW p \in Procs, p # "free", Start(<<Call(p, c)>>),
             UNCHANGED <<xvars, client_list, window, next, tiled, pointer_window, status>>
      PROVE  IInv'
  <2>. DEFINE calls == <<Call(p, c)>>
  <2>1. calls \in Seq(CallSet) /\ Clean(calls) BY <1>2, ListedCallTyped
  <2>2. Start(calls) BY <1>2
  <2>. HIDE DEF calls
  <2>. QED BY <1>1, <1>2, <2>1, <2>2
<1>3. /\ {"map_client", "unmap_client", "destroy_client"} \subseteq Procs
      /\ "free" \notin {"map_client", "unmap_client", "destroy_client"}
  BY DEF Procs, CoreProcs
<1>4. CASE ClientCommand
  <2>1. PICK c \in Listed, p \in {"map_client", "unmap_client", "destroy_client"} :
           Start(<<Call(p, c)>>)
    BY <1>4 DEF ClientCommand
  <2>2. p \in Procs /\ p # "free" BY <1>3
  <2>. QED BY <1>2, <1>4, <2>1, <2>2 DEF ClientCommand
<1>5. CASE FocusCommand
  <2>1. PICK p \in {"focus_next", "focus_prev"} :
           Start(<<Call(p, get_focus_client)>>)
    BY <1>5 DEF FocusCommand
  <2>. DEFINE calls == <<Call(p, get_focus_client)>>
  <2>2. get_focus_client \in Clients \cup {Unspecified}
    BY FocusClientTyped, ListedTyped
  <2>3. calls \in Seq(CallSet) /\ Clean(calls) BY <2>2, FocusCallTyped
  <2>4. Start(calls) BY <2>1
  <2>. HIDE DEF calls
  <2>. QED BY <1>1, <1>5, <2>3, <2>4 DEF FocusCommand
<1>6. CASE close
  <2>1. CASE Crash BY <2>1, CrashPreserves
  <2>2. CASE ~Crash
    <3>1. /\ get_focus_client # Unspecified
          /\ Start(<<Call("destroy_client", get_focus_client)>>)
          /\ UNCHANGED <<xvars, client_list, window, next, tiled,
                         pointer_window, status>>
      BY <1>6, <2>2 DEF close
    <3>2. PICK c : c = get_focus_client OBVIOUS
    <3>3. c \in Listed BY <3>1, <3>2, FocusClientTyped
    <3>4. "destroy_client" \in Procs /\ "destroy_client" # "free" BY <1>3
    <3>. QED BY <1>2, <3>1, <3>2, <3>3, <3>4
  <2>. QED BY <2>1, <2>2
<1>7. CASE client_list_reverse BY <1>7, ReversePreserves
<1>8. CASE swap_master
  <2>1. ASSUME Raise PROVE IInv'
    <3>1. TodoOK BY <2>1 DEF Raise, TodoOK, TypeOK
    <3>2. XPreserved BY <2>1, XUnchanged DEF Raise, TypeOK
    <3>. QED BY <2>1, <3>1, <3>2, QuietStep DEF Raise, TypeOK
  <2>2. ASSUME Crash PROVE IInv' BY <2>2, CrashPreserves
  <2>3. \A i \in VisibleAt : client_list[i] \in Listed BY DEF VisibleAt, Listed
  <2>4. get_focus_client # Unspecified => get_focus_client \in Listed
    BY FocusClientTyped
  <2>5. \/ Raise \/ Crash
        \/ \E c, d, m \in Listed : client_list_swap(c, d, m)
    BY <1>8, <2>3, <2>4 DEF swap_master
  <2>. QED BY <2>1, <2>2, <2>5, SwapPreserves
<1>. QED BY <1>4, <1>5, <1>6, <1>7, <1>8 DEF RunCommand

LEMMA PointerPreserves ==
    ASSUME ClientsAssumption, IInv, auto_focus_pointer
    PROVE  IInv'
<1>. USE DEF IInv
<1>1. XPreserved /\ UNCHANGED <<client_list, window, next, tiled, status>>
  BY XUnchanged DEF auto_focus_pointer, TypeOK
<1>2. pointer_window' \in Windows \cup {NoWindow}
  BY DEF auto_focus_pointer, TypeOK
<1>3. TodoOK
  <2>0. caught' = FALSE BY DEF auto_focus_pointer
  <2>1. CASE UNCHANGED todo BY <2>0, <2>1 DEF TodoOK, TypeOK
  <2>2. CASE todo' = <<>> BY <2>0, <2>2, NoCalls, StartOK
  <2>3. ASSUME NEW i \in DOMAIN client_list,
               todo' = <<Call("set_focus_client", client_list[i])>>
        PROVE  TodoOK
    <3>. DEFINE calls == <<Call("set_focus_client", client_list[i])>>
    <3>1. "set_focus_client" \in Procs /\ "set_focus_client" # "free" BY DEF Procs, CoreProcs
    <3>2. client_list[i] \in Listed BY DEF Listed
    <3>3. calls \in Seq(CallSet) /\ Clean(calls) BY <3>1, <3>2, ListedCallTyped
    <3>4. todo' = calls BY <2>3
    <3>. HIDE DEF calls
    <3>. QED BY <2>0, <3>3, <3>4, StartOK
  <2>. QED BY <2>1, <2>2, <2>3 DEF auto_focus_pointer
<1>. QED BY <1>1, <1>2, <1>3, QuietStep DEF TypeOK

LEMMA AppActionPreserves ==
    ASSUME XServerAssumption, IInv, AppAction
    PROVE  IInv'
<1>1. XPreserved BY AppStepPreserves DEF AppAction, IInv, TypeOK
<1>2. TodoOK BY DEF AppAction, nvars, TodoOK, IInv, TypeOK
<1>. QED BY <1>1, <1>2, QuietStep DEF AppAction, nvars, IInv, TypeOK

----------------------------------------------------------------------------
(* The theorems.                                                           *)

LEMMA InitInv == XServerAssumption /\ Init => IInv
<1>. SUFFICES ASSUME XServerAssumption, Init PROVE IInv OBVIOUS
<1>1. client_list = <<>> /\ todo = <<>> /\ xqueue = <<>> BY DEF Init, XInit
<1>2. /\ client_list \in Seq(Clients) /\ todo \in Seq(CallSet) /\ xqueue \in Seq(EventSet)
      /\ DOMAIN client_list = {} /\ DOMAIN todo = {}
  BY <1>1, EmptySeq
<1>3. XTypeOK
  <2>1. /\ xstate \in [Windows -> {"absent", "unmapped", "found"}]
        /\ xoverride \subseteq MayOverride /\ xfocus \in Windows \cup {NoWindow}
        /\ lives = [w \in Windows |-> IF xstate[w] = "absent" THEN 0 ELSE 1]
    BY DEF Init, XInit
  <2>. QED BY <1>2, <2>1 DEF XTypeOK, XServerAssumption
<1>4. TypeOK BY <1>2, <1>3 DEF TypeOK, Init
<1>. QED BY <1>2, <1>4 DEF IInv, NoDuplicateWindow, NoZombieClient, FreedUnlisted

LEMMA StutterPreserves == IInv /\ UNCHANGED vars => IInv'
<1>. SUFFICES ASSUME IInv, UNCHANGED vars PROVE IInv' OBVIOUS
<1>1. TodoOK BY DEF vars, nvars, TodoOK, IInv, TypeOK
<1>. QED BY <1>1, TodoStep DEF vars, nvars

LEMMA NextPreserves == IInv /\ [Next]_vars => IInv'
<1>. SUFFICES ASSUME IInv, [Next]_vars PROVE IInv' OBVIOUS
<1>1. XServerAssumption /\ ClientsAssumption BY XServerAssumption, ClientsAssumption
<1>2. CASE AppAction BY <1>1, <1>2, AppActionPreserves
<1>3. CASE HandleEvent BY <1>1, <1>3, HandleEventPreserves
<1>4. CASE NwmStep BY <1>1, <1>4, NwmStepPreserves
<1>5. CASE RunCommand BY <1>1, <1>5, RunCommandPreserves
<1>6. CASE auto_focus_pointer BY <1>1, <1>6, PointerPreserves
<1>7. CASE Dead BY <1>7, StutterPreserves DEF Dead
<1>8. CASE UNCHANGED vars BY <1>8, StutterPreserves
<1>. QED BY <1>2, <1>3, <1>4, <1>5, <1>6, <1>7, <1>8 DEF Next

\* The inductive invariant holds in every state nwm can reach.
THEOREM Invariant == Spec => []IInv
BY XServerAssumption, InitInv, NextPreserves, PTL DEF Spec

\* nwm's state keeps its types: what a call is given is a structure wherever
\* the C code dereferences it.
THEOREM TypeCorrect == Spec => []TypeOK
<1>1. IInv => TypeOK BY DEF IInv
<1>. QED BY <1>1, Invariant, PTL

\* nwm never manages one window through two structures (manage_window,
\* handle_map_request_event), whatever the programs, the commands and the
\* hooks do and however often X reuses an id.
THEOREM NoWindowManagedTwice == Spec => []NoDuplicateWindow
<1>1. IInv => NoDuplicateWindow BY DEF IInv
<1>. QED BY <1>1, Invariant, PTL

\* nwm never keeps a client of a destroyed window without the event that
\* makes handle_destroy_notify_event drop it being on its way.
THEOREM NoZombieKept == Spec => []NoZombieClient
<1>1. IInv => NoZombieClient BY DEF IInv
<1>. QED BY <1>1, Invariant, PTL
----------------------------------------------------------------------------
(* Clients leave on notice: an action property, from the same invariant.   *)

\* No window leaves the list.
NoneLeaves == \A w : Managed(w) => Managed(w)'

LEMMA UntouchedListStays == UNCHANGED <<client_list, window>> => NoneLeaves
BY DEF NoneLeaves, Managed

\* Taking position i off the list makes only its window leave.
LEMMA OnlyOneLeaves ==
    ASSUME TypeOK, NEW i \in DOMAIN client_list, Unlink(i)
    PROVE  \A w : Managed(w) /\ w # window[client_list[i]] => Managed(w)'
<1>1. /\ client_list \in Seq(Clients) /\ Len(client_list) \in Nat
      /\ DOMAIN client_list = 1..Len(client_list)
  BY LenProperties DEF TypeOK
<1>2. /\ DOMAIN client_list' = 1..(Len(client_list) - 1)
      /\ \A j \in 1..(Len(client_list) - 1) :
            client_list'[j] = IF j < i THEN client_list[j] ELSE client_list[j + 1]
  BY <1>1, RemoveAtProperties DEF Unlink
<1>3. ASSUME NEW w, Managed(w), w # window[client_list[i]]
      PROVE  Managed(w)'
  <2>1. PICK j \in DOMAIN client_list : window[client_list[j]] = w
    BY <1>3 DEF Managed
  <2>2. j # i BY <1>3, <2>1
  <2>. DEFINE k == IF j < i THEN j ELSE j - 1
  <2>3. k \in DOMAIN client_list' /\ client_list'[k] = client_list[j]
    BY <1>1, <1>2, <2>2
  <2>4. window' = window BY DEF Unlink
  <2>. HIDE DEF k
  <2>. QED BY <2>1, <2>3, <2>4 DEF Managed
<1>. QED BY <1>3

LEMMA NewClientStays ==
    ASSUME TypeOK, NEW w, NEW c \in Clients \ Listed, manage_window(c, w)
    PROVE  NoneLeaves
<1>1. /\ client_list \in Seq(Clients) /\ Len(client_list) \in Nat
      /\ DOMAIN client_list = 1..Len(client_list)
      /\ <<c>> \in Seq(Clients) /\ Len(<<c>>) = 1
  BY LenProperties, Singleton DEF TypeOK
<1>2. /\ client_list' \in Seq(Clients)
      /\ Len(client_list') = Len(<<c>>) + Len(client_list)
      /\ \A j \in 1..(Len(<<c>>) + Len(client_list)) :
            client_list'[j] = IF j <= Len(<<c>>) THEN <<c>>[j]
                              ELSE client_list[j - Len(<<c>>)]
  BY <1>1, ConcatProperties DEF manage_window
<1>3. DOMAIN client_list' = 1..(1 + Len(client_list)) BY <1>1, <1>2, LenProperties
<1>4. ASSUME NEW j \in DOMAIN client_list
      PROVE  /\ j + 1 \in DOMAIN client_list'
             /\ client_list'[j + 1] = client_list[j]
             /\ window'[client_list[j]] = window[client_list[j]]
  <2>1. client_list[j] # c BY DEF Listed
  <2>. QED BY <1>1, <1>2, <1>3, <2>1, ListedTyped DEF manage_window, TypeOK, Listed
<1>. QED BY <1>4 DEF NoneLeaves, Managed

LEMMA EventLeaves ==
    ASSUME IInv, HandleEvent, NEW w, Managed(w), ~Managed(w)'
    PROVE  /\ xqueue # <<>> /\ EventWindow = w
           /\ \/ Head(xqueue).type = "DestroyNotify"
              \/ Head(xqueue).type = "UnmapNotify" /\ Head(xqueue).sent
<1>. USE DEF IInv
<1>1. CASE handle_map_request_event
  <2>1. CASE UNCHANGED <<client_list, window, next>>
    BY <2>1, UntouchedListStays DEF NoneLeaves
  <2>2. CASE \E c \in Clients \ Listed : manage_window(c, EventWindow)
    BY <2>2, NewClientStays DEF NoneLeaves
  <2>. QED BY <1>1, <2>1, <2>2 DEF handle_map_request_event
<1>2. CASE handle_destroy_notify_event
  <2>1. CASE UNCHANGED <<client_list, window, next>>
    BY <2>1, UntouchedListStays DEF NoneLeaves
  <2>2. CASE \E i \in DOMAIN client_list : Finds(EventWindow, i) /\ Unlink(i)
    BY <1>2, <2>2, OnlyOneLeaves DEF handle_destroy_notify_event, TakeEvent, Finds
  <2>. QED BY <1>2, <2>1, <2>2 DEF handle_destroy_notify_event
<1>3. CASE handle_unmap_notify_event
  <2>1. CASE UNCHANGED <<client_list, window, next>>
    BY <2>1, UntouchedListStays DEF NoneLeaves
  <2>2. CASE /\ Head(xqueue).sent
             /\ \E i \in DOMAIN client_list : Finds(EventWindow, i) /\ Unlink(i)
    BY <1>3, <2>2, OnlyOneLeaves DEF handle_unmap_notify_event, TakeEvent, Finds
  <2>. QED BY <1>3, <2>1, <2>2 DEF handle_unmap_notify_event
<1>. QED BY <1>1, <1>2, <1>3 DEF HandleEvent

LEMMA FreeLeavesNone ==
    ASSUME IInv, free
    PROVE  NoneLeaves
<1>. USE DEF IInv
<1>1. CASE Crash BY <1>1, UntouchedListStays DEF Crash
<1>2. CASE ~Crash
  <2>1. PICK garbage : window' = [window EXCEPT ![Arg] = garbage]
    BY <1>2 DEF free
  <2>2. client_list' = client_list BY <1>2 DEF free
  <2>3. Arg \notin Listed
    <3>1. 1 \in DOMAIN todo /\ todo[1] = Head(todo)
      BY EmptySeq, LenProperties DEF free, Calls, TypeOK
    <3>. QED BY <3>1 DEF FreedUnlisted, free, Calls, Arg
  <2>4. \A i \in DOMAIN client_list : client_list[i] \in Clients /\ client_list[i] # Arg
    BY <2>3, ListedTyped DEF Listed
  <2>. QED BY <2>1, <2>2, <2>4 DEF NoneLeaves, Managed, TypeOK
<1>. QED BY <1>1, <1>2

LEMMA ReverseLeavesNone ==
    ASSUME TypeOK, client_list_reverse
    PROVE  NoneLeaves
<1>. DEFINE n == Len(client_list)
            old(j) == (n - j) + 1
<1>1. n \in Nat /\ DOMAIN client_list = 1..n BY LenProperties DEF TypeOK
<1>2. client_list' = [j \in 1..n |-> client_list[old(j)]] /\ window' = window
  BY DEF client_list_reverse, Reverse
<1>3. \A j \in 1..n : old(j) \in 1..n /\ old(old(j)) = j BY <1>1
<1>. HIDE DEF n, old
<1>. QED BY <1>1, <1>2, <1>3 DEF NoneLeaves, Managed

LEMMA SwapLeavesNone ==
    ASSUME TypeOK, NEW c \in Listed, NEW d \in Listed, NEW m,
           client_list_swap(c, d, m)
    PROVE  NoneLeaves
<1>1. /\ window' = [window EXCEPT ![c] = window[d], ![d] = window[c]]
      /\ client_list' = client_list
  BY DEF client_list_swap
<1>2. \A e \in Listed : window'[e] = IF e = c THEN window[d]
                                     ELSE IF e = d THEN window[c] ELSE window[e]
  BY <1>1, ListedTyped DEF TypeOK
<1>3. \A w : Managed(w) <=> \E e \in Listed : window[e] = w BY DEF Managed, Listed
<1>4. \A w : Managed(w)' <=> \E e \in Listed : window'[e] = w
  BY <1>1 DEF Managed, Listed
<1>. QED BY <1>2, <1>3, <1>4 DEF NoneLeaves

\* A client leaves the list only when the event being handled says that its
\* window was destroyed, or that its program withdrew it.
THEOREM ClientsLeave == Spec => ClientsLeaveOnNotice
<1>. DEFINE A == \A w \in Windows :
                    Managed(w) /\ ~Managed(w)' =>
                       /\ xqueue # <<>> /\ EventWindow = w
                       /\ \/ Head(xqueue).type = "DestroyNotify"
                          \/ Head(xqueue).type = "UnmapNotify" /\ Head(xqueue).sent
<1>1. ASSUME IInv, Next
      PROVE  A
  <2>1. CASE HandleEvent BY <1>1, <2>1, EventLeaves
  <2>2. NoneLeaves => A BY DEF NoneLeaves
  <2>3. CASE AppAction BY <2>2, <2>3, UntouchedListStays DEF AppAction, nvars
  <2>4. CASE NwmStep
    <3>1. CASE free BY <1>1, <2>2, <3>1, FreeLeavesNone
    <3>2. CASE ~free
      <4>1. UNCHANGED <<client_list, window>>
        BY <2>4, <3>2 DEF NwmStep, map_client, unmap_client, destroy_client, Crash,
           kill_client, set_focus_client, focus_client, focus_next_client,
           auto_tile, focus_next, focus_prev, FocusNeighbour
      <4>. QED BY <2>2, <4>1, UntouchedListStays
    <3>. QED BY <3>1, <3>2
  <2>5. CASE RunCommand
    <3>1. CASE client_list_reverse
      BY <1>1, <2>2, <3>1, ReverseLeavesNone DEF IInv
    <3>2. CASE swap_master
      <4>1. \A i \in VisibleAt : client_list[i] \in Listed BY DEF VisibleAt, Listed
      <4>2. get_focus_client # Unspecified => get_focus_client \in Listed
        BY <1>1, FocusClientTyped DEF IInv
      <4>3. \/ Raise \/ Crash
            \/ \E c, d, m \in Listed : client_list_swap(c, d, m)
        BY <3>2, <4>1, <4>2 DEF swap_master
      <4>4. Raise \/ Crash => UNCHANGED <<client_list, window>> BY DEF Raise, Crash
      <4>. QED BY <1>1, <2>2, <4>3, <4>4, UntouchedListStays, SwapLeavesNone DEF IInv
    <3>3. CASE ClientCommand \/ FocusCommand \/ close
      <4>1. UNCHANGED <<client_list, window>>
        BY <3>3 DEF ClientCommand, FocusCommand, close, Crash
      <4>. QED BY <2>2, <4>1, UntouchedListStays
    <3>. QED BY <2>5, <3>1, <3>2, <3>3 DEF RunCommand
  <2>6. CASE auto_focus_pointer
    BY <2>2, <2>6, UntouchedListStays DEF auto_focus_pointer
  <2>7. CASE Dead BY <2>2, <2>7, UntouchedListStays DEF Dead, vars, nvars
  <2>. QED BY <1>1, <2>1, <2>3, <2>4, <2>5, <2>6, <2>7 DEF Next
<1>2. IInv /\ [Next]_vars => [A]_vars BY <1>1
<1>. HIDE DEF A
<1>3. Spec => [][A]_vars BY <1>2, Invariant, PTL DEF Spec
<1>. QED BY <1>3 DEF A, ClientsLeaveOnNotice

----------------------------------------------------------------------------
(* Clients implements WindowManagement.  Every step of the server, a        *)
(* handler, a call or a command is one abstract step or none; IInv is what  *)
(* makes the handlers right: a notice releases its window only if no second *)
(* structure has it.                                                        *)

Elements(q) == {q[i] : i \in DOMAIN q}

Asks(event, w) == event.type = "MapRequest" /\ event.window = w

\* The abstract state, named.
Alive == {w \in Windows : Exists(w)}
Requests == {w \in Windows : Pending("MapRequest", w)}
Notices == {w \in Windows : \E i \in DOMAIN xqueue : Tells(xqueue[i], w)}

absvars == <<Alive, xoverride, Requests, Notices, ManagedWindows, status = "running">>

LEMMA AbstractState ==
    /\ Requests = {w \in Windows : \E e \in Elements(xqueue) : Asks(e, w)}
    /\ Notices = {w \in Windows : \E e \in Elements(xqueue) : Tells(e, w)}
BY DEF Requests, Notices, Elements, Asks, Pending

LEMMA AbstractStateNext ==
    /\ Requests' = {w \in Windows : \E e \in Elements(xqueue)' : Asks(e, w)}
    /\ Notices' = {w \in Windows : \E e \in Elements(xqueue)' : Tells(e, w)}
BY DEF Requests, Notices, Elements, Asks, Tells, Pending

LEMMA ConcatElements ==
    ASSUME NEW S, NEW s \in Seq(S), NEW t \in Seq(S)
    PROVE  Elements(s \o t) = Elements(s) \cup Elements(t)
<1>1. /\ s \o t \in Seq(S) /\ Len(s \o t) = Len(s) + Len(t)
      /\ \A i \in 1..(Len(s) + Len(t)) :
            (s \o t)[i] = IF i <= Len(s) THEN s[i] ELSE t[i - Len(s)]
  BY ConcatProperties
<1>2. /\ DOMAIN s = 1..Len(s) /\ Len(s) \in Nat
      /\ DOMAIN t = 1..Len(t) /\ Len(t) \in Nat
      /\ DOMAIN (s \o t) = 1..(Len(s) + Len(t))
  BY <1>1, LenProperties
<1>3. ASSUME NEW i \in DOMAIN s PROVE s[i] \in Elements(s \o t)
  <2>1. i \in DOMAIN (s \o t) /\ (s \o t)[i] = s[i] BY <1>1, <1>2
  <2>. QED BY <2>1 DEF Elements
<1>4. ASSUME NEW i \in DOMAIN t PROVE t[i] \in Elements(s \o t)
  <2>1. Len(s) + i \in DOMAIN (s \o t) /\ (s \o t)[Len(s) + i] = t[i] BY <1>1, <1>2
  <2>. QED BY <2>1 DEF Elements
<1>5. ASSUME NEW i \in DOMAIN (s \o t)
      PROVE  (s \o t)[i] \in Elements(s) \cup Elements(t)
  <2>1. CASE i <= Len(s) BY <1>1, <1>2, <2>1 DEF Elements
  <2>2. CASE ~(i <= Len(s))
    <3>1. i - Len(s) \in DOMAIN t /\ (s \o t)[i] = t[i - Len(s)] BY <1>1, <1>2, <2>2
    <3>. QED BY <3>1 DEF Elements
  <2>. QED BY <2>1, <2>2
<1>. QED BY <1>3, <1>4, <1>5 DEF Elements

LEMMA TailElements ==
    ASSUME NEW S, NEW s \in Seq(S), s # <<>>
    PROVE  Elements(s) = Elements(Tail(s)) \cup {Head(s)}
<1>1. /\ Tail(s) \in Seq(S) /\ Len(Tail(s)) = Len(s) - 1
      /\ \A i \in 1..Len(Tail(s)) : Tail(s)[i] = s[i + 1]
  BY HeadTailProperties
<1>2. /\ DOMAIN s = 1..Len(s) /\ Len(s) \in Nat \ {0} /\ Head(s) = s[1]
      /\ DOMAIN Tail(s) = 1..(Len(s) - 1)
  BY <1>1, LenProperties, EmptySeq
<1>3. ASSUME NEW i \in DOMAIN s PROVE s[i] \in Elements(Tail(s)) \cup {Head(s)}
  <2>1. CASE i = 1 BY <1>2, <2>1
  <2>2. CASE i # 1
    <3>1. i - 1 \in DOMAIN Tail(s) /\ Tail(s)[i - 1] = s[i] BY <1>1, <1>2, <2>2
    <3>. QED BY <3>1 DEF Elements
  <2>. QED BY <2>1, <2>2
<1>4. ASSUME NEW i \in DOMAIN Tail(s) PROVE Tail(s)[i] \in Elements(s)
  <2>1. i + 1 \in DOMAIN s /\ Tail(s)[i] = s[i + 1] BY <1>1, <1>2
  <2>. QED BY <2>1 DEF Elements
<1>5. Head(s) \in Elements(s) BY <1>2 DEF Elements
<1>. QED BY <1>3, <1>4, <1>5 DEF Elements
----------------------------------------------------------------------------
(* The abstract steps, in terms of the named state.                        *)

Live == status = "running"

Stutter == UNCHANGED <<Alive, xoverride, Requests, Notices, ManagedWindows, status>>

\* One abstract step, or none.
AbstractStep == WM!WMNext \/ UNCHANGED WM!wmvars

LEMMA StutterStep == Stutter => AbstractStep
BY DEF Stutter, AbstractStep, WM!wmvars, Alive, Requests, Notices

LEMMA CreateStep ==
    ASSUME Live, NEW w \in Windows, w \notin Alive, Alive' = Alive \cup {w},
           xoverride' \in {xoverride, xoverride \cup {w}},
           UNCHANGED <<Requests, Notices, ManagedWindows, status>>
    PROVE  AbstractStep
<1>1. WM!Create(w) BY DEF WM!Create, Live, Alive, Requests, Notices
<1>. QED BY <1>1 DEF AbstractStep, WM!WMNext, Live

LEMMA AskStep ==
    ASSUME Live, NEW w \in Windows, w \in Alive \ xoverride,
           Requests' = Requests \cup {w},
           UNCHANGED <<Alive, xoverride, Notices, ManagedWindows, status>>
    PROVE  AbstractStep
<1>1. WM!Ask(w) BY DEF WM!Ask, Live, Alive, Requests, Notices
<1>. QED BY <1>1 DEF AbstractStep, WM!WMNext, Live

LEMMA EndStep ==
    ASSUME Live, NEW w \in Windows, w \in Alive, Alive' = Alive \ {w},
           xoverride' = xoverride \ {w}, Notices' = Notices \cup {w},
           UNCHANGED <<Requests, ManagedWindows, status>>
    PROVE  AbstractStep
<1>1. WM!End(w) BY DEF WM!End, Live, Alive, Requests, Notices
<1>. QED BY <1>1 DEF AbstractStep, WM!WMNext, Live

LEMMA WithdrawStep ==
    ASSUME Live, NEW w \in Windows, w \in Alive, Notices' = Notices \cup {w},
           UNCHANGED <<Alive, xoverride, Requests, ManagedWindows, status>>
    PROVE  AbstractStep
<1>1. WM!Withdraw(w) BY DEF WM!Withdraw, Live, Alive, Requests, Notices
<1>. QED BY <1>1 DEF AbstractStep, WM!WMNext, Live

LEMMA ServeStep ==
    ASSUME Live, NEW w \in Requests, Requests' \in {Requests, Requests \ {w}},
           ManagedWindows' = IF w \in Alive \ xoverride
                             THEN ManagedWindows \cup {w} ELSE ManagedWindows,
           UNCHANGED <<Alive, xoverride, Notices, status>>
    PROVE  AbstractStep
<1>1. w \in Windows BY DEF Requests
<1>2. WM!Serve(w) BY DEF WM!Serve, WM!Read, Live, Alive, Requests, Notices
<1>. QED BY <1>1, <1>2 DEF AbstractStep, WM!WMNext, Live

LEMMA ReleaseStep ==
    ASSUME Live, NEW w \in Notices, Notices' \in {Notices, Notices \ {w}},
           ManagedWindows' = ManagedWindows \ {w},
           UNCHANGED <<Alive, xoverride, Requests, status>>
    PROVE  AbstractStep
<1>1. w \in Windows BY DEF Notices
<1>2. WM!Release(w) BY DEF WM!Release, WM!Read, Live, Alive, Requests, Notices
<1>. QED BY <1>1, <1>2 DEF AbstractStep, WM!WMNext, Live

LEMMA DieStep ==
    ASSUME Live, status' = "dead",
           UNCHANGED <<Alive, xoverride, Requests, Notices, ManagedWindows>>
    PROVE  AbstractStep
<1>1. WM!Die BY DEF WM!Die, Live, Alive, Requests, Notices
<1>. QED BY <1>1 DEF AbstractStep, WM!WMNext, Live

----------------------------------------------------------------------------
(* What the server's steps are in these terms.                             *)

\* Events put at the end of the queue.
LEMMA QueueSees ==
    ASSUME XTypeOK, NEW s \in Seq(EventSet), xqueue' = xqueue \o s
    PROVE  /\ Requests' = Requests \cup
                          {w \in Windows : \E e \in Elements(s) : Asks(e, w)}
           /\ Notices' = Notices \cup
                         {w \in Windows : \E e \in Elements(s) : Tells(e, w)}
<1>1. Elements(xqueue)' = Elements(xqueue) \cup Elements(s)
  <2>1. Elements(xqueue \o s) = Elements(xqueue) \cup Elements(s)
    BY ConcatElements DEF XTypeOK
  <2>. QED BY <2>1 DEF Elements
<1>. QED BY <1>1, AbstractState, AbstractStateNext

LEMMA SameQueue == UNCHANGED xqueue => UNCHANGED <<Requests, Notices>>
BY DEF Requests, Notices, Pending

LEMMA NoElements == Elements(<<>>) = {}
BY EmptySeq DEF Elements

LEMMA OneElement == \A e \in EventSet : Elements(<<e>>) = {e}
BY DEF Elements

\* The server's own UnmapNotify says nothing that counts.
LEMMA UnmappingSilent ==
    ASSUME NEW w
    PROVE  /\ Unmapping(w) \in Seq(EventSet)
           /\ \A v : \A e \in Elements(Unmapping(w)) : ~Asks(e, v) /\ ~Tells(e, v)
<1>1. CASE ~Mapped(w) BY <1>1, NoElements, EmptySeq DEF Unmapping
<1>2. CASE Mapped(w)
  <2>. DEFINE ev == Event("UnmapNotify", w, FALSE)
  <2>1. ev \in EventSet /\ ev.type = "UnmapNotify" /\ ~ev.sent
    BY <1>2 DEF Mapped, Event, EventSet
  <2>2. Unmapping(w) = <<ev>> BY <1>2 DEF Unmapping
  <2>. HIDE DEF ev
  <2>3. <<ev>> \in Seq(EventSet) BY <2>1, Singleton
  <2>. QED BY <2>1, <2>2, <2>3, OneElement DEF Asks, Tells
<1>. QED BY <1>1, <1>2
\* Steps of the server without an effect on the abstract state.
SilentServer == UNCHANGED <<Alive, xoverride, Requests, Notices>>

LEMMA ServerMapSilent ==
    ASSUME XTypeOK, NEW w, ServerMap(w)
    PROVE  SilentServer
<1>1. UNCHANGED Alive BY DEF XTypeOK, ServerMap, Alive, Exists
<1>2. UNCHANGED <<Requests, Notices>> BY SameQueue DEF ServerMap
<1>. QED BY <1>1, <1>2 DEF SilentServer, ServerMap

LEMMA ServerFocusSilent ==
    ASSUME NEW w, ServerFocus(w)
    PROVE  SilentServer
<1>1. UNCHANGED Alive BY DEF ServerFocus, Alive, Exists
<1>2. UNCHANGED <<Requests, Notices>> BY SameQueue DEF ServerFocus
<1>. QED BY <1>1, <1>2 DEF SilentServer, ServerFocus

LEMMA ServerUnmapSilent ==
    ASSUME XTypeOK, NEW w, ServerUnmap(w)
    PROVE  SilentServer
<1>1. UNCHANGED Alive BY DEF XTypeOK, ServerUnmap, Alive, Exists, Mapped
<1>2. xqueue' = xqueue \o Unmapping(w) /\ UNCHANGED xoverride BY DEF ServerUnmap
<1>3. UNCHANGED <<Requests, Notices>>
  <2>1. {v \in Windows : \E e \in Elements(Unmapping(w)) : Asks(e, v)} = {}
    BY UnmappingSilent
  <2>2. {v \in Windows : \E e \in Elements(Unmapping(w)) : Tells(e, v)} = {}
    BY UnmappingSilent
  <2>3. /\ Requests' = Requests \cup
                   {v \in Windows : \E e \in Elements(Unmapping(w)) : Asks(e, v)}
        /\ Notices' = Notices \cup
                   {v \in Windows : \E e \in Elements(Unmapping(w)) : Tells(e, v)}
    BY <1>2, UnmappingSilent, QueueSees
  <2>. QED BY <2>1, <2>2, <2>3
<1>. QED BY <1>1, <1>2, <1>3 DEF SilentServer

\* Whatever comes before it, a last event is seen together with it.
LEMMA UnmappingThen ==
    ASSUME XTypeOK, NEW w \in Windows, NEW ev \in EventSet, ev.window = w,
           ev.type = "DestroyNotify" \/ (ev.type = "UnmapNotify" /\ ev.sent),
           xqueue' = xqueue \o Unmapping(w) \o <<ev>>
    PROVE  Requests' = Requests /\ Notices' = Notices \cup {w}
<1>. DEFINE u == Unmapping(w)
            s == u \o <<ev>>
<1>1. u \in Seq(EventSet) /\ <<ev>> \in Seq(EventSet)
  BY UnmappingSilent, Singleton
<1>2. s \in Seq(EventSet) /\ Elements(s) = Elements(u) \cup {ev}
  <2>. HIDE DEF u
  <2>1. s \in Seq(EventSet) BY <1>1, ConcatProperties
  <2>2. Elements(s) = Elements(u) \cup Elements(<<ev>>)
    BY <1>1, ConcatElements, ZenonT(30)
  <2>3. Elements(<<ev>>) = {ev} BY OneElement
  <2>. HIDE DEF s
  <2>. QED BY <2>1, <2>2, <2>3
<1>3. xqueue' = xqueue \o s
  <2>1. xqueue \in Seq(EventSet) BY DEF XTypeOK
  <2>. HIDE DEF u
  <2>2. xqueue' = xqueue \o u \o <<ev>> BY DEF u
  <2>3. (xqueue \o u) \o <<ev>> = xqueue \o (u \o <<ev>>)
    BY <1>1, <2>1, ConcatAssociative
  <2>. QED BY <2>2, <2>3
<1>4. \A v : \A e \in Elements(u) : ~Asks(e, v) /\ ~Tells(e, v) BY UnmappingSilent
<1>. HIDE DEF u, s
<1>5. {v \in Windows : \E e \in Elements(s) : Asks(e, v)} = {}
  BY <1>2, <1>4 DEF Asks
<1>6. {v \in Windows : \E e \in Elements(s) : Tells(e, v)} = {w}
  BY <1>2, <1>4 DEF Tells
<1>7. /\ Requests' = Requests \cup {v \in Windows : \E e \in Elements(s) : Asks(e, v)}
      /\ Notices' = Notices \cup {v \in Windows : \E e \in Elements(s) : Tells(e, v)}
  BY <1>2, <1>3, QueueSees
<1>. QED BY <1>5, <1>6, <1>7

LEMMA ServerDestroyStep ==
    ASSUME XTypeOK, Live, NEW w, ServerDestroy(w),
           UNCHANGED <<ManagedWindows, status>>
    PROVE  AbstractStep
<1>1. CASE ~Exists(w)
  <2>1. UNCHANGED xvars BY <1>1 DEF ServerDestroy
  <2>2. UNCHANGED <<Alive, xoverride, Requests, Notices>>
    BY <2>1, SameQueue DEF xvars, Alive, Exists
  <2>. QED BY <2>2, StutterStep DEF Stutter
<1>2. CASE Exists(w)
  <2>. DEFINE ev == Event("DestroyNotify", w, FALSE)
  <2>1. w \in Windows /\ w \in Alive BY <1>2 DEF Exists, Alive
  <2>2. ev \in EventSet /\ ev.window = w /\ ev.type = "DestroyNotify"
    BY <2>1 DEF Event, EventSet
  <2>3. /\ xstate' = [xstate EXCEPT ![w] = "absent"]
        /\ xoverride' = xoverride \ {w}
        /\ xqueue' = xqueue \o Unmapping(w) \o <<ev>>
    BY <1>2 DEF ServerDestroy
  <2>. HIDE DEF ev
  <2>4. Requests' = Requests /\ Notices' = Notices \cup {w}
    BY <2>1, <2>2, <2>3, UnmappingThen
  <2>5. Alive' = Alive \ {w} BY <2>1, <2>3 DEF XTypeOK, Alive, Exists
  <2>. QED BY <2>1, <2>3, <2>4, <2>5, EndStep
<1>. QED BY <1>1, <1>2

LEMMA AppStepImplements ==
    ASSUME XServerAssumption, XTypeOK, Live, AppStep, UNCHANGED <<ManagedWindows, status>>
    PROVE  AbstractStep
<1>1. PICK w \in Windows : \/ AppCreate(w) \/ AppMap(w) \/ AppUnmap(w)
                           \/ AppWithdraw(w) \/ AppDestroy(w) \/ AppFocus(w)
  BY DEF AppStep
<1>2. SilentServer => AbstractStep BY StutterStep DEF SilentServer, Stutter
<1>3. CASE AppCreate(w)
  <2>1. /\ w \notin Alive /\ Alive' = Alive \cup {w}
        /\ xoverride' \in {xoverride, xoverride \cup {w}}
    BY <1>3 DEF AppCreate, Alive, Exists, XTypeOK
  <2>2. UNCHANGED <<Requests, Notices>> BY <1>3, SameQueue DEF AppCreate
  <2>. QED BY <2>1, <2>2, CreateStep
<1>4. CASE AppMap(w)
  <2>1. CASE w \in xoverride BY <1>2, <1>4, <2>1, ServerMapSilent DEF AppMap
  <2>2. CASE w \notin xoverride
    <3>. DEFINE ev == Event("MapRequest", w, FALSE)
    <3>1. ev \in EventSet /\ ev.window = w /\ ev.type = "MapRequest"
      BY DEF Event, EventSet
    <3>2. xqueue' = Append(xqueue, ev) /\ UNCHANGED <<xstate, xoverride>>
      BY <1>4, <2>2 DEF AppMap
    <3>. HIDE DEF ev
    <3>3. xqueue' = xqueue \o <<ev>> /\ <<ev>> \in Seq(EventSet)
      BY <3>1, <3>2, AppendIsConcat, Singleton DEF XTypeOK
    <3>4. {v \in Windows : \E e \in Elements(<<ev>>) : Asks(e, v)} = {w}
      BY <3>1, OneElement DEF Asks
    <3>5. {v \in Windows : \E e \in Elements(<<ev>>) : Tells(e, v)} = {}
      BY <3>1, OneElement DEF Tells
    <3>6. Requests' = Requests \cup {w} /\ Notices' = Notices
      <4>1. /\ Requests' = Requests \cup
                     {v \in Windows : \E e \in Elements(<<ev>>) : Asks(e, v)}
            /\ Notices' = Notices \cup
                     {v \in Windows : \E e \in Elements(<<ev>>) : Tells(e, v)}
        BY <3>3, QueueSees
      <4>. QED BY <3>4, <3>5, <4>1
    <3>7. UNCHANGED Alive /\ w \in Alive
      BY <1>4, <3>2 DEF Alive, Exists, AppMap
    <3>. QED BY <2>2, <3>2, <3>6, <3>7, AskStep
  <2>. QED BY <2>1, <2>2
<1>5. CASE AppUnmap(w) BY <1>2, <1>5, ServerUnmapSilent DEF AppUnmap
<1>6. CASE AppFocus(w) BY <1>2, <1>6, ServerFocusSilent DEF AppFocus
<1>7. CASE AppDestroy(w) BY <1>7, ServerDestroyStep DEF AppDestroy
<1>8. CASE AppWithdraw(w)
  <2>. DEFINE ev == Event("UnmapNotify", w, TRUE)
  <2>1. ev \in EventSet /\ ev.window = w /\ ev.type = "UnmapNotify" /\ ev.sent
    BY DEF Event, EventSet
  <2>2. xqueue' = xqueue \o Unmapping(w) \o <<ev>> BY <1>8 DEF AppWithdraw
  <2>. HIDE DEF ev
  <2>3. Requests' = Requests /\ Notices' = Notices \cup {w}
    BY <2>1, <2>2, UnmappingThen
  <2>4. UNCHANGED <<Alive, xoverride>> /\ w \in Alive
    BY <1>8 DEF AppWithdraw, Alive, Exists, XTypeOK
  <2>. QED BY <2>3, <2>4, WithdrawStep
<1>. QED BY <1>1, <1>3, <1>4, <1>5, <1>6, <1>7, <1>8
----------------------------------------------------------------------------
(* The steps of nwm.                                                       *)

\* No window joins or leaves.
Kept == NoneLeaves /\ \A w : Managed(w)' => Managed(w)

LEMMA KeptWindows == Kept => UNCHANGED ManagedWindows
BY DEF Kept, NoneLeaves, ManagedWindows

LEMMA SameListKept == UNCHANGED <<client_list, window>> => UNCHANGED ManagedWindows
BY DEF ManagedWindows, Managed

LEMMA SameServer == UNCHANGED xvars => SilentServer
<1>1. UNCHANGED xvars => UNCHANGED Alive BY DEF xvars, Alive, Exists
<1>. QED BY <1>1, SameQueue DEF xvars, SilentServer

LEMMA SilentStep ==
    ASSUME SilentServer, UNCHANGED <<ManagedWindows, status>>
    PROVE  AbstractStep
BY StutterStep DEF SilentServer, Stutter

LEMMA EndsStep ==
    ASSUME Live, UNCHANGED <<xvars, client_list, window>>, status' \in {status, "dead"}
    PROVE  AbstractStep
<1>1. SilentServer /\ UNCHANGED ManagedWindows BY SameServer, SameListKept
<1>. QED BY <1>1, SilentStep, DieStep DEF SilentServer

LEMMA CrashStep ==
    ASSUME Live, Crash \/ Raise
    PROVE  AbstractStep
BY EndsStep DEF Crash, Raise, Live

\* Taking an event makes nwm hear of its window, once or for the last time.
LEMMA TakenSees ==
    ASSUME TypeOK, NEW type, TakeEvent(type)
    PROVE  /\ Live /\ UNCHANGED <<Alive, xoverride, status>>
           /\ type = "MapRequest" =>
                 /\ EventWindow \in Requests
                 /\ Requests' \in {Requests, Requests \ {EventWindow}}
                 /\ UNCHANGED Notices
           /\ Tells(Head(xqueue), EventWindow) =>
                 /\ EventWindow \in Notices
                 /\ Notices' \in {Notices, Notices \ {EventWindow}}
                 /\ UNCHANGED Requests
           /\ type # "MapRequest" /\ ~Tells(Head(xqueue), EventWindow) =>
                 UNCHANGED <<Requests, Notices>>
<1>. DEFINE h == Head(xqueue)
<1>1. xqueue \in Seq(EventSet) /\ xqueue # <<>> BY DEF TypeOK, XTypeOK, TakeEvent
<1>2. Elements(xqueue) = Elements(xqueue)' \cup {h}
  <2>1. Elements(xqueue) = Elements(Tail(xqueue)) \cup {h} BY <1>1, TailElements
  <2>. QED BY <2>1 DEF TakeEvent, Elements
<1>3. EventWindow \in Windows /\ EventWindow = h.window /\ h.type = type
  BY EventTaken DEF EventWindow, TakeEvent
<1>4. Live /\ UNCHANGED <<Alive, xoverride, status>>
  BY DEF TakeEvent, Idle, Live, Alive, Exists
<1>. HIDE DEF h
<1>5. \A v : Asks(h, v) <=> type = "MapRequest" /\ v = EventWindow BY <1>3 DEF Asks
<1>6. \A v : Tells(h, v) <=> Tells(h, EventWindow) /\ v = EventWindow
  BY <1>3 DEF Tells
<1>7. type = "MapRequest" => ~Tells(h, EventWindow) BY <1>3 DEF Tells
<1>. DEFINE R == {w \in Windows : \E e \in Elements(xqueue)' : Asks(e, w)}
            N == {w \in Windows : \E e \in Elements(xqueue)' : Tells(e, w)}
<1>8. Requests' = R /\ Notices' = N BY AbstractStateNext
<1>9. Requests = R \cup {w \in Windows : Asks(h, w)}
  BY <1>2, AbstractState
<1>10. Notices = N \cup {w \in Windows : Tells(h, w)}
  BY <1>2, AbstractState
<1>. HIDE DEF R, N
<1>11. Requests = IF type = "MapRequest" THEN R \cup {EventWindow} ELSE R
  BY <1>3, <1>5, <1>9
<1>12. Notices = IF Tells(h, EventWindow) THEN N \cup {EventWindow} ELSE N
  BY <1>3, <1>6, <1>10
<1>. QED BY <1>4, <1>7, <1>8, <1>11, <1>12 DEF h

\* A new client joins, and only it.
LEMMA ManageJoins ==
    ASSUME TypeOK, NEW w \in Windows, NEW c \in Clients \ Listed, manage_window(c, w)
    PROVE  ManagedWindows' = ManagedWindows \cup {w}
<1>1. NoneLeaves BY NewClientStays
<1>2. /\ client_list \in Seq(Clients) /\ Len(client_list) \in Nat
      /\ DOMAIN client_list = 1..Len(client_list)
      /\ <<c>> \in Seq(Clients) /\ Len(<<c>>) = 1 /\ <<c>>[1] = c
  BY LenProperties, Singleton DEF TypeOK
<1>3. /\ client_list' \in Seq(Clients)
      /\ Len(client_list') = Len(<<c>>) + Len(client_list)
      /\ \A j \in 1..(Len(<<c>>) + Len(client_list)) :
            client_list'[j] = IF j <= Len(<<c>>) THEN <<c>>[j]
                              ELSE client_list[j - Len(<<c>>)]
  BY <1>2, ConcatProperties DEF manage_window
<1>4. DOMAIN client_list' = 1..(1 + Len(client_list)) BY <1>2, <1>3, LenProperties
<1>5. 1 \in DOMAIN client_list' /\ client_list'[1] = c /\ window'[c] = w
  BY <1>2, <1>3, <1>4 DEF manage_window, TypeOK
<1>6. ASSUME NEW j \in DOMAIN client_list', j # 1
      PROVE  /\ j - 1 \in DOMAIN client_list
             /\ window'[client_list'[j]] = window[client_list[j - 1]]
  <2>1. j - 1 \in DOMAIN client_list /\ client_list'[j] = client_list[j - 1]
    BY <1>2, <1>3, <1>4, <1>6
  <2>2. client_list[j - 1] # c /\ client_list[j - 1] \in Clients
    BY <2>1, ListedTyped DEF Listed
  <2>. QED BY <2>1, <2>2 DEF manage_window, TypeOK
<1>7. \A v : Managed(v)' => v = w \/ Managed(v) BY <1>5, <1>6 DEF Managed
<1>8. Managed(w)' BY <1>5 DEF Managed
<1>. QED BY <1>1, <1>7, <1>8 DEF NoneLeaves, ManagedWindows

\* Unlinking the client of a window lets that window go, and only it, since
\* no other structure has it.
LEMMA UnlinkReleases ==
    ASSUME TypeOK, NoDuplicateWindow, NEW w, NEW i \in DOMAIN client_list,
           Finds(w, i), Unlink(i)
    PROVE  ManagedWindows' = ManagedWindows \ {w}
<1>1. /\ client_list \in Seq(Clients) /\ Len(client_list) \in Nat
      /\ DOMAIN client_list = 1..Len(client_list)
  BY LenProperties DEF TypeOK
<1>2. /\ DOMAIN client_list' = 1..(Len(client_list) - 1)
      /\ \A j \in 1..(Len(client_list) - 1) :
            client_list'[j] = IF j < i THEN client_list[j] ELSE client_list[j + 1]
  BY <1>1, RemoveAtProperties DEF Unlink
<1>3. window' = window /\ window[client_list[i]] = w BY DEF Unlink, Finds
<1>4. \A v : Managed(v) /\ v # w => Managed(v)' BY <1>3, OnlyOneLeaves
<1>5. ASSUME NEW j \in DOMAIN client_list'
      PROVE  \E k \in DOMAIN client_list : k # i /\ client_list'[j] = client_list[k]
  <2>. DEFINE k == IF j < i THEN j ELSE j + 1
  <2>1. k \in DOMAIN client_list /\ k # i /\ client_list'[j] = client_list[k]
    BY <1>1, <1>2, <1>5
  <2>. QED BY <2>1
<1>6. ~Managed(w)' BY <1>3, <1>5 DEF Managed, NoDuplicateWindow
<1>7. \A v : Managed(v)' => Managed(v) BY <1>3, <1>5 DEF Managed
<1>. QED BY <1>4, <1>6, <1>7 DEF ManagedWindows
LEMMA HandlerImplements ==
    ASSUME ClientsAssumption, IInv, HandleEvent
    PROVE  AbstractStep
<1>. USE DEF IInv
<1>1. CASE handle_map_request_event
  <2>1. TakeEvent("MapRequest") BY <1>1 DEF handle_map_request_event
  <2>2. EventWindow \in Windows BY <2>1, EventTaken
  <2>3. /\ Live /\ EventWindow \in Requests
        /\ Requests' \in {Requests, Requests \ {EventWindow}}
        /\ UNCHANGED <<Alive, xoverride, Notices, status>>
    BY <2>1, TakenSees
  <2>4. EventWindow \in Alive \ xoverride <=>
           Exists(EventWindow) /\ EventWindow \notin xoverride
    BY <2>2 DEF Alive
  <2>5. CASE ~(EventWindow \in Alive \ xoverride)
    <3>1. UNCHANGED ManagedWindows
      BY <1>1, <2>4, <2>5, SameListKept DEF handle_map_request_event
    <3>. QED BY <2>3, <2>5, <3>1, ServeStep
  <2>6. CASE EventWindow \in Alive \ xoverride
    <3>1. ManagedWindows' = ManagedWindows \cup {EventWindow}
      <4>1. CASE \E c \in Clients \ Listed : manage_window(c, EventWindow)
        BY <2>2, <4>1, ManageJoins
      <4>2. CASE /\ \E i \in DOMAIN client_list : Finds(EventWindow, i)
                 /\ UNCHANGED <<client_list, window, next>>
        <5>1. EventWindow \in ManagedWindows
          BY <2>2, <4>2 DEF Finds, ManagedWindows, Managed
        <5>. QED BY <4>2, <5>1, SameListKept
      <4>. QED BY <1>1, <2>4, <2>6, <4>1, <4>2 DEF handle_map_request_event
    <3>. QED BY <2>3, <2>6, <3>1, ServeStep
  <2>. QED BY <2>5, <2>6
<1>2. ASSUME NEW type, TakeEvent(type), type # "MapRequest",
             Tells(Head(xqueue), EventWindow),
             \/ ~Managed(EventWindow) /\ UNCHANGED <<client_list, window>>
             \/ \E i \in DOMAIN client_list : Finds(EventWindow, i) /\ Unlink(i)
      PROVE  AbstractStep
  <2>1. ManagedWindows' = ManagedWindows \ {EventWindow}
    <3>1. CASE ~Managed(EventWindow) /\ UNCHANGED <<client_list, window>>
      BY <3>1, SameListKept DEF ManagedWindows
    <3>2. CASE \E i \in DOMAIN client_list : Finds(EventWindow, i) /\ Unlink(i)
      BY <3>2, UnlinkReleases
    <3>. QED BY <1>2, <3>1, <3>2
  <2>2. /\ Live /\ EventWindow \in Notices
        /\ Notices' \in {Notices, Notices \ {EventWindow}}
        /\ UNCHANGED <<Alive, xoverride, Requests, status>>
    BY <1>2, TakenSees
  <2>. QED BY <2>1, <2>2, ReleaseStep
<1>3. CASE handle_destroy_notify_event
  <2>1. TakeEvent("DestroyNotify") /\ "DestroyNotify" # "MapRequest"
    BY <1>3 DEF handle_destroy_notify_event
  <2>2. Tells(Head(xqueue), EventWindow) BY <2>1 DEF Tells, TakeEvent, EventWindow
  <2>. QED BY <1>2, <1>3, <2>1, <2>2 DEF handle_destroy_notify_event
<1>4. CASE handle_unmap_notify_event
  <2>1. TakeEvent("UnmapNotify") /\ "UnmapNotify" # "MapRequest"
    BY <1>4 DEF handle_unmap_notify_event
  <2>2. CASE Head(xqueue).sent
    <3>1. Tells(Head(xqueue), EventWindow)
      BY <2>1, <2>2 DEF Tells, TakeEvent, EventWindow
    <3>. QED BY <1>2, <1>4, <2>1, <2>2, <3>1 DEF handle_unmap_notify_event
  <2>3. CASE ~Head(xqueue).sent
    <3>1. ~Tells(Head(xqueue), EventWindow) BY <2>1, <2>3 DEF Tells, TakeEvent
    <3>2. UNCHANGED <<Alive, xoverride, Requests, Notices, status>>
      BY <2>1, <3>1, TakenSees
    <3>3. UNCHANGED ManagedWindows
      BY <1>4, <2>3, SameListKept DEF handle_unmap_notify_event
    <3>. QED BY <3>2, <3>3, StutterStep DEF Stutter
  <2>. QED BY <2>2, <2>3
<1>. QED BY <1>1, <1>3, <1>4 DEF HandleEvent

\* The structure that free() overwrites is not listed.
LEMMA FreeKeeps ==
    ASSUME IInv, free, ~Crash
    PROVE  UNCHANGED ManagedWindows
<1>. USE DEF IInv
<1>1. PICK garbage : window' = [window EXCEPT ![Arg] = garbage] BY DEF free
<1>2. client_list' = client_list BY DEF free
<1>3. Arg \notin Listed
  <2>1. 1 \in DOMAIN todo /\ todo[1] = Head(todo)
    BY EmptySeq, LenProperties DEF free, Calls, TypeOK
  <2>. QED BY <2>1 DEF FreedUnlisted, free, Calls, Arg
<1>4. \A i \in DOMAIN client_list : client_list[i] \in Clients /\ client_list[i] # Arg
  BY <1>3, ListedTyped DEF Listed
<1>. QED BY <1>1, <1>2, <1>4 DEF ManagedWindows, Managed, TypeOK

LEMMA ReverseKeeps ==
    ASSUME TypeOK, client_list_reverse
    PROVE  UNCHANGED ManagedWindows
<1>. DEFINE n == Len(client_list)
            old(j) == (n - j) + 1
<1>1. n \in Nat /\ DOMAIN client_list = 1..n BY LenProperties DEF TypeOK
<1>2. client_list' = [j \in 1..n |-> client_list[old(j)]] /\ window' = window
  BY DEF client_list_reverse, Reverse
<1>3. \A j \in 1..n : old(j) \in 1..n BY <1>1
<1>. HIDE DEF n, old
<1>4. \A w : Managed(w)' => Managed(w) BY <1>1, <1>2, <1>3 DEF Managed
<1>. QED BY <1>4, ReverseLeavesNone, KeptWindows DEF Kept

LEMMA SwapKeeps ==
    ASSUME TypeOK, NEW c \in Listed, NEW d \in Listed, NEW m,
           client_list_swap(c, d, m)
    PROVE  UNCHANGED ManagedWindows
<1>1. /\ window' = [window EXCEPT ![c] = window[d], ![d] = window[c]]
      /\ client_list' = client_list
  BY DEF client_list_swap
<1>2. \A e \in Listed : window'[e] = IF e = c THEN window[d]
                                     ELSE IF e = d THEN window[c] ELSE window[e]
  BY <1>1, ListedTyped DEF TypeOK
<1>3. \A w : Managed(w) <=> \E e \in Listed : window[e] = w BY DEF Managed, Listed
<1>4. \A w : Managed(w)' <=> \E e \in Listed : window'[e] = w
  BY <1>1 DEF Managed, Listed
<1>5. \A w : Managed(w)' => Managed(w) BY <1>2, <1>3, <1>4
<1>. QED BY <1>5, SwapLeavesNone, KeptWindows DEF Kept

LEMMA NwmStepImplements ==
    ASSUME IInv, NwmStep
    PROVE  AbstractStep
<1>. USE DEF IInv, TypeOK
<1>1. Live BY DEF NwmStep, map_client, unmap_client, destroy_client, kill_client,
         free, set_focus_client, focus_client, focus_next_client, auto_tile,
         focus_next, focus_prev, FocusNeighbour, Calls, Live
<1>2. CASE map_client
  BY <1>2, ServerMapSilent, SameListKept, SilentStep DEF map_client
<1>3. CASE unmap_client
  BY <1>3, ServerUnmapSilent, SameListKept, SilentStep DEF unmap_client
<1>4. CASE set_focus_client
  BY <1>4, ServerFocusSilent, SameListKept, SilentStep DEF set_focus_client
<1>5. CASE kill_client
  BY <1>1, <1>5, ServerDestroyStep, SameListKept DEF kill_client
<1>6. CASE free
  <2>1. CASE Crash BY <1>1, <2>1, CrashStep
  <2>2. CASE ~Crash
    <3>1. UNCHANGED ManagedWindows BY <1>6, <2>2, FreeKeeps
    <3>2. UNCHANGED <<xvars, status>> BY <1>6, <2>2 DEF free
    <3>. QED BY <3>1, <3>2, SameServer, SilentStep
  <2>. QED BY <2>1, <2>2
<1>7. CASE destroy_client
  <2>1. CASE Crash BY <1>1, <2>1, CrashStep
  <2>2. CASE ~Crash
    <3>1. UNCHANGED <<xvars, client_list, window, status>>
      BY <1>7, <2>2 DEF destroy_client
    <3>. QED BY <3>1, SameServer, SameListKept, SilentStep
  <2>. QED BY <2>1, <2>2
<1>8. CASE focus_client \/ focus_next_client \/ focus_next \/ focus_prev
  <2>1. UNCHANGED <<xvars, client_list, window, status>>
    BY <1>8 DEF focus_client, focus_next_client, focus_next, focus_prev, FocusNeighbour
  <2>. QED BY <2>1, SameServer, SameListKept, SilentStep
<1>9. CASE auto_tile
  <2>1. UNCHANGED <<xvars, client_list, window>> /\ status' \in {status, "dead"}
    BY <1>9 DEF auto_tile
  <2>. QED BY <1>1, <2>1, EndsStep
<1>. QED BY <1>2, <1>3, <1>4, <1>5, <1>6, <1>7, <1>8, <1>9 DEF NwmStep

LEMMA CommandImplements ==
    ASSUME IInv, RunCommand
    PROVE  AbstractStep
<1>. USE DEF IInv
<1>1. Live BY DEF RunCommand, ClientCommand, FocusCommand, close,
         client_list_reverse, swap_master, Command, Idle, Live
<1>2. ASSUME UNCHANGED <<xvars, status>>, UNCHANGED ManagedWindows
      PROVE  AbstractStep
  BY <1>2, SameServer, SilentStep
<1>3. CASE Crash \/ Raise BY <1>1, <1>3, CrashStep
<1>4. CASE ClientCommand \/ FocusCommand \/ (close /\ ~Crash)
  <2>1. UNCHANGED <<xvars, client_list, window, status>>
    BY <1>4 DEF ClientCommand, FocusCommand, close
  <2>. QED BY <1>2, <2>1, SameListKept
<1>5. CASE client_list_reverse
  BY <1>2, <1>5, ReverseKeeps DEF client_list_reverse
<1>6. CASE swap_master
  <2>1. \A i \in VisibleAt : client_list[i] \in Listed BY DEF VisibleAt, Listed
  <2>2. get_focus_client # Unspecified => get_focus_client \in Listed
    BY FocusClientTyped
  <2>3. \/ Raise \/ Crash
        \/ \E c, d, m \in Listed : client_list_swap(c, d, m)
    BY <1>6, <2>1, <2>2 DEF swap_master
  <2>4. ASSUME NEW c \in Listed, NEW d \in Listed, NEW m \in Listed,
               client_list_swap(c, d, m)
        PROVE  AbstractStep
    <3>1. UNCHANGED <<xvars, status>> BY <2>4 DEF client_list_swap
    <3>. QED BY <1>2, <2>4, <3>1, SwapKeeps
  <2>. QED BY <1>3, <2>3, <2>4
<1>. QED BY <1>3, <1>4, <1>5, <1>6 DEF RunCommand

LEMMA InitImplements == Init => WM!WMInit
<1>. SUFFICES ASSUME Init PROVE WM!WMInit OBVIOUS
<1>1. /\ client_list = <<>> /\ xqueue = <<>> /\ status = "running"
      /\ xoverride \subseteq {w \in Windows : Exists(w)}
  BY XServerAssumption DEF Init, XInit, Exists, XServerAssumption
<1>2. Elements(xqueue) = {} BY <1>1, NoElements
<1>3. Requests = {} /\ Notices = {} BY <1>2, AbstractState
<1>4. ManagedWindows = {} BY <1>1 DEF ManagedWindows, Managed
<1>. QED BY <1>1, <1>3, <1>4 DEF WM!WMInit, Requests, Notices

\* A step of nwm or of a program is one abstract step or none.
LEMMA NextImplements ==
    ASSUME IInv, [Next]_vars
    PROVE  AbstractStep
<1>1. XServerAssumption /\ ClientsAssumption BY XServerAssumption, ClientsAssumption
<1>2. CASE AppAction
  <2>1. AppStep /\ Live /\ UNCHANGED <<client_list, window, status>>
    BY <1>2 DEF AppAction, nvars, Live
  <2>. QED BY <1>1, <2>1, AppStepImplements, SameListKept DEF IInv, TypeOK
<1>3. CASE HandleEvent BY <1>1, <1>3, HandlerImplements
<1>4. CASE NwmStep BY <1>1, <1>4, NwmStepImplements
<1>5. CASE RunCommand BY <1>1, <1>5, CommandImplements
<1>6. CASE auto_focus_pointer \/ Dead \/ UNCHANGED vars
  <2>1. UNCHANGED <<xvars, client_list, window, status>>
    BY <1>6 DEF auto_focus_pointer, Dead, vars, nvars
  <2>. QED BY <2>1, SameServer, SameListKept, SilentStep
<1>. QED BY <1>2, <1>3, <1>4, <1>5, <1>6 DEF Next

\* nwm implements the abstract window manager: for any windows, structures,
\* hooks and commands, each step of a handler, a call, a command or a program
\* is one step of WindowManagement or none.
THEOREM Refinement == Spec => Implements
<1>1. IInv /\ [Next]_vars => [WM!WMNext]_(WM!wmvars)
  BY NextImplements DEF AbstractStep
<1>2. Spec => WM!WMInit /\ [][WM!WMNext]_(WM!wmvars)
  BY <1>1, InitImplements, Invariant, PTL DEF Spec
<1>. QED BY <1>2 DEF Implements, WM!WMSpec
----------------------------------------------------------------------------
(* Whom the pending calls are for.  What is read from a structure after    *)
(* its client has left the list is the field `next' it had then, which     *)
(* still leads to a listed client: the list does not change while calls    *)
(* are pending.                                                            *)

AimProcs == {"map_client", "focus_client", "set_focus_client"}

\* A call that gives a window to the user is for a listed client, and any
\* other is for a client from which next-client leads to a listed one.
Aimed(e) ==
    /\ e.proc \in AimProcs => e.client \in Listed \cup {NULL, Unspecified}
    /\ e.client \in Clients \ Listed => next[e.client] \in Listed \cup {NULL}

AimedInv == \A e \in Elements(todo) : Aimed(e)

AllAimed(calls) == \A e \in Elements(calls) : Aimed(e)

\* The first call is replaced by those it makes.
LEMMA ThenElements ==
    ASSUME todo \in Seq(CallSet), todo # <<>>, NEW calls \in Seq(CallSet), Then(calls)
    PROVE  /\ Elements(todo') = Elements(calls) \cup Elements(Tail(todo))
           /\ Elements(todo) = Elements(Tail(todo)) \cup {Head(todo)}
<1>. DEFINE rest == Tail(todo)
<1>1. rest \in Seq(CallSet) BY HeadTailProperties
<1>2. Elements(calls \o rest) = Elements(calls) \cup Elements(rest)
  <2>. HIDE DEF rest
  <2>. QED BY <1>1, ConcatElements
<1>3. Elements(todo) = Elements(Tail(todo)) \cup {Head(todo)} BY TailElements
<1>. QED BY <1>2, <1>3 DEF Then

LEMMA ReturnIsThen ==
    ASSUME todo \in Seq(CallSet), todo # <<>>, Return
    PROVE  Then(<<>>)
<1>1. Tail(todo) \in Seq(CallSet) BY HeadTailProperties
<1>. QED BY <1>1, ConcatEmptySeq DEF Return, Then

LEMMA OneCall == \A e : Elements(<<e>>) = {e}
BY DEF Elements

LEMMA SameCallTwice ==
    ASSUME NEW S, NEW e \in S
    PROVE  <<e, e>> \in Seq(S) /\ Elements(<<e, e>>) = {e}
<1>1. <<e, e>> \in Seq(S) OBVIOUS
<1>2. DOMAIN <<e, e>> = 1..2 /\ <<e, e>>[1] = e /\ <<e, e>>[2] = e OBVIOUS
<1>3. \A i \in 1..2 : i = 1 \/ i = 2 OBVIOUS
<1>. QED BY <1>1, <1>2, <1>3 DEF Elements

LEMMA HookElements ==
    ASSUME ClientsAssumption, NEW hook \in HookNames, NEW c
    PROVE  /\ \A e \in Elements(run_hook(hook, c)) :
                 e.client = c /\ \E i \in DOMAIN Hooks[hook] : e.proc = Hooks[hook][i]
           /\ \A i \in DOMAIN Hooks[hook] :
                 Call(Hooks[hook][i], c) \in Elements(run_hook(hook, c))
<1>1. DOMAIN Hooks[hook] = 1..Len(Hooks[hook])
  BY LenProperties DEF ClientsAssumption
<1>2. /\ DOMAIN run_hook(hook, c) = DOMAIN Hooks[hook]
      /\ \A i \in DOMAIN Hooks[hook] : run_hook(hook, c)[i] = Call(Hooks[hook][i], c)
  BY <1>1 DEF run_hook
<1>3. \A p : Call(p, c).client = c /\ Call(p, c).proc = p BY DEF Call
<1>. QED BY <1>2, <1>3 DEF Elements

\* What a removal hook does is in order for any client whose `next' is, and
\* what another hook does for a listed one.
LEMMA HookAimed ==
    ASSUME ClientsAssumption, HooksSpareTheRemoved,
           NEW hook \in HookNames, NEW c \in Clients,
           \/ c \in Listed
           \/ /\ hook \in {"unmap-client-hook", "destroy-client-hook"}
              /\ next[c] \in Listed \cup {NULL}
    PROVE  AllAimed(run_hook(hook, c))
<1>1. CASE c \in Listed BY <1>1, HookElements DEF AllAimed, Aimed
<1>2. CASE c \notin Listed
  <2>1. \A e \in Elements(run_hook(hook, c)) : e.client = c /\ e.proc \notin AimProcs
    BY <1>2, HookElements DEF HooksSpareTheRemoved, AimProcs
  <2>. QED BY <1>2, <2>1 DEF AllAimed, Aimed
<1>. QED BY <1>1, <1>2

LEMMA ListedAimed ==
    ASSUME ClientsAssumption, NEW p, NEW c \in Listed \cup {NULL, Unspecified}
    PROVE  AllAimed(<<Call(p, c)>>)
<1>1. Aimed(Call(p, c)) BY DEF Aimed, Call, ClientsAssumption
<1>. QED BY <1>1, OneCall DEF AllAimed

LEMMA NoneAimed == AllAimed(<<>>)
BY NoElements DEF AllAimed

\* A step of the agenda that makes calls in order only.
LEMMA ThenAimed ==
    ASSUME IInv, AimedInv, todo # <<>>, NEW calls \in Seq(CallSet), AllAimed(calls),
           Then(calls), UNCHANGED <<client_list, next>>
    PROVE  AimedInv'
<1>1. /\ Elements(todo') = Elements(calls) \cup Elements(Tail(todo))
      /\ Elements(todo) = Elements(Tail(todo)) \cup {Head(todo)}
  BY ThenElements DEF IInv, TypeOK
<1>2. \A e \in Elements(todo') : Aimed(e) BY <1>1 DEF AimedInv, AllAimed
<1>3. \A e : Aimed(e) => Aimed(e)' BY DEF Aimed, Listed
<1>. QED BY <1>2, <1>3 DEF AimedInv, Elements

\* The fields of the list lead to listed clients.
LEMMA NextListed ==
    ASSUME TypeOK, NEW c \in Clients, c \notin Listed => next[c] \in Listed \cup {NULL}
    PROVE  NextField(c) \in Listed \cup {NULL} /\ next_client(c) \in Listed \cup {NULL}
<1>1. DOMAIN client_list = 1..Len(client_list) /\ Len(client_list) \in Nat
  BY LenProperties DEF TypeOK
<1>2. first_client \in Listed \cup {NULL}
  <2>1. client_list # <<>> => 1 \in DOMAIN client_list BY <1>1, EmptySeq DEF TypeOK
  <2>. QED BY <2>1 DEF first_client, Listed
<1>3. CASE c \notin Listed
  <2>1. NextField(c) = next[c] BY <1>3 DEF NextField
  <2>. QED BY <1>2, <1>3, <2>1 DEF next_client
<1>4. CASE c \in Listed
  <2>. DEFINE k == CHOOSE i \in DOMAIN client_list : client_list[i] = c
  <2>1. k \in DOMAIN client_list BY <1>4 DEF Listed
  <2>2. NextField(c) = IF k < Len(client_list) THEN client_list[k + 1] ELSE NULL
    BY <1>4 DEF NextField
  <2>. HIDE DEF k
  <2>3. k < Len(client_list) => k + 1 \in DOMAIN client_list BY <1>1, <2>1
  <2>4. NextField(c) \in Listed \cup {NULL} BY <2>2, <2>3 DEF Listed
  <2>. QED BY <1>2, <2>4 DEF next_client
<1>. QED BY <1>3, <1>4

LEMMA FirstListed == TypeOK => first_client \in Listed \cup {NULL}
<1>1. TypeOK /\ client_list # <<>> => 1 \in DOMAIN client_list
  BY LenProperties, EmptySeq DEF TypeOK
<1>. QED BY <1>1 DEF first_client, Listed

LEMMA PrevListed ==
    ASSUME TypeOK, client_list # <<>>, NEW c
    PROVE  prev_client(c) \in Listed
<1>1. /\ DOMAIN client_list = 1..Len(client_list) /\ Len(client_list) \in Nat \ {0}
  BY LenProperties, EmptySeq DEF TypeOK
<1>2. CASE \E i \in 2..Len(client_list) : client_list[i] = c
  <2>. DEFINE k == CHOOSE i \in 2..Len(client_list) : client_list[i] = c
  <2>1. k \in 2..Len(client_list) BY <1>2
  <2>2. prev_client(c) = client_list[k - 1] BY <1>2 DEF prev_client
  <2>. HIDE DEF k
  <2>3. k - 1 \in DOMAIN client_list BY <1>1, <2>1
  <2>. QED BY <2>2, <2>3 DEF Listed
<1>3. CASE ~\E i \in 2..Len(client_list) : client_list[i] = c
  <2>1. prev_client(c) = client_list[Len(client_list)] BY <1>3 DEF prev_client
  <2>2. Len(client_list) \in DOMAIN client_list BY <1>1
  <2>. QED BY <2>1, <2>2 DEF Listed
<1>. QED BY <1>2, <1>3

LEMMA HeadAimed ==
    ASSUME IInv, AimedInv, todo # <<>>
    PROVE  Aimed(Head(todo))
BY TailElements DEF IInv, TypeOK, AimedInv

\* The calls that C code makes, and auto-tile.scm's, keep a client in hand
\* for which what they call is in order.
Made(calls) ==
    /\ calls \in Seq(CallSet) /\ Clean(calls) /\ AllAimed(calls)
    /\ Then(calls)

LEMMA NoneMade ==
    ASSUME todo \in Seq(CallSet), todo # <<>>, Return
    PROVE  Made(<<>>)
BY NoCalls, NoneAimed, ReturnIsThen DEF Made

LEMMA HookMade ==
    ASSUME ClientsAssumption, HooksSpareTheRemoved, IInv, AimedInv,
           NEW p \in CoreProcs \ {"focus_client", "focus_next", "focus_prev"}, Calls(p),
           NEW hook \in HookNames,
           \/ p \in AimProcs
           \/ hook \in {"unmap-client-hook", "destroy-client-hook"}
    PROVE  /\ run_hook(hook, Arg) \in Seq(CallSet) /\ Clean(run_hook(hook, Arg))
           /\ AllAimed(run_hook(hook, Arg))
<1>1. Arg \in Clients /\ todo # <<>> BY ArgIsClient DEF IInv
<1>2. Aimed(Head(todo)) BY <1>1, HeadAimed
<1>3. p \in AimProcs => Arg \in Listed
  BY <1>1, <1>2 DEF Aimed, Calls, Arg, ClientsAssumption
<1>4. Arg \notin Listed => next[Arg] \in Listed \cup {NULL}
  BY <1>1, <1>2 DEF Aimed, Arg
<1>5. AllAimed(run_hook(hook, Arg)) BY <1>1, <1>3, <1>4, HookAimed
<1>. QED BY <1>1, <1>5, RunHookTyped

LEMMA DestroyMade ==
    ASSUME ClientsAssumption, HooksSpareTheRemoved, IInv, AimedInv, destroy_client, ~Crash
    PROVE  /\ \E calls : Made(calls) /\ Elements(run_hook("destroy-client-hook", Arg))
                                        \subseteq Elements(calls)
           /\ UNCHANGED <<xvars, client_list, window, next, tiled, status>>
<1>1. Arg \in Clients /\ todo # <<>> /\ todo \in Seq(CallSet)
      /\ Calls("destroy_client")
  BY ArgIsClient DEF destroy_client, IInv, CoreProcs
<1>. DEFINE hook == run_hook("destroy-client-hook", Arg)
            kill == <<Call("kill_client", Arg)>>
<1>2. hook \in Seq(CallSet) /\ Clean(hook) /\ AllAimed(hook)
  BY <1>1, HookMade DEF HookNames, CoreProcs
<1>3. kill \in Seq(CallSet) /\ Clean(kill) /\ AllAimed(kill)
  <2>1. "kill_client" \in Procs /\ "kill_client" # "free" BY DEF Procs, CoreProcs
  <2>2. Aimed(Call("kill_client", Arg))
    <3>1. Aimed(Head(todo)) BY <1>1, HeadAimed
    <3>. QED BY <3>1 DEF Aimed, Arg, Call, AimProcs
  <2>. QED BY <1>1, <2>1, <2>2, CallTyped, OneCall DEF AllAimed
<1>. HIDE DEF hook, kill
<1>4. /\ (kill \o hook) \in Seq(CallSet) /\ Clean(kill \o hook)
      /\ Elements(kill \o hook) = Elements(kill) \cup Elements(hook)
  BY <1>2, <1>3, CleanConcat, ConcatElements
<1>5. AllAimed(kill \o hook) BY <1>2, <1>3, <1>4 DEF AllAimed
<1>6. /\ Then(hook) \/ Then(kill \o hook)
      /\ UNCHANGED <<xvars, client_list, window, next, tiled, status>>
  BY DEF destroy_client, hook, kill
<1>7. \E calls : Made(calls) /\ Elements(hook) \subseteq Elements(calls)
  BY <1>2, <1>4, <1>5, <1>6 DEF Made
<1>. QED BY <1>6, <1>7 DEF hook

LEMMA FocusMade ==
    ASSUME ClientsAssumption, HooksSpareTheRemoved, IInv, AimedInv,
           focus_client \/ focus_next_client \/ focus_next \/ focus_prev
    PROVE  \E calls : Made(calls)
<1>. USE DEF IInv
<1>1. todo # <<>> /\ todo \in Seq(CallSet)
  BY DEF TypeOK, Calls, focus_client, focus_next_client, focus_next, focus_prev,
         FocusNeighbour
<1>2. Aimed(Head(todo)) /\ Head(todo) \in CallSet BY <1>1, HeadAimed, HeadTailProperties
<1>3. Arg \in Clients \cup {NULL, Unspecified} BY FocusArg
<1>4. Arg \in Clients => next_client(Arg) \in Listed \cup {NULL}
  BY <1>2, NextListed DEF Aimed, Arg
<1>5. ASSUME NEW c \in Listed \cup {NULL}, Then(<<Call("focus_client", c)>>)
      PROVE  \E calls : Made(calls)
  <2>1. c \in Clients \cup {NULL} BY <1>5, ListedTyped
  <2>. QED BY <1>5, <2>1, FocusClientCallTyped, ListedAimed DEF Made
<1>6. CASE Return BY <1>1, <1>6, NoneMade
<1>7. CASE focus_client
  <2>. DEFINE c == IF Arg = Unspecified THEN first_client ELSE Arg
              call == <<Call("set_focus_client", c)>>
  <2>1. (Then(call) /\ c # NULL) \/ Then(<<>>) BY <1>7 DEF focus_client
  <2>2. CASE Then(call) /\ c # NULL
    <3>1. Arg \in Listed \cup {NULL, Unspecified}
      BY <1>2, <1>7 DEF focus_client, Calls, Arg, Aimed, AimProcs
    <3>2. c \in Listed BY <2>2, <3>1, FirstListed
    <3>3. call \in Seq(CallSet) /\ Clean(call)
      <4>1. "set_focus_client" \in Procs /\ "set_focus_client" # "free" BY DEF Procs, CoreProcs
      <4>2. c \in Clients BY <3>2, ListedTyped
      <4>. QED BY <4>1, <4>2, CallTyped
    <3>4. AllAimed(call) BY <3>2, ListedAimed
    <3>. QED BY <2>2, <3>3, <3>4 DEF Made
  <2>3. CASE Then(<<>>) BY <2>3, NoCalls, NoneAimed DEF Made
  <2>. QED BY <2>1, <2>2, <2>3
<1>8. CASE focus_next_client
  <2>1. Arg \in Clients BY <1>8, ArgIsClient DEF focus_next_client, CoreProcs
  <2>2. Then(<<Call("focus_client", next_client(Arg))>>) BY <1>8 DEF focus_next_client
  <2>. QED BY <1>4, <1>5, <2>1, <2>2
<1>9. \A i \in VisibleAt : client_list[i] \in Listed /\ client_list # <<>>
  <2>1. \A i \in VisibleAt : i \in DOMAIN client_list BY DEF VisibleAt
  <2>2. DOMAIN client_list = 1..Len(client_list) BY LenProperties DEF TypeOK
  <2>. QED BY <2>1, <2>2, EmptySeq DEF TypeOK, Listed
<1>10. Calls("focus_next") \/ Calls("focus_prev") => Arg \in Clients \cup {Unspecified}
  BY FocusArg
<1>11. CASE focus_next
  <2>1. SUFFICES ASSUME NEW i \in VisibleAt,
                        Then(<<Call("focus_client", IF Arg = Unspecified
                                                    THEN client_list[i]
                                                    ELSE next_client(Arg))>>)
                 PROVE  \E calls : Made(calls)
    BY <1>6, <1>11 DEF focus_next, FocusNeighbour
  <2>2. Arg \in Clients \cup {Unspecified} BY <1>10, <1>11 DEF focus_next, FocusNeighbour
  <2>. DEFINE c == IF Arg = Unspecified THEN client_list[i] ELSE next_client(Arg)
  <2>3. c \in Listed \cup {NULL} BY <1>4, <1>9, <2>2
  <2>. QED BY <1>5, <2>1, <2>3
<1>12. CASE focus_prev
  <2>1. SUFFICES ASSUME NEW i \in VisibleAt,
                        Then(<<Call("focus_client", IF Arg = Unspecified
                                                    THEN client_list[i]
                                                    ELSE prev_client(Arg))>>)
                 PROVE  \E calls : Made(calls)
    BY <1>6, <1>12 DEF focus_prev, FocusNeighbour
  <2>. DEFINE c == IF Arg = Unspecified THEN client_list[i] ELSE prev_client(Arg)
  <2>2. c \in Listed \cup {NULL} BY <1>9, PrevListed
  <2>. QED BY <1>5, <2>1, <2>2
<1>. QED BY <1>7, <1>8, <1>11, <1>12

\* auto-tile fails: the expression of the REPL ends, or nwm.
Misfit == auto_tile /\ ~Return

\* What is left undone when nwm ends or an error is caught.
Broken ==
    /\ UNCHANGED <<xvars, client_list, window, next>>
    /\ \/ UNCHANGED <<todo, caught>>
       \/ caught /\ todo' = <<>> /\ caught' = FALSE

LEMMA BreaksOff == Crash \/ Misfit => Broken
BY DEF Crash, Misfit, auto_tile, Broken

\* Whatever nwm does next, it makes calls in order, or it breaks off.
LEMMA NwmStepMakes ==
    ASSUME ClientsAssumption, HooksSpareTheRemoved, IInv, AimedInv, NwmStep,
           ~Crash, ~Misfit
    PROVE  /\ todo # <<>> /\ UNCHANGED <<client_list, next>>
           /\ \E calls : Made(calls)
<1>. USE DEF IInv
<1>1. todo # <<>> /\ todo \in Seq(CallSet) /\ UNCHANGED <<client_list, next>>
  BY DEF NwmStep, map_client, unmap_client, destroy_client, kill_client, free,
         set_focus_client, focus_client, focus_next_client, auto_tile, focus_next,
         focus_prev, FocusNeighbour, Calls, TypeOK
<1>. SUFFICES \E calls : Made(calls) BY <1>1
<1>2. CASE Return BY <1>1, <1>2, NoneMade
<1>3. CASE map_client
  <2>. DEFINE hook == run_hook("map-client-hook", Arg)
  <2>1. Calls("map_client") /\ Then(hook) BY <1>3 DEF map_client
  <2>2. "map_client" \in AimProcs BY DEF AimProcs
  <2>3. "map-client-hook" \in HookNames BY DEF HookNames
  <2>4. hook \in Seq(CallSet) /\ Clean(hook) /\ AllAimed(hook)
    BY <2>1, <2>2, <2>3, HookMade DEF CoreProcs
  <2>. QED BY <2>1, <2>4 DEF Made
<1>4. CASE unmap_client
  <2>. DEFINE hook == run_hook("unmap-client-hook", Arg)
  <2>1. Calls("unmap_client") /\ Then(hook) BY <1>4 DEF unmap_client
  <2>2. "unmap-client-hook" \in HookNames BY DEF HookNames
  <2>3. hook \in Seq(CallSet) /\ Clean(hook) /\ AllAimed(hook)
    BY <2>1, <2>2, HookMade DEF CoreProcs
  <2>. QED BY <2>1, <2>3 DEF Made
<1>5. CASE destroy_client BY <1>5, DestroyMade
<1>6. CASE kill_client \/ free \/ auto_tile
  BY <1>2, <1>6 DEF kill_client, free, Misfit
<1>7. CASE focus_client \/ focus_next_client \/ focus_next \/ focus_prev
  BY <1>7, FocusMade
<1>8. CASE set_focus_client
  <2>. DEFINE hook == run_hook("focus-client-hook", Arg)
  <2>1. Calls("set_focus_client") /\ Then(hook) BY <1>8 DEF set_focus_client
  <2>2. "set_focus_client" \in AimProcs BY DEF AimProcs
  <2>3. "focus-client-hook" \in HookNames BY DEF HookNames
  <2>4. hook \in Seq(CallSet) /\ Clean(hook) /\ AllAimed(hook)
    BY <2>1, <2>2, <2>3, HookMade DEF CoreProcs
  <2>. QED BY <2>1, <2>4 DEF Made
<1>. QED BY <1>1, <1>3, <1>4, <1>5, <1>6, <1>7, <1>8 DEF NwmStep

----------------------------------------------------------------------------
(* Where calls begin: with a client of the list, or one just taken off it. *)

LEMMA AimedStays ==
    ASSUME AimedInv, UNCHANGED <<todo, client_list, next>>
    PROVE  AimedInv'
BY DEF AimedInv, Aimed, Elements, Listed

LEMMA NothingToDo == todo' = <<>> => AimedInv'
<1>1. todo' = <<>> => Elements(todo') = {} BY NoElements
<1>. QED BY <1>1 DEF AimedInv, Elements

LEMMA BeginAimed ==
    ASSUME ClientsAssumption, NEW p, NEW c \in Listed \cup {NULL, Unspecified},
           todo' = <<Call(p, c)>>, UNCHANGED <<client_list, next>>
    PROVE  AimedInv'
<1>1. \A e \in Elements(todo') : Aimed(e) BY ListedAimed DEF AllAimed
<1>2. \A e : Aimed(e) => Aimed(e)' BY DEF Aimed, Listed
<1>. QED BY <1>1, <1>2 DEF AimedInv, Elements

\* The successor of a client that is taken off the list stays on it.
LEMMA NextStays ==
    ASSUME IInv, NEW i \in DOMAIN client_list, Unlink(i)
    PROVE  next'[client_list[i]] \in Listed' \cup {NULL}
<1>. USE DEF IInv
<1>1. /\ client_list \in Seq(Clients) /\ Len(client_list) \in Nat
      /\ DOMAIN client_list = 1..Len(client_list)
      /\ client_list[i] \in Clients /\ client_list[i] \in Listed
  BY LenProperties, ElementOfSeq DEF TypeOK, Listed
<1>2. /\ DOMAIN client_list' = 1..(Len(client_list) - 1)
      /\ \A j \in 1..(Len(client_list) - 1) :
            client_list'[j] = IF j < i THEN client_list[j] ELSE client_list[j + 1]
  BY <1>1, RemoveAtProperties DEF Unlink
<1>. DEFINE k == CHOOSE j \in DOMAIN client_list : client_list[j] = client_list[i]
<1>3. k = i
  <2>1. k \in DOMAIN client_list /\ client_list[k] = client_list[i] OBVIOUS
  <2>. HIDE DEF k
  <2>. QED BY <2>1, ListedOnce
<1>4. NextField(client_list[i]) = IF k < Len(client_list) THEN client_list[k + 1] ELSE NULL
  BY <1>1 DEF NextField
<1>5. next'[client_list[i]] = NextField(client_list[i]) BY <1>1 DEF Unlink, TypeOK
<1>. HIDE DEF k
<1>6. i < Len(client_list) => i \in DOMAIN client_list' /\ client_list'[i] = client_list[i + 1]
  BY <1>1, <1>2
<1>. QED BY <1>3, <1>4, <1>5, <1>6 DEF Listed

LEMMA UnlinkAimed ==
    ASSUME IInv, NEW i \in DOMAIN client_list, Unlink(i),
           \A e \in Elements(todo') : e.client = client_list[i] /\ e.proc \notin AimProcs
    PROVE  AimedInv'
<1>1. PICK x : x = client_list[i] OBVIOUS
<1>2. \A e \in Elements(todo') : e.client = x /\ e.proc \notin AimProcs BY <1>1
<1>3. next'[x] \in Listed' \cup {NULL} BY <1>1, NextStays
<1>. QED BY <1>2, <1>3 DEF AimedInv, Aimed, Elements

\* A window gets its structure, and every call is for that.
LEMMA ManageCalls ==
    ASSUME ClientsAssumption, IInv, NEW w \in Windows, NEW c \in Clients \ Listed,
           manage_window(c, w)
    PROVE  /\ Listed' = Listed \cup {c}
           /\ Elements(todo') = Elements(run_hook("create-client-hook", c))
                                \cup {Call("map_client", c)}
           /\ \A e \in Elements(todo') : e.client = c
<1>1. client_list' = <<c>> \o client_list /\ client_list \in Seq(Clients)
      /\ <<c>> \in Seq(Clients)
  BY Singleton DEF manage_window, IInv, TypeOK
<1>2. Listed' = Listed \cup {c}
  <2>. DEFINE one == <<c>>
  <2>1. one \in Seq(Clients) /\ Elements(one) = {c} /\ client_list' = one \o client_list
    BY <1>1, OneCall
  <2>. HIDE DEF one
  <2>2. Elements(one \o client_list) = Elements(one) \cup Elements(client_list)
    BY <1>1, <2>1, ConcatElements
  <2>3. Elements(client_list') = Elements(client_list) \cup {c} BY <2>1, <2>2
  <2>. QED BY <2>3 DEF Elements, Listed
<1>. DEFINE hook == run_hook("create-client-hook", c)
            m == Call("map_client", c)
            maps == <<m, m>>
<1>3. hook \in Seq(CallSet) /\ \A e \in Elements(hook) : e.client = c
  BY RunHookTyped, HookElements DEF HookNames
<1>4. maps \in Seq(CallSet) /\ Elements(maps) = {m} /\ m.client = c
  <2>1. m \in CallSet /\ m.client = c BY DEF Call, CallSet, Procs, CoreProcs
  <2>. HIDE DEF m
  <2>. QED BY <2>1, SameCallTwice
<1>5. todo' = hook \o maps BY DEF manage_window
<1>. HIDE DEF hook, maps, m
<1>6. Elements(todo') = Elements(hook) \cup {m}
  BY <1>3, <1>4, <1>5, ConcatElements
<1>7. \A e \in Elements(todo') : e.client = c BY <1>3, <1>4, <1>6
<1>. QED BY <1>2, <1>6, <1>7 DEF hook, m

LEMMA ManageAimed ==
    ASSUME ClientsAssumption, IInv, NEW w \in Windows, NEW c \in Clients \ Listed,
           manage_window(c, w)
    PROVE  AimedInv'
<1>1. c \in Listed' /\ \A e \in Elements(todo') : e.client = c BY ManageCalls
<1>. QED BY <1>1 DEF AimedInv, Aimed, Elements

LEMMA EventAimed ==
    ASSUME ClientsAssumption, IInv, AimedInv, HandleEvent
    PROVE  AimedInv'
<1>. USE DEF IInv
<1>1. CASE UNCHANGED <<client_list, window, next, todo>> BY <1>1, AimedStays
<1>2. CASE handle_map_request_event
  <2>1. EventWindow \in Windows BY <1>2, EventTaken DEF handle_map_request_event
  <2>2. ASSUME NEW i \in DOMAIN client_list,
               todo' = <<Call("map_client", client_list[i])>>,
               UNCHANGED <<client_list, window, next>>
        PROVE  AimedInv'
    BY <2>2, BeginAimed DEF Listed
  <2>. QED BY <1>1, <1>2, <2>1, <2>2, ManageAimed DEF handle_map_request_event
<1>3. CASE handle_destroy_notify_event
  <2>1. ASSUME NEW i \in DOMAIN client_list, Unlink(i),
               todo' = <<Call("destroy_client", client_list[i])>>
        PROVE  AimedInv'
    <3>1. \A e \in Elements(todo') : e = Call("destroy_client", client_list[i])
      BY <2>1, OneCall
    <3>2. \A e \in Elements(todo') : e.client = client_list[i] /\ e.proc \notin AimProcs
      BY <3>1 DEF Call, AimProcs
    <3>. QED BY <2>1, <3>2, UnlinkAimed
  <2>. QED BY <1>1, <1>3, <2>1 DEF handle_destroy_notify_event
<1>4. CASE handle_unmap_notify_event
  <2>1. ASSUME NEW i \in DOMAIN client_list, Unlink(i),
               todo' = <<Call("unmap_client", client_list[i]),
                         Call("free", client_list[i])>>
        PROVE  AimedInv'
    <3>1. \A e \in Elements(todo') : \/ e = Call("unmap_client", client_list[i])
                                     \/ e = Call("free", client_list[i])
      BY <2>1 DEF Elements
    <3>2. \A e \in Elements(todo') : e.client = client_list[i] /\ e.proc \notin AimProcs
      BY <3>1 DEF Call, AimProcs
    <3>. QED BY <2>1, <3>2, UnlinkAimed
  <2>. QED BY <1>1, <1>4, <2>1 DEF handle_unmap_notify_event
<1>. QED BY <1>2, <1>3, <1>4 DEF HandleEvent

LEMMA CommandAimed ==
    ASSUME ClientsAssumption, IInv, AimedInv, RunCommand
    PROVE  AimedInv'
<1>. USE DEF IInv
<1>1. CASE UNCHANGED <<client_list, next, todo>> BY <1>1, AimedStays
<1>2. get_focus_client \in Listed \cup {Unspecified} BY FocusClientTyped
<1>3. CASE ClientCommand
  <2>1. PICK c \in Listed, p \in {"map_client", "unmap_client", "destroy_client"} :
           todo' = <<Call(p, c)>>
    BY <1>3 DEF ClientCommand, Start
  <2>. QED BY <1>3, <2>1, BeginAimed DEF ClientCommand
<1>4. CASE FocusCommand
  <2>1. PICK p \in {"focus_next", "focus_prev"} : todo' = <<Call(p, get_focus_client)>>
    BY <1>4 DEF FocusCommand, Start
  <2>. QED BY <1>2, <1>4, <2>1, BeginAimed DEF FocusCommand
<1>5. CASE close
  <2>1. CASE Crash BY <1>1, <2>1 DEF Crash
  <2>2. CASE ~Crash
    <3>1. /\ todo' = <<Call("destroy_client", get_focus_client)>>
          /\ UNCHANGED <<client_list, next>>
      BY <1>5, <2>2 DEF close, Start
    <3>. QED BY <1>2, <3>1, BeginAimed
  <2>. QED BY <2>1, <2>2
<1>6. CASE client_list_reverse
  BY <1>6, NothingToDo DEF client_list_reverse, Command, Idle
<1>7. CASE swap_master
  <2>1. \A i \in VisibleAt : client_list[i] \in Listed BY DEF VisibleAt, Listed
  <2>2. ASSUME NEW c, NEW d, NEW m \in Listed, client_list_swap(c, d, m)
        PROVE  AimedInv'
    <3>1. \A e \in Elements(todo') : \/ e = Call("focus_client", m)
                                     \/ e = Call("auto_tile", m)
      BY <2>2 DEF client_list_swap, Start, Elements
    <3>2. \A e \in Elements(todo') : e.client = m BY <3>1 DEF Call
    <3>3. Listed' = Listed BY <2>2 DEF client_list_swap, Listed
    <3>. QED BY <3>2, <3>3 DEF AimedInv, Aimed, Elements
  <2>3. \/ Raise \/ Crash \/ \E c, d : \E m \in Listed : client_list_swap(c, d, m)
    BY <1>7, <2>1 DEF swap_master
  <2>. QED BY <1>1, <2>2, <2>3 DEF Raise, Crash
<1>. QED BY <1>3, <1>4, <1>5, <1>6, <1>7 DEF RunCommand

LEMMA PointerAimed ==
    ASSUME ClientsAssumption, AimedInv, auto_focus_pointer
    PROVE  AimedInv'
<1>1. UNCHANGED <<client_list, next>> BY DEF auto_focus_pointer
<1>2. CASE UNCHANGED todo BY <1>1, <1>2, AimedStays
<1>3. CASE todo' = <<>> BY <1>3, NothingToDo
<1>4. ASSUME NEW i \in DOMAIN client_list,
             todo' = <<Call("set_focus_client", client_list[i])>>
      PROVE  AimedInv'
  BY <1>1, <1>4, BeginAimed DEF Listed
<1>. QED BY <1>2, <1>3, <1>4 DEF auto_focus_pointer

LEMMA NextAimed ==
    ASSUME ClientsAssumption, HooksSpareTheRemoved, IInv, AimedInv, [Next]_vars
    PROVE  AimedInv'
<1>1. CASE UNCHANGED <<client_list, next, todo>> BY <1>1, AimedStays
<1>2. CASE NwmStep
  <2>1. CASE Crash \/ Misfit
    BY <1>1, <2>1, BreaksOff, NothingToDo DEF Broken
  <2>2. CASE ~Crash /\ ~Misfit
    <3>1. /\ todo # <<>> /\ UNCHANGED <<client_list, next>>
          /\ \E calls : Made(calls)
      BY <1>2, <2>2, NwmStepMakes
    <3>. QED BY <3>1, ThenAimed DEF Made
  <2>. QED BY <2>1, <2>2
<1>3. CASE AppAction \/ Dead \/ UNCHANGED vars
  BY <1>1, <1>3 DEF AppAction, nvars, Dead, vars
<1>. QED BY <1>2, <1>3, EventAimed, CommandAimed, PointerAimed DEF Next

\* Every call that gives a client's window to the user is for a client that
\* is listed when it is made, whoever made it and whatever it was read from
\* (next-client of a removed structure among them).
THEOREM CallsAreAimed ==
    ASSUME HooksSpareTheRemoved
    PROVE  Spec => []AimedInv
<1>1. Init => AimedInv BY NoElements DEF Init, AimedInv
<1>2. IInv /\ AimedInv /\ [Next]_vars => AimedInv'
  BY NextAimed, ClientsAssumption
<1>. QED BY <1>1, <1>2, Invariant, PTL DEF Spec

\* nwm gives the focus only to a window that it manages at that moment.
THEOREM FocusIsAimed ==
    ASSUME HooksSpareTheRemoved
    PROVE  Spec => FocusGoesToManaged
<1>. DEFINE A == NwmStep /\ xfocus' \notin {xfocus, NoWindow} => Managed(xfocus')
<1>1. ASSUME IInv, AimedInv, [Next]_vars PROVE [A]_vars
  <2>. SUFFICES ASSUME NwmStep, xfocus' \notin {xfocus, NoWindow}
                PROVE  Managed(xfocus')
    OBVIOUS
  <2>0. xfocus' # xfocus OBVIOUS
  <2>1. set_focus_client
    BY DEF NwmStep, map_client, unmap_client, destroy_client, kill_client, free,
           focus_client, focus_next_client, auto_tile, focus_next, focus_prev,
           FocusNeighbour, Crash, ServerMap, ServerUnmap, ServerDestroy, DropFocus, xvars
  <2>2. xfocus' = window[Arg] BY <2>0, <2>1 DEF set_focus_client, ServerFocus
  <2>3. Arg \in Clients /\ todo # <<>> BY <1>1, <2>1, ClientsAssumption, ArgIsClient DEF set_focus_client, IInv, CoreProcs
  <2>4. Arg \in Listed
    <3>1. Aimed(Head(todo)) BY <1>1, <2>3, HeadAimed
    <3>. QED BY <2>1, <2>3, <3>1, ClientsAssumption
         DEF Aimed, AimProcs, set_focus_client, Calls, Arg, ClientsAssumption
  <2>. QED BY <2>2, <2>4 DEF Listed, Managed
<1>2. Spec => [][A]_vars
  BY <1>1, Invariant, CallsAreAimed, PTL DEF Spec
<1>. QED BY <1>2 DEF FocusGoesToManaged

----------------------------------------------------------------------------
(* What the server's requests and the programs' moves do to the windows    *)
(* that are on the screen and did not opt out, when no id is used twice.   *)

Shown == {w \in Windows : Mapped(w) /\ w \notin xoverride}

\* Those among them that were put there since nwm started.
Ours == {w \in Windows : xstate[w] = "mapped" /\ w \notin xoverride}

\* The report of a window's end comes after it, and no window had the id
\* before that.
UsedOnce ==
    \A w \in Windows :
        /\ Noticed(w) => lives[w] # 0
        /\ Pending("DestroyNotify", w) => ~Exists(w)

\* A step of the server that makes no window.
Ages ==
    /\ UNCHANGED lives /\ xoverride' \subseteq xoverride
    /\ \A w \in Windows :
          /\ Exists(w)' => Exists(w)
          /\ Pending("DestroyNotify", w)' =>
                \/ Pending("DestroyNotify", w) /\ (Exists(w)' => Exists(w))
                \/ Exists(w) /\ ~Exists(w)'

\* One that puts no window on the screen either.
Tidy == Ages /\ Shown' \subseteq Shown /\ Ours' \subseteq Ours

LEMMA AgesUsedOnce == UsedOnce /\ Ages => UsedOnce'
BY DEF UsedOnce, Ages, Noticed

LEMMA PendingElements ==
    /\ \A t, w : Pending(t, w) <=> \E e \in Elements(xqueue) : e.type = t /\ e.window = w
    /\ \A t, w : Pending(t, w)' <=> \E e \in Elements(xqueue') : e.type = t /\ e.window = w
BY DEF Pending, Elements

\* The ends that an event put at the end of the queue reports.
Reported(s) == {e.window : e \in {d \in Elements(s) : d.type = "DestroyNotify"}}

LEMMA QueueAdds ==
    ASSUME XTypeOK, NEW s \in Seq(EventSet), xqueue' = xqueue \o s
    PROVE  \A w : Pending("DestroyNotify", w)' =>
                     Pending("DestroyNotify", w) \/ w \in Reported(s)
<1>1. Elements(xqueue') = Elements(xqueue) \cup Elements(s)
  BY ConcatElements DEF XTypeOK
<1>. QED BY <1>1, PendingElements DEF Reported

LEMMA SameTidy == UNCHANGED xvars => Tidy
BY DEF xvars, Tidy, Ages, Shown, Ours, Exists, Mapped, Pending

LEMMA ServerMapTidy ==
    ASSUME XTypeOK, NEW w, ServerMap(w)
    PROVE  /\ Ages /\ Shown' \subseteq Shown \cup {w} /\ Ours' \subseteq Ours \cup {w}
           /\ w \in xoverride => Tidy
<1>1. Ages BY DEF Ages, ServerMap, XTypeOK, Exists, Pending
<1>2. \A v \in Windows : /\ Mapped(v)' => Mapped(v) \/ v = w
                         /\ xstate'[v] = "mapped" => xstate[v] = "mapped" \/ v = w
  BY DEF ServerMap, XTypeOK, Mapped, Exists
<1>3. UNCHANGED xoverride BY DEF ServerMap
<1>. QED BY <1>1, <1>2, <1>3 DEF Shown, Ours, Tidy

LEMMA ServerFocusTidy ==
    ASSUME NEW w, ServerFocus(w)
    PROVE  Tidy
BY DEF ServerFocus, Tidy, Ages, Shown, Ours, Exists, Mapped, Pending

LEMMA UnmappingKinds ==
    ASSUME NEW w
    PROVE  /\ Unmapping(w) \in Seq(EventSet)
           /\ \A e \in Elements(Unmapping(w)) : e.type = "UnmapNotify" /\ ~e.sent
<1>1. CASE ~Mapped(w) BY <1>1, NoElements, EmptySeq DEF Unmapping
<1>2. CASE Mapped(w)
  <2>. DEFINE ev == Event("UnmapNotify", w, FALSE)
  <2>1. ev \in EventSet /\ ev.type = "UnmapNotify" /\ ~ev.sent
    BY <1>2 DEF Mapped, Event, EventSet
  <2>2. Unmapping(w) = <<ev>> BY <1>2 DEF Unmapping
  <2>. HIDE DEF ev
  <2>3. <<ev>> \in Seq(EventSet) BY <2>1, Singleton
  <2>. QED BY <2>1, <2>2, <2>3, OneElement
<1>. QED BY <1>1, <1>2

LEMMA ServerUnmapTidy ==
    ASSUME XTypeOK, NEW w, ServerUnmap(w)
    PROVE  Tidy /\ w \notin Ours'
<1>1. UNCHANGED <<xoverride, lives>> BY DEF ServerUnmap
<1>2. \A v \in Windows : /\ Exists(v)' <=> Exists(v)
                         /\ Mapped(v)' => Mapped(v) /\ v # w
                         /\ xstate'[v] = "mapped" => xstate[v] = "mapped" /\ v # w
  BY DEF ServerUnmap, XTypeOK, Exists, Mapped
<1>3. \A v : Pending("DestroyNotify", v)' => Pending("DestroyNotify", v)
  <2>1. xqueue' = xqueue \o Unmapping(w) BY DEF ServerUnmap
  <2>2. /\ Unmapping(w) \in Seq(EventSet)
        /\ \A e \in Elements(Unmapping(w)) : e.type = "UnmapNotify"
    BY UnmappingKinds
  <2>3. Reported(Unmapping(w)) = {} BY <2>2 DEF Reported
  <2>. QED BY <2>1, <2>2, <2>3, QueueAdds
<1>. QED BY <1>1, <1>2, <1>3 DEF Tidy, Ages, Shown, Ours

\* The events with which a window leaves the screen or goes away.
LEMMA UnmappingKindsThen ==
    ASSUME XTypeOK, NEW w, NEW ev \in EventSet, xqueue' = xqueue \o Unmapping(w) \o <<ev>>
    PROVE  /\ \A v : Pending("DestroyNotify", v)' =>
                        \/ Pending("DestroyNotify", v)
                        \/ ev.type = "DestroyNotify" /\ ev.window = v
           /\ Elements(xqueue') = Elements(xqueue) \cup Elements(Unmapping(w)) \cup {ev}
<1>. DEFINE u == Unmapping(w)
            s == u \o <<ev>>
<1>1. u \in Seq(EventSet) /\ <<ev>> \in Seq(EventSet)
  BY UnmappingKinds, Singleton
<1>2. s \in Seq(EventSet) /\ Elements(s) = Elements(u) \cup {ev}
  <2>. HIDE DEF u
  <2>1. s \in Seq(EventSet) BY <1>1, ConcatProperties
  <2>2. Elements(s) = Elements(u) \cup Elements(<<ev>>)
    BY <1>1, ConcatElements, ZenonT(30)
  <2>3. Elements(<<ev>>) = {ev} BY OneElement
  <2>. HIDE DEF s
  <2>. QED BY <2>1, <2>2, <2>3
<1>3. xqueue' = xqueue \o s
  <2>1. xqueue \in Seq(EventSet) BY DEF XTypeOK
  <2>. HIDE DEF u
  <2>2. xqueue' = xqueue \o u \o <<ev>> BY DEF u
  <2>3. (xqueue \o u) \o <<ev>> = xqueue \o (u \o <<ev>>)
    BY <1>1, <2>1, ConcatAssociative
  <2>. QED BY <2>2, <2>3
<1>4. \A e \in Elements(u) : e.type # "DestroyNotify" BY UnmappingKinds
<1>. HIDE DEF u, s
<1>5. \A v \in Reported(s) : ev.type = "DestroyNotify" /\ ev.window = v
  BY <1>2, <1>4 DEF Reported
<1>6. Elements(xqueue') = Elements(xqueue) \cup Elements(s)
  <2>1. xqueue \in Seq(EventSet) /\ s \in Seq(EventSet) BY <1>2 DEF XTypeOK
  <2>. QED BY <1>3, <2>1, ConcatElements, ZenonT(30)
<1>. QED BY <1>2, <1>3, <1>5, <1>6, QueueAdds DEF u

LEMMA ServerDestroyTidy ==
    ASSUME XTypeOK, NEW w, ServerDestroy(w)
    PROVE  Tidy
<1>1. CASE ~Exists(w) BY <1>1, SameTidy DEF ServerDestroy
<1>2. CASE Exists(w)
  <2>. DEFINE ev == Event("DestroyNotify", w, FALSE)
  <2>1. ev \in EventSet /\ ev.window = w BY <1>2 DEF Event, EventSet, Exists
  <2>2. /\ xoverride' = xoverride \ {w} /\ UNCHANGED lives
        /\ xqueue' = xqueue \o Unmapping(w) \o <<ev>>
    BY <1>2 DEF ServerDestroy
  <2>. HIDE DEF ev
  <2>3. \A v : Pending("DestroyNotify", v)' => Pending("DestroyNotify", v) \/ v = w
    BY <2>1, <2>2, UnmappingKindsThen
  <2>4. \A v \in Windows : /\ Exists(v)' => Exists(v) /\ v # w
                           /\ Mapped(v)' => Mapped(v) /\ v # w
                           /\ xstate'[v] = "mapped" => xstate[v] = "mapped" /\ v # w
    BY <1>2 DEF ServerDestroy, XTypeOK, Exists, Mapped
  <2>. QED BY <1>2, <2>2, <2>3, <2>4 DEF Tidy, Ages, Shown, Ours
<1>. QED BY <1>1, <1>2

LEMMA TakeEventTidy ==
    ASSUME XTypeOK, NEW type, TakeEvent(type)
    PROVE  Tidy /\ UNCHANGED <<xoverride, Shown, Ours>>
<1>1. UNCHANGED <<xoverride, Shown, Ours, lives>> /\ \A w : Exists(w)' <=> Exists(w)
  BY DEF TakeEvent, Shown, Ours, Mapped, Exists
<1>2. Elements(xqueue') \subseteq Elements(xqueue)
  <2>1. xqueue \in Seq(EventSet) /\ xqueue # <<>> /\ xqueue' = Tail(xqueue)
    BY DEF TakeEvent, XTypeOK
  <2>2. Elements(xqueue) = Elements(Tail(xqueue)) \cup {Head(xqueue)}
    BY <2>1, TailElements
  <2>. QED BY <2>1, <2>2
<1>3. \A w : Pending("DestroyNotify", w)' => Pending("DestroyNotify", w)
  BY <1>2, PendingElements
<1>. QED BY <1>1, <1>3 DEF Tidy, Ages

\* A program may make a new window; nothing else it does puts a window on
\* the screen that did not opt out.
LEMMA AppStepTidy ==
    ASSUME XServerAssumption, XTypeOK, AppStep
    PROVE  Tidy \/ \E w \in Windows : AppCreate(w)
<1>1. PICK w \in Windows : \/ AppCreate(w) \/ AppMap(w) \/ AppUnmap(w)
                           \/ AppWithdraw(w) \/ AppDestroy(w) \/ AppFocus(w)
  BY DEF AppStep
<1>2. CASE AppMap(w)
  <2>1. CASE w \in xoverride BY <1>2, <2>1, ServerMapTidy DEF AppMap
  <2>2. CASE w \notin xoverride
    <3>. DEFINE ev == Event("MapRequest", w, FALSE)
    <3>1. ev \in EventSet /\ ev.type = "MapRequest" BY DEF Event, EventSet
    <3>2. xqueue' = Append(xqueue, ev) /\ UNCHANGED <<xstate, xoverride, lives>>
      BY <1>2, <2>2 DEF AppMap
    <3>. HIDE DEF ev
    <3>3. xqueue' = xqueue \o <<ev>> /\ <<ev>> \in Seq(EventSet)
      BY <3>1, <3>2, AppendIsConcat, Singleton DEF XTypeOK
    <3>4. \A v : Pending("DestroyNotify", v)' => Pending("DestroyNotify", v)
      <4>1. Reported(<<ev>>) = {} BY <3>1, OneElement DEF Reported
      <4>. QED BY <3>3, <4>1, QueueAdds
    <3>. QED BY <3>2, <3>4 DEF Tidy, Ages, Shown, Ours, Mapped, Exists
  <2>. QED BY <2>1, <2>2
<1>3. CASE AppUnmap(w) BY <1>3, ServerUnmapTidy DEF AppUnmap
<1>4. CASE AppFocus(w) BY <1>4, ServerFocusTidy DEF AppFocus
<1>5. CASE AppDestroy(w) BY <1>5, ServerDestroyTidy DEF AppDestroy
<1>6. CASE AppWithdraw(w)
  <2>. DEFINE ev == Event("UnmapNotify", w, TRUE)
  <2>1. ev \in EventSet /\ ev.type = "UnmapNotify" BY DEF Event, EventSet
  <2>2. /\ xqueue' = xqueue \o Unmapping(w) \o <<ev>> /\ UNCHANGED <<xoverride, lives>>
        /\ xstate' = [xstate EXCEPT ![w] = "unmapped"] /\ Exists(w)
    BY <1>6 DEF AppWithdraw
  <2>. HIDE DEF ev
  <2>3. \A v : Pending("DestroyNotify", v)' => Pending("DestroyNotify", v)
    BY <2>1, <2>2, UnmappingKindsThen
  <2>4. \A v \in Windows : /\ Exists(v)' => Exists(v)
                           /\ Mapped(v)' => Mapped(v)
                           /\ xstate'[v] = "mapped" => xstate[v] = "mapped"
    BY <2>2 DEF XTypeOK, Exists, Mapped
  <2>. QED BY <2>2, <2>3, <2>4 DEF Tidy, Ages, Shown, Ours
<1>. QED BY <1>1, <1>2, <1>3, <1>4, <1>5, <1>6

LEMMA CreateTidy ==
    ASSUME XTypeOK, IdsUsedOnce, UsedOnce, NEW w \in Windows, AppCreate(w)
    PROVE  /\ UsedOnce' /\ Shown' \subseteq Shown /\ Ours' \subseteq Ours
           /\ xoverride' \subseteq xoverride \cup {w} /\ ~Noticed(w)
<1>1. lives[w] = 0
  <2>1. lives[w] \in Nat /\ lives[w] < 1 BY DEF XTypeOK, AppCreate, IdsUsedOnce
  <2>. QED BY <2>1
<1>2. ~Noticed(w) BY <1>1 DEF UsedOnce
<1>3. /\ xstate' = [xstate EXCEPT ![w] = "unmapped"] /\ lives' = [lives EXCEPT ![w] = @ + 1]
      /\ xoverride' \in {xoverride, xoverride \cup {w}} /\ UNCHANGED xqueue
  BY DEF AppCreate
<1>4. \A v : Pending("DestroyNotify", v)' <=> Pending("DestroyNotify", v)
  BY <1>3 DEF Pending
<1>5. \A v \in Windows : /\ Exists(v)' => Exists(v) \/ v = w
                         /\ Mapped(v)' => Mapped(v)
                         /\ xstate'[v] = "mapped" => xstate[v] = "mapped"
  BY <1>3 DEF XTypeOK, Exists, Mapped
<1>6. lives'[w] = 1 /\ \A v \in Windows \ {w} : lives'[v] = lives[v]
  BY <1>1, <1>3 DEF XTypeOK
<1>7. UsedOnce' BY <1>2, <1>4, <1>5, <1>6 DEF UsedOnce, Noticed
<1>. QED BY <1>2, <1>3, <1>5, <1>7 DEF Shown, Ours

----------------------------------------------------------------------------
(* What is on the screen, what is managed and what was laid out.           *)

\* A structure is freed by the last of the pending calls.
FreeLast == \A i \in DOMAIN todo : todo[i].proc = "free" => i = Len(todo)

Ordinary == ManagedWindows \cap xoverride = {}

\* The windows that nwm let go and is about to unmap.
Leaving == {w \in Windows : \E e \in Elements(todo) :
                               e.proc = "unmap_client" /\ window[e.client] = w}

\* An error that is caught leaves no window behind that was about to leave.
ScreenInv ==
    /\ UsedOnce /\ Ordinary /\ FreeLast
    /\ Ours \subseteq ManagedWindows \cup Leaving
    /\ caught => Ours \subseteq ManagedWindows

\* The layout is that of the present clients, or will be computed again.
TileProcs == {"auto_tile", "map_client", "unmap_client", "destroy_client"}
Tiled == Shown \cap ManagedWindows \subseteq tiled /\ tiled \subseteq ManagedWindows
LaidInv == Tiled \/ \E e \in Elements(todo) : e.proc \in TileProcs

\* What begins when nothing is pending.
Begun ==
    \/ Clean(todo')
    \/ \E c \in Clients : todo' = <<Call("unmap_client", c), Call("free", c)>>

LEMMA BegunFreeLast == Begun => FreeLast'
<1>1. Clean(todo') => FreeLast' BY DEF Clean, FreeLast
<1>2. ASSUME NEW c, todo' = <<Call("unmap_client", c), Call("free", c)>>
      PROVE  FreeLast'
  BY <1>2 DEF FreeLast, Call
<1>. QED BY <1>1, <1>2 DEF Begun

LEMMA ThenFreeLast ==
    ASSUME todo \in Seq(CallSet), todo # <<>>, FreeLast,
           NEW calls \in Seq(CallSet), Clean(calls), Then(calls)
    PROVE  FreeLast'
<1>1. /\ Tail(todo) \in Seq(CallSet)
      /\ \A i \in 1..Len(Tail(todo)) : Tail(todo)[i] = todo[i + 1]
      /\ Len(Tail(todo)) = Len(todo) - 1
  BY HeadTailProperties
<1>2. /\ todo' \in Seq(CallSet) /\ Len(todo') = Len(calls) + Len(Tail(todo))
      /\ \A i \in 1..(Len(calls) + Len(Tail(todo))) :
            todo'[i] = IF i <= Len(calls) THEN calls[i]
                       ELSE Tail(todo)[i - Len(calls)]
  BY <1>1, ConcatProperties DEF Then
<1>3. /\ DOMAIN todo = 1..Len(todo) /\ Len(todo) \in Nat
      /\ DOMAIN calls = 1..Len(calls) /\ Len(calls) \in Nat
      /\ DOMAIN todo' = 1..Len(todo')
  BY <1>2, LenProperties
<1>4. ASSUME NEW i \in DOMAIN todo', todo'[i].proc = "free"
      PROVE  i = Len(todo')
  <2>1. ~(i <= Len(calls)) BY <1>2, <1>3, <1>4 DEF Clean
  <2>2. Len(Tail(todo)) \in Nat BY <1>1, LenProperties
  <2>3. i \in 1..(Len(calls) + Len(Tail(todo))) BY <1>2, <1>3, <1>4
  <2>4. todo'[i] = Tail(todo)[i - Len(calls)] BY <1>2, <2>1, <2>3
  <2>5. i - Len(calls) \in 1..Len(Tail(todo)) BY <1>3, <2>1, <2>2, <2>3
  <2>6. /\ i - Len(calls) + 1 \in DOMAIN todo
        /\ todo[i - Len(calls) + 1] = todo'[i]
    BY <1>1, <1>3, <2>4, <2>5
  <2>7. i - Len(calls) + 1 = Len(todo) BY <1>4, <2>6 DEF FreeLast
  <2>. QED BY <1>1, <1>2, <1>3, <2>3, <2>7
<1>. QED BY <1>4 DEF FreeLast

\* free() is never called with other calls pending.
LEMMA FreeIsLast ==
    ASSUME todo \in Seq(CallSet), FreeLast, Calls("free")
    PROVE  Elements(todo) = {Head(todo)}
<1>1. /\ DOMAIN todo = 1..Len(todo) /\ Len(todo) \in Nat \ {0} /\ todo[1] = Head(todo)
  BY LenProperties, EmptySeq DEF Calls
<1>2. Len(todo) = 1 BY <1>1 DEF FreeLast, Calls
<1>. QED BY <1>1, <1>2 DEF Elements

----------------------------------------------------------------------------
(* The calls.                                                              *)

\* What a call does to the screen and to the clients.
LEMMA NwmStepTidy ==
    ASSUME ClientsAssumption, IInv, NwmStep, ~Crash
    PROVE  /\ UNCHANGED ManagedWindows
           /\ \/ Tidy
              \/ /\ map_client /\ Ages
                 /\ Shown' \subseteq Shown \cup {window[Arg]}
                 /\ Ours' \subseteq Ours \cup {window[Arg]}
<1>. USE DEF IInv
<1>1. XTypeOK BY DEF TypeOK
<1>2. CASE map_client
  BY <1>1, <1>2, ServerMapTidy, SameListKept DEF map_client
<1>3. CASE unmap_client
  BY <1>1, <1>3, ServerUnmapTidy, SameListKept DEF unmap_client
<1>4. CASE kill_client
  BY <1>1, <1>4, ServerDestroyTidy, SameListKept DEF kill_client
<1>5. CASE set_focus_client
  BY <1>1, <1>5, ServerFocusTidy, SameListKept DEF set_focus_client
<1>6. CASE free
  BY <1>6, SameTidy, FreeKeeps DEF free
<1>7. CASE \/ destroy_client \/ focus_client \/ focus_next_client
           \/ auto_tile \/ focus_next \/ focus_prev
  BY <1>7, SameTidy, SameListKept
     DEF destroy_client, focus_client, focus_next_client, auto_tile, focus_next,
         focus_prev, FocusNeighbour
<1>. QED BY <1>2, <1>3, <1>4, <1>5, <1>6, <1>7 DEF NwmStep

LEMMA NwmStepScreen ==
    ASSUME ClientsAssumption, HooksSpareTheRemoved, IInv, AimedInv, ScreenInv,
           NwmStep, ~Crash, ~Misfit
    PROVE  ScreenInv'
<1>. USE DEF IInv
<1>1. /\ todo # <<>> /\ todo \in Seq(CallSet)
      /\ \E calls : Made(calls)
  BY NwmStepMakes DEF TypeOK
<1>2. PICK calls : Made(calls) BY <1>1
<1>3. /\ Elements(todo') = Elements(calls) \cup Elements(Tail(todo))
      /\ Elements(todo) = Elements(Tail(todo)) \cup {Head(todo)}
  BY <1>1, <1>2, ThenElements DEF Made
<1>4. FreeLast' BY <1>1, <1>2, ThenFreeLast DEF Made, ScreenInv
<1>5. /\ UNCHANGED ManagedWindows
      /\ \/ Tidy
         \/ map_client /\ Ages /\ Ours' \subseteq Ours \cup {window[Arg]}
  BY NwmStepTidy
<1>6. UsedOnce' BY <1>5, AgesUsedOnce DEF Tidy, ScreenInv
<1>7. Ordinary' BY <1>5 DEF Ordinary, ScreenInv, Tidy, Ages
<1>8. map_client => window[Arg] \in ManagedWindows
  <2>. SUFFICES ASSUME map_client PROVE window[Arg] \in ManagedWindows OBVIOUS
  <2>1. Calls("map_client") BY DEF map_client
  <2>2. Arg \in Clients BY <2>1, ArgIsClient DEF CoreProcs
  <2>3. Aimed(Head(todo)) BY <1>1, HeadAimed
  <2>4. Arg \in Listed
    BY <2>1, <2>2, <2>3 DEF Aimed, AimProcs, Calls, Arg, ClientsAssumption
  <2>. QED BY <2>4, ClientsNoticed DEF ManagedWindows, Managed, Listed
<1>9. Ours' \subseteq Ours \cup ManagedWindows BY <1>5, <1>8 DEF Tidy
<1>10. Ours' \subseteq ManagedWindows \cup Leaving'
  <2>1. CASE free
    <3>1. Elements(todo) = {Head(todo)} BY <1>1, <2>1, FreeIsLast DEF free, ScreenInv
    <3>2. Leaving = {} BY <2>1, <3>1 DEF Leaving, free, Calls
    <3>. QED BY <1>9, <3>2 DEF ScreenInv
  <2>2. CASE ~free /\ ~unmap_client
    <3>1. UNCHANGED window /\ Head(todo).proc # "unmap_client"
      BY <2>2 DEF NwmStep, map_client, destroy_client, kill_client, set_focus_client,
                  focus_client, focus_next_client, auto_tile, focus_next, focus_prev,
                  FocusNeighbour, Calls
    <3>2. Leaving \subseteq Leaving' BY <1>3, <3>1 DEF Leaving, Elements
    <3>. QED BY <1>9, <3>2 DEF ScreenInv
  <2>3. CASE unmap_client
    <3>1. UNCHANGED window /\ ServerUnmap(window[Arg]) BY <2>3 DEF unmap_client
    <3>2. window[Arg] \notin Ours' BY <3>1, ServerUnmapTidy DEF TypeOK
    <3>3. Leaving \subseteq Leaving' \cup {window[Arg]}
      BY <1>3, <3>1 DEF Leaving, Elements, Arg
    <3>. QED BY <1>9, <3>2, <3>3 DEF ScreenInv
  <2>. QED BY <2>1, <2>2, <2>3
<1>11. caught' => Ours' \subseteq ManagedWindows
  <2>1. caught' => caught BY <1>2 DEF Made, Then, StayCaught
  <2>. QED BY <1>9, <2>1 DEF ScreenInv
<1>. QED BY <1>4, <1>5, <1>6, <1>7, <1>10, <1>11 DEF ScreenInv

----------------------------------------------------------------------------
(* The handlers and the commands: what begins while nothing is pending.    *)

WillTile == \E e \in Elements(todo) : e.proc \in TileProcs

\* A window that joins did not opt out, one that leaves is gone or is about
\* to be unmapped, and the layout is computed when the clients change.
Begins ==
    /\ todo = <<>> /\ Begun
    /\ Tidy /\ UNCHANGED <<Shown, Ours, xoverride, tiled>>
    /\ ManagedWindows' \subseteq ManagedWindows \cup (Windows \ xoverride)
    /\ Ours \cap ManagedWindows \subseteq ManagedWindows' \cup Leaving'
    /\ UNCHANGED ManagedWindows \/ WillTile'
    /\ UNCHANGED ManagedWindows \/ ~caught'

LEMMA NothingPending ==
    ASSUME todo = <<>>
    PROVE  Elements(todo) = {} /\ Leaving = {}
BY NoElements DEF Leaving

LEMMA BeginsScreen == ScreenInv /\ Begins => ScreenInv'
<1>. SUFFICES ASSUME ScreenInv, Begins PROVE ScreenInv' OBVIOUS
<1>1. UsedOnce' /\ FreeLast' BY AgesUsedOnce, BegunFreeLast DEF ScreenInv, Begins, Tidy
<1>2. Ordinary' BY DEF ScreenInv, Begins, Ordinary
<1>3. Ours \subseteq ManagedWindows BY NothingPending DEF ScreenInv, Begins
<1>4. Ours' \subseteq ManagedWindows' \cup Leaving' BY <1>3 DEF Begins
<1>5. caught' => Ours' \subseteq ManagedWindows' BY <1>3 DEF Begins
<1>. QED BY <1>1, <1>2, <1>4, <1>5 DEF ScreenInv

LEMMA BeginsLaid == LaidInv /\ Begins => LaidInv'
<1>. SUFFICES ASSUME LaidInv, Begins PROVE LaidInv' OBVIOUS
<1>1. Tiled BY NothingPending DEF LaidInv, Begins
<1>2. CASE WillTile' BY <1>2 DEF LaidInv, WillTile
<1>3. CASE UNCHANGED ManagedWindows BY <1>1, <1>3 DEF LaidInv, Tiled, Begins
<1>. QED BY <1>2, <1>3 DEF Begins

\* Calls that are begun for the clients as they are.
LEMMA QuietBegins ==
    ASSUME TypeOK, todo = <<>>, Begun, Tidy,
           UNCHANGED <<Shown, Ours, xoverride, tiled, ManagedWindows>>
    PROVE  Begins
BY DEF Begins

LEMMA OneBegun ==
    ASSUME NEW p, p # "free", NEW c, todo' = <<Call(p, c)>>
    PROVE  Begun /\ (p \in TileProcs => WillTile')
<1>1. Clean(todo') BY DEF Clean, Call
<1>2. Elements(todo') = {Call(p, c)} BY OneCall
<1>3. p \in TileProcs => WillTile' BY <1>2 DEF WillTile, Elements, Call
<1>. QED BY <1>1, <1>3 DEF Begun

LEMMA NoneBegun == todo = <<>> /\ UNCHANGED todo => Begun
BY NoCalls DEF Begun

LEMMA ManageBegins ==
    ASSUME ClientsAssumption, IInv, TakeEvent("MapRequest"),
           EventWindow \notin xoverride,
           NEW c \in Clients \ Listed, manage_window(c, EventWindow)
    PROVE  Begins
<1>1. /\ Tidy /\ UNCHANGED <<Shown, Ours, xoverride, tiled>> /\ todo = <<>>
      /\ EventWindow \in Windows /\ caught' = FALSE
  BY TakeEventTidy, EventTaken DEF TakeEvent, Idle, IInv, TypeOK
<1>2. ManagedWindows' = ManagedWindows \cup {EventWindow}
  BY <1>1, ManageJoins DEF IInv
<1>. DEFINE hook == run_hook("create-client-hook", c)
            m == Call("map_client", c)
            maps == <<m, m>>
<1>3. hook \in Seq(CallSet) /\ Clean(hook) BY RunHookTyped DEF HookNames
<1>4. m \in CallSet /\ m.proc = "map_client" BY DEF Call, CallSet, Procs, CoreProcs
<1>5. todo' = hook \o maps BY DEF manage_window
<1>6. maps \in Seq(CallSet) /\ Clean(maps) /\ m \in Elements(maps)
  <2>. HIDE DEF m
  <2>1. maps \in Seq(CallSet) /\ Elements(maps) = {m}
    BY <1>4, SameCallTwice
  <2>2. \A i \in DOMAIN maps : maps[i] \in Elements(maps)
    BY DEF Elements
  <2>. QED BY <1>4, <2>1, <2>2 DEF Clean
<1>. HIDE DEF hook, m, maps
<1>7. Clean(todo') BY <1>3, <1>5, <1>6, CleanConcat
<1>8. m \in Elements(todo')
  <2>1. Elements(hook \o maps) = Elements(hook) \cup Elements(maps)
    BY <1>3, <1>6, ConcatElements
  <2>. QED BY <1>5, <1>6, <2>1
<1>9. WillTile' BY <1>4, <1>8 DEF WillTile, TileProcs, Elements
<1>. QED BY <1>1, <1>2, <1>7, <1>9 DEF Begins, Begun

LEMMA EventBegins ==
    ASSUME ClientsAssumption, IInv, ScreenInv, HandleEvent
    PROVE  Begins
<1>. USE DEF IInv
<1>1. ASSUME NEW type, TakeEvent(type)
      PROVE  /\ Tidy /\ UNCHANGED <<Shown, Ours, xoverride, tiled>> /\ todo = <<>>
             /\ EventWindow \in Windows /\ caught' = FALSE
  BY <1>1, TakeEventTidy, EventTaken DEF TakeEvent, Idle, TypeOK
<1>2. ASSUME NEW type, TakeEvent(type), UNCHANGED <<client_list, window, next, todo>>
      PROVE  Begins
  BY <1>1, <1>2, SameListKept, NoneBegun, QuietBegins
<1>3. CASE handle_map_request_event
  <2>1. TakeEvent("MapRequest") BY <1>3 DEF handle_map_request_event
  <2>2. ASSUME NEW i \in DOMAIN client_list,
               todo' = <<Call("map_client", client_list[i])>>,
               UNCHANGED <<client_list, window, next>>
        PROVE  Begins
    <3>1. Begun BY <2>2, OneBegun
    <3>. QED BY <1>1, <2>1, <2>2, <3>1, SameListKept, QuietBegins
  <2>. QED BY <1>2, <1>3, <2>1, <2>2, ManageBegins DEF handle_map_request_event
<1>4. CASE handle_destroy_notify_event
  <2>1. TakeEvent("DestroyNotify") BY <1>4 DEF handle_destroy_notify_event
  <2>2. ASSUME NEW i \in DOMAIN client_list, Finds(EventWindow, i), Unlink(i),
               todo' = <<Call("destroy_client", client_list[i])>>
        PROVE  Begins
    <3>1. Begun /\ WillTile' BY <2>2, OneBegun DEF TileProcs
    <3>2. ManagedWindows' = ManagedWindows \ {EventWindow} BY <2>2, UnlinkReleases
    <3>3. EventWindow \notin Ours
      <4>1. Pending("DestroyNotify", EventWindow)
        <5>1. 1 \in DOMAIN xqueue /\ xqueue[1] = Head(xqueue)
          BY <2>1, LenProperties, EmptySeq DEF TakeEvent, TypeOK, XTypeOK
        <5>. QED BY <2>1, <5>1 DEF Pending, TakeEvent, EventWindow
      <4>2. ~Exists(EventWindow) BY <1>1, <2>1, <4>1 DEF ScreenInv, UsedOnce
      <4>. QED BY <4>2 DEF Ours, Exists
    <3>. QED BY <1>1, <2>1, <3>1, <3>2, <3>3 DEF Begins
  <2>. QED BY <1>2, <1>4, <2>1, <2>2 DEF handle_destroy_notify_event
<1>5. CASE handle_unmap_notify_event
  <2>1. TakeEvent("UnmapNotify") BY <1>5 DEF handle_unmap_notify_event
  <2>2. ASSUME NEW i \in DOMAIN client_list, Finds(EventWindow, i), Unlink(i),
               todo' = <<Call("unmap_client", client_list[i]),
                         Call("free", client_list[i])>>
        PROVE  Begins
    <3>. DEFINE u == Call("unmap_client", client_list[i])
    <3>1. u \in Elements(todo') /\ u.proc = "unmap_client" /\ u.client = client_list[i]
      BY <2>2 DEF Elements, Call
    <3>. HIDE DEF u
    <3>2. WillTile' BY <3>1 DEF WillTile, TileProcs, Elements
    <3>3. window' = window /\ window[client_list[i]] = EventWindow
      BY <2>2 DEF Unlink, Finds
    <3>4. EventWindow \in Leaving' BY <1>1, <2>1, <3>1, <3>3 DEF Leaving, Elements
    <3>5. client_list[i] \in Clients BY ElementOfSeq, LenProperties DEF TypeOK
    <3>6. Begun BY <2>2, <3>5 DEF Begun
    <3>7. ManagedWindows' = ManagedWindows \ {EventWindow} BY <2>2, UnlinkReleases
    <3>. QED BY <1>1, <2>1, <3>2, <3>4, <3>6, <3>7 DEF Begins
  <2>. QED BY <1>2, <1>5, <2>1, <2>2 DEF handle_unmap_notify_event
<1>. QED BY <1>3, <1>4, <1>5 DEF HandleEvent

LEMMA CommandBegins ==
    ASSUME ClientsAssumption, IInv, RunCommand \/ auto_focus_pointer
    PROVE  Begins
<1>. USE DEF IInv
<1>1. todo = <<>>
  BY DEF RunCommand, ClientCommand, FocusCommand, close, client_list_reverse,
         swap_master, Command, auto_focus_pointer, Idle
<1>2. UNCHANGED <<xvars, tiled>>
  BY DEF RunCommand, ClientCommand, FocusCommand, close, client_list_reverse,
         swap_master, client_list_swap, Crash, Raise, auto_focus_pointer
<1>3. Tidy /\ UNCHANGED <<Shown, Ours, xoverride, tiled>>
  BY <1>2, SameTidy DEF xvars, Shown, Ours, Mapped
<1>4. CASE UNCHANGED <<client_list, window, todo>>
  BY <1>1, <1>3, <1>4, SameListKept, NoneBegun, QuietBegins
<1>5. ASSUME NEW p, p # "free", NEW c, todo' = <<Call(p, c)>>,
             UNCHANGED <<client_list, window>>
      PROVE  Begins
  <2>1. Begun BY <1>5, OneBegun
  <2>. QED BY <1>1, <1>3, <1>5, <2>1, SameListKept, QuietBegins
<1>6. CASE ClientCommand
  <2>1. PICK c \in Listed, p \in {"map_client", "unmap_client", "destroy_client"} :
           todo' = <<Call(p, c)>>
    BY <1>6 DEF ClientCommand, Start
  <2>. QED BY <1>5, <1>6, <2>1 DEF ClientCommand
<1>7. CASE FocusCommand
  <2>1. PICK p \in {"focus_next", "focus_prev"} : todo' = <<Call(p, get_focus_client)>>
    BY <1>7 DEF FocusCommand, Start
  <2>. QED BY <1>5, <1>7, <2>1 DEF FocusCommand
<1>8. CASE close
  <2>1. CASE Crash BY <1>4, <2>1 DEF Crash
  <2>2. CASE ~Crash
    <3>1. /\ todo' = <<Call("destroy_client", get_focus_client)>>
          /\ UNCHANGED <<client_list, window>>
      BY <1>8, <2>2 DEF close, Start
    <3>2. "destroy_client" # "free" OBVIOUS
    <3>. QED BY <1>5, <3>1, <3>2
  <2>. QED BY <2>1, <2>2
<1>9. CASE client_list_reverse
  <2>1. Begun BY <1>1, <1>9, NoneBegun DEF client_list_reverse
  <2>. QED BY <1>1, <1>3, <1>9, <2>1, ReverseKeeps, QuietBegins
<1>10. CASE swap_master
  <2>1. \A i \in VisibleAt : client_list[i] \in Listed BY DEF VisibleAt, Listed
  <2>2. get_focus_client # Unspecified => get_focus_client \in Listed
    BY FocusClientTyped
  <2>3. \/ Raise \/ Crash
        \/ \E c, d, m \in Listed : client_list_swap(c, d, m)
    BY <1>10, <2>1, <2>2 DEF swap_master
  <2>4. ASSUME NEW c \in Listed, NEW d \in Listed, NEW m \in Listed,
               client_list_swap(c, d, m)
        PROVE  Begins
    <3>1. todo' = <<Call("focus_client", m), Call("auto_tile", m)>>
      BY <2>4 DEF client_list_swap, Start
    <3>2. Begun BY <3>1 DEF Begun, Clean, Call
    <3>. QED BY <1>1, <1>3, <2>4, <3>2, SwapKeeps, QuietBegins
  <2>. QED BY <1>4, <2>3, <2>4 DEF Raise, Crash
<1>11. CASE auto_focus_pointer
  <2>1. UNCHANGED <<client_list, window>> BY <1>11 DEF auto_focus_pointer
  <2>2. "set_focus_client" # "free" OBVIOUS
  <2>3. \/ UNCHANGED todo \/ todo' = <<>>
        \/ \E c : todo' = <<Call("set_focus_client", c)>>
    BY <1>11 DEF auto_focus_pointer
  <2>. QED BY <1>1, <1>4, <1>5, <2>1, <2>2, <2>3
<1>. QED BY <1>6, <1>7, <1>8, <1>9, <1>10, <1>11 DEF RunCommand

----------------------------------------------------------------------------
(* The screen: every window that did not opt out is under nwm's control.   *)

LEMMA AppActionScreen ==
    ASSUME XServerAssumption, IdsUsedOnce, IInv, ScreenInv, AppAction
    PROVE  ScreenInv' /\ Shown' \subseteq Shown /\ UNCHANGED <<ManagedWindows, todo, tiled>>
<1>1. AppStep /\ UNCHANGED <<client_list, window, todo, caught, tiled>>
  BY DEF AppAction, nvars
<1>2. UNCHANGED ManagedWindows BY <1>1, SameListKept
<1>3. UNCHANGED Leaving /\ FreeLast' BY <1>1 DEF Leaving, Elements, ScreenInv, FreeLast
<1>4. CASE Tidy
  BY <1>1, <1>2, <1>3, <1>4, AgesUsedOnce DEF Tidy, Ages, ScreenInv, Ordinary
<1>5. ASSUME NEW w \in Windows, AppCreate(w)
      PROVE  ScreenInv' /\ Shown' \subseteq Shown
  <2>1. /\ UsedOnce' /\ Shown' \subseteq Shown
        /\ Ours' \subseteq Ours
        /\ xoverride' \subseteq xoverride \cup {w} /\ ~Noticed(w)
    BY <1>5, CreateTidy DEF ScreenInv, IInv, TypeOK
  <2>2. w \notin ManagedWindows
    BY <2>1, ClientsNoticed DEF IInv, ManagedWindows, Managed
  <2>. QED BY <1>1, <1>2, <1>3, <2>1, <2>2 DEF ScreenInv, Ordinary
<1>. QED BY <1>1, <1>2, <1>4, <1>5, AppStepTidy DEF IInv, TypeOK

LEMMA StillScreen ==
    ASSUME ScreenInv, UNCHANGED <<xvars, client_list, window, todo, caught>>
    PROVE  ScreenInv'
<1>1. UNCHANGED ManagedWindows /\ Tidy BY SameListKept, SameTidy
<1>2. UNCHANGED Leaving /\ FreeLast' BY DEF Leaving, Elements, ScreenInv, FreeLast
<1>. QED BY <1>1, <1>2, AgesUsedOnce DEF Tidy, Ages, ScreenInv, Ordinary

\* A caught error drops calls that no window depends on.
LEMMA BrokenScreen ==
    ASSUME ScreenInv, Broken
    PROVE  ScreenInv'
<1>1. CASE UNCHANGED <<todo, caught>> BY <1>1, StillScreen DEF Broken
<1>2. CASE caught /\ todo' = <<>> /\ caught' = FALSE
  <2>1. UNCHANGED ManagedWindows /\ Tidy BY SameListKept, SameTidy DEF Broken
  <2>2. FreeLast' BY <1>2 DEF FreeLast
  <2>. QED BY <1>2, <2>1, <2>2, AgesUsedOnce DEF Tidy, Ages, ScreenInv, Ordinary
<1>. QED BY <1>1, <1>2 DEF Broken

LEMMA NextScreen ==
    ASSUME IdsUsedOnce, HooksSpareTheRemoved, IInv, AimedInv, ScreenInv, [Next]_vars
    PROVE  ScreenInv'
<1>. USE XServerAssumption, ClientsAssumption
<1>1. CASE NwmStep
  <2>1. CASE Crash \/ Misfit BY <2>1, BreaksOff, BrokenScreen
  <2>. QED BY <1>1, <2>1, NwmStepScreen
<1>2. CASE AppAction BY <1>2, AppActionScreen
<1>3. CASE HandleEvent BY <1>3, EventBegins, BeginsScreen
<1>4. CASE RunCommand \/ auto_focus_pointer BY <1>4, CommandBegins, BeginsScreen
<1>5. CASE Dead \/ UNCHANGED vars BY <1>5, StillScreen DEF Dead, vars, nvars
<1>. QED BY <1>1, <1>2, <1>3, <1>4, <1>5 DEF Next

LEMMA InitScreen == XServerAssumption /\ Init => ScreenInv /\ LaidInv
<1>. SUFFICES ASSUME XServerAssumption, Init PROVE ScreenInv /\ LaidInv OBVIOUS
<1>1. client_list = <<>> /\ todo = <<>> /\ xqueue = <<>> /\ tiled = {}
  BY DEF Init, XInit
<1>2. DOMAIN client_list = {} /\ DOMAIN todo = {} /\ DOMAIN xqueue = {}
  BY <1>1, EmptySeq
<1>3. \A w \in Windows : /\ ~Pending("DestroyNotify", w) /\ ~Managed(w)
                         /\ Exists(w) => lives[w] # 0
                         /\ xstate[w] # "mapped"
  <2>1. \A w \in Windows : ~Pending("DestroyNotify", w) /\ ~Managed(w)
    BY <1>2 DEF Pending, Managed
  <2>2. /\ xstate \in [Windows -> {"absent", "unmapped", "found"}]
        /\ lives = [w \in Windows |-> IF xstate[w] = "absent" THEN 0 ELSE 1]
    BY DEF Init, XInit
  <2>3. ASSUME NEW w \in Windows
        PROVE  xstate[w] # "mapped" /\ (Exists(w) => lives[w] # 0)
    <3>1. xstate[w] \in {"absent", "unmapped", "found"} BY <2>2
    <3>2. lives[w] = IF xstate[w] = "absent" THEN 0 ELSE 1 BY <2>2, <2>3
    <3>. QED BY <3>1, <3>2 DEF Exists
  <2>. QED BY <2>1, <2>3
<1>4. ManagedWindows = {} /\ Ours = {}
  BY <1>3 DEF ManagedWindows, Ours
<1>. QED BY <1>1, <1>2, <1>3, <1>4
     DEF ScreenInv, UsedOnce, Noticed, Ordinary, FreeLast, LaidInv, Tiled

LEMMA Screen ==
    ASSUME IdsUsedOnce, HooksSpareTheRemoved
    PROVE  Spec => []ScreenInv
<1>1. Init => ScreenInv BY XServerAssumption, InitScreen
<1>2. IInv /\ AimedInv /\ ScreenInv /\ [Next]_vars => ScreenInv' BY NextScreen
<1>. QED BY <1>1, <1>2, Invariant, CallsAreAimed, PTL DEF Spec

\* A window put on the screen since nwm started that did not opt out is managed,
\* or nwm has just let it go and is about to unmap it.  Not so a window that was
\* there before: scan_windows leaves it alone.
THEOREM NothingUnmanaged ==
    ASSUME IdsUsedOnce, HooksSpareTheRemoved
    PROVE  Spec => []MappedIsManaged
<1>1. IInv /\ ScreenInv => MappedIsManaged
  BY DEF IInv, ScreenInv, MappedIsManaged, Ours, ManagedWindows, Leaving, Elements
<1>. QED BY <1>1, Invariant, Screen, PTL

----------------------------------------------------------------------------
(* The layout follows the clients.                                         *)

LEMMA HookTiles ==
    ASSUME ClientsAssumption, HooksTile, NEW c,
           NEW hook \in {"map-client-hook", "unmap-client-hook", "destroy-client-hook"}
    PROVE  \E e \in Elements(run_hook(hook, c)) : e.proc \in TileProcs
<1>1. hook \in HookNames BY DEF HookNames
<1>2. PICK i \in DOMAIN Hooks[hook] : Hooks[hook][i] = "auto_tile" BY DEF HooksTile
<1>3. Call("auto_tile", c) \in Elements(run_hook(hook, c)) BY <1>1, <1>2, HookElements
<1>. QED BY <1>3 DEF Call, TileProcs

LEMMA NwmStepLaid ==
    ASSUME ClientsAssumption, HooksTile, HooksSpareTheRemoved, IInv, AimedInv, ScreenInv,
           LaidInv, TilesFit, NwmStep, ~Crash
    PROVE  LaidInv'
<1>. USE DEF IInv
<1>a. ~Misfit BY DEF Misfit, auto_tile, TilesFit
<1>1. /\ todo # <<>> /\ todo \in Seq(CallSet)
      /\ \E calls : Made(calls)
  BY <1>a, NwmStepMakes DEF TypeOK
<1>2. ASSUME NEW calls, Made(calls), \E e \in Elements(calls) : e.proc \in TileProcs
      PROVE  LaidInv'
  <2>1. Elements(calls) \subseteq Elements(todo') BY <1>1, <1>2, ThenElements DEF Made
  <2>. QED BY <1>2, <2>1 DEF LaidInv, Elements
<1>3. CASE map_client
  <2>. DEFINE hook == run_hook("map-client-hook", Arg)
  <2>1. Calls("map_client") /\ Then(hook) BY <1>3 DEF map_client
  <2>2. "map_client" \in AimProcs BY DEF AimProcs
  <2>3. "map-client-hook" \in HookNames BY DEF HookNames
  <2>4. hook \in Seq(CallSet) /\ Clean(hook) /\ AllAimed(hook)
    BY <2>1, <2>2, <2>3, HookMade DEF CoreProcs
  <2>5. \E e \in Elements(hook) : e.proc \in TileProcs BY HookTiles
  <2>. HIDE DEF hook
  <2>. QED BY <1>2, <2>1, <2>4, <2>5 DEF Made
<1>4. CASE unmap_client
  <2>. DEFINE hook == run_hook("unmap-client-hook", Arg)
  <2>1. Calls("unmap_client") /\ Then(hook) BY <1>4 DEF unmap_client
  <2>2. "unmap-client-hook" \in HookNames BY DEF HookNames
  <2>3. hook \in Seq(CallSet) /\ Clean(hook) /\ AllAimed(hook)
    BY <2>1, <2>2, HookMade DEF CoreProcs
  <2>4. \E e \in Elements(hook) : e.proc \in TileProcs BY HookTiles
  <2>. HIDE DEF hook
  <2>. QED BY <1>2, <2>1, <2>3, <2>4 DEF Made
<1>5. CASE destroy_client
  <2>. DEFINE hook == run_hook("destroy-client-hook", Arg)
  <2>1. PICK calls : Made(calls) /\ Elements(hook) \subseteq Elements(calls)
    BY <1>5, DestroyMade
  <2>2. \E e \in Elements(hook) : e.proc \in TileProcs BY HookTiles
  <2>. HIDE DEF hook
  <2>. QED BY <1>2, <2>1, <2>2
<1>6. CASE auto_tile
  <2>1. tiled' = {window[client_list[i]] : i \in VisibleAt}
    BY <1>6 DEF auto_tile, TilesFit
  <2>2. UNCHANGED <<Shown, ManagedWindows>>
    BY <1>6, SameListKept DEF auto_tile, xvars, Shown, Mapped
  <2>3. tiled' \subseteq ManagedWindows
    BY <2>1 DEF VisibleAt, Mapped, ManagedWindows, Managed
  <2>4. Shown \cap ManagedWindows \subseteq tiled'
    BY <2>1 DEF VisibleAt, Shown, Mapped, ManagedWindows, Managed
  <2>. QED BY <2>2, <2>3, <2>4 DEF LaidInv, Tiled
<1>7. CASE ~map_client /\ ~unmap_client /\ ~destroy_client /\ ~auto_tile
  <2>1. /\ UNCHANGED tiled /\ Head(todo).proc \notin TileProcs
    BY <1>7 DEF NwmStep, kill_client, free, set_focus_client, focus_client,
                focus_next_client, focus_next, focus_prev, FocusNeighbour,
                Calls, TileProcs
  <2>2. Tidy /\ UNCHANGED ManagedWindows BY <1>7, NwmStepTidy
  <2>3. CASE Tiled BY <2>1, <2>2, <2>3 DEF LaidInv, Tiled, Tidy
  <2>4. CASE \E e \in Elements(todo) : e.proc \in TileProcs
    <3>1. PICK calls : Made(calls) BY <1>1
    <3>2. /\ Elements(todo') = Elements(calls) \cup Elements(Tail(todo))
          /\ Elements(todo) = Elements(Tail(todo)) \cup {Head(todo)}
      BY <1>1, <3>1, ThenElements DEF Made
    <3>. QED BY <2>1, <2>4, <3>2 DEF LaidInv, Elements
  <2>. QED BY <2>3, <2>4 DEF LaidInv
<1>. QED BY <1>3, <1>4, <1>5, <1>6, <1>7

LEMMA StillLaid ==
    ASSUME LaidInv, Shown' \subseteq Shown, UNCHANGED <<ManagedWindows, todo, tiled>>
    PROVE  LaidInv'
BY DEF LaidInv, Tiled, Elements

LEMMA NextLaid ==
    ASSUME IdsUsedOnce, HooksSpareTheRemoved, HooksTile, TilesFit,
           IInv, AimedInv, ScreenInv, LaidInv, [Next]_vars
    PROVE  LaidInv'
<1>. USE XServerAssumption, ClientsAssumption
<1>1. CASE UNCHANGED <<xvars, client_list, window, todo, tiled>>
  BY <1>1, StillLaid, SameListKept, SameTidy DEF Tidy
<1>2. CASE NwmStep
  <2>1. CASE Crash BY <1>1, <2>1 DEF Crash
  <2>. QED BY <1>2, <2>1, NwmStepLaid
<1>3. CASE AppAction BY <1>3, AppActionScreen, StillLaid
<1>4. CASE HandleEvent BY <1>4, EventBegins, BeginsLaid
<1>5. CASE RunCommand \/ auto_focus_pointer BY <1>5, CommandBegins, BeginsLaid
<1>6. CASE Dead \/ UNCHANGED vars BY <1>1, <1>6 DEF Dead, vars, nvars
<1>. QED BY <1>2, <1>3, <1>4, <1>5, <1>6 DEF Next

\* Whenever nwm is done with an event or a command, the windows auto-tile has
\* placed are those that are managed and on the screen, or more of those that
\* are managed: none is visible without a place, and none has a place without
\* being managed.  A size that fits no uint16_t ends an auto-tile half way,
\* hence TilesFit.
THEOREM LayoutIsPresent ==
    ASSUME IdsUsedOnce, HooksSpareTheRemoved, HooksTile, TilesFit
    PROVE  Spec => []LayoutFollowsClients
<1>1. Init => LaidInv BY XServerAssumption, InitScreen
<1>2. IInv /\ AimedInv /\ ScreenInv /\ LaidInv /\ [Next]_vars => LaidInv' BY NextLaid
<1>3. ASSUME IInv, ScreenInv, LaidInv PROVE LayoutFollowsClients
  <2>. SUFFICES ASSUME Idle PROVE /\ {window[client_list[i]] : i \in VisibleAt} \subseteq tiled
                                  /\ \A w \in tiled : Managed(w)
    BY DEF LayoutFollowsClients
  <2>1. Tiled BY <1>3, NothingPending DEF LaidInv, Idle
  <2>2. \A i \in VisibleAt : window[client_list[i]] \in ManagedWindows \cap Shown
    BY <1>3 DEF VisibleAt, ManagedWindows, Managed, Mapped, Shown, ScreenInv, Ordinary
  <2>. QED BY <2>1, <2>2 DEF Tiled, ManagedWindows
<1>. QED BY <1>1, <1>2, <1>3, Invariant, CallsAreAimed, Screen, PTL DEF Spec
=============================================================================
