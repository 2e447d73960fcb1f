------------------------------ MODULE TagsProofs ------------------------------
(***************************************************************************)
(* Proofs about the window manager with the tags of scheme/tags.scm, for   *)
(* any windows, structures, tags, commands and bounds.                     *)
(***************************************************************************)
EXTENDS Tags, ClientsProofs, FiniteSetTheorems

----------------------------------------------------------------------------
(* Parts of lists.                                                         *)

\* Keep goes through the positions of S once each, and through no other.
LEMMA Positions ==
    ASSUME NEW n \in Nat, NEW S \in SUBSET (1..n)
    PROVE  /\ Cardinality(S) \in Nat
           /\ \A k \in 1..Cardinality(S) : Nth(S, k) \in S
           /\ \A k, l \in 1..Cardinality(S) : Nth(S, k) = Nth(S, l) => k = l
           /\ \A i \in S : \E k \in 1..Cardinality(S) : Nth(S, k) = i
<1>. DEFINE Upto(i) == {j \in S : j <= i}
            m == Cardinality(S)
            rank == [i \in S |-> Cardinality(Upto(i))]
<1>0. S \subseteq 1..n /\ 1..n \subseteq Int OBVIOUS
<1>1. IsFiniteSet(S)
  <2>1. IsFiniteSet(1..n) BY FS_Interval
  <2>. QED BY <2>1, FS_Subset
<1>2. m \in Nat BY <1>1, FS_CardinalityType
<1>3. \A i \in S : /\ IsFiniteSet(Upto(i)) /\ Cardinality(Upto(i)) \in 1..m
  <2>. TAKE i \in S
  <2>1. Upto(i) \in SUBSET S /\ i \in Upto(i) OBVIOUS
  <2>2. IsFiniteSet(Upto(i)) /\ Cardinality(Upto(i)) <= m BY <1>1, <2>1, FS_Subset
  <2>3. Cardinality(Upto(i)) \in Nat BY <2>2, FS_CardinalityType
  <2>4. Cardinality(Upto(i)) # 0 BY <2>1, <2>2, FS_EmptySet
  <2>5. Cardinality(Upto(i)) >= 1 BY <2>3, <2>4
  <2>. QED BY <1>2, <2>2, <2>3, <2>5
<1>4. ASSUME NEW i \in S, NEW j \in S, i < j
      PROVE  Cardinality(Upto(i)) # Cardinality(Upto(j))
  <2>0. S \subseteq Int BY <1>0
  <2>1. i \in Int /\ j \in Int /\ j <= j /\ ~(j <= i) BY <1>4, <2>0
  <2>2. \A l \in S : l <= i => l <= j BY <1>4, <2>0
  <2>3. Upto(i) \in SUBSET Upto(j) /\ j \notin Upto(i) /\ j \in Upto(j) BY <2>1, <2>2
  <2>. HIDE DEF Upto
  <2>. QED BY <1>3, <2>3, FS_Subset
<1>5. \A i, j \in S : i # j => Cardinality(Upto(i)) # Cardinality(Upto(j))
  <2>. HIDE DEF Upto
  <2>. QED BY <1>4
<1>. HIDE DEF Upto
<1>6. rank \in Injection(S, 1..m)
  <2>1. rank \in [S -> 1..m] BY <1>3
  <2>2. \A i, j \in S : rank[i] = rank[j] => i = j BY <1>5
  <2>. HIDE DEF rank, m
  <2>. QED BY <2>1, <2>2 DEF Injection, IsInjective
<1>7. IsFiniteSet(1..m) /\ Cardinality(1..m) = m BY <1>2, FS_Interval
<1>8. rank \in Surjection(S, 1..m)
  <2>. HIDE DEF rank
  <2>. QED BY <1>6, <1>7, FS_Injection DEF m
<1>9. \A k \in 1..m : \E i \in S : Cardinality(Upto(i)) = k BY <1>8 DEF Surjection
<1>10. \A k : Nth(S, k) = CHOOSE i \in S : Cardinality(Upto(i)) = k
  BY DEF Nth, Upto
<1>11. \A k \in 1..m : Nth(S, k) \in S /\ Cardinality(Upto(Nth(S, k))) = k
  BY <1>9, <1>10
<1>12. ASSUME NEW i \in S PROVE \E k \in 1..m : Nth(S, k) = i
  <2>1. PICK k \in 1..m : Cardinality(Upto(i)) = k BY <1>3
  <2>2. Nth(S, k) \in S /\ Cardinality(Upto(Nth(S, k))) = k BY <1>11
  <2>. QED BY <1>5, <2>1, <2>2
<1>. QED BY <1>2, <1>11, <1>12

LEMMA KeepProperties ==
    ASSUME NEW T, NEW s \in Seq(T), NEW S \in SUBSET (DOMAIN s)
    PROVE  /\ Keep(s, S) \in Seq(T)
           /\ Elements(Keep(s, S)) = {s[i] : i \in S}
           /\ IsInjective(s) => IsInjective(Keep(s, S))
<1>. DEFINE m == Cardinality(S)
<1>1. DOMAIN s = 1..Len(s) /\ Len(s) \in Nat /\ \A i \in DOMAIN s : s[i] \in T
  BY LenProperties, ElementOfSeq
<1>2. /\ m \in Nat /\ \A k \in 1..m : Nth(S, k) \in S
      /\ \A k, l \in 1..m : Nth(S, k) = Nth(S, l) => k = l
      /\ \A i \in S : \E k \in 1..m : Nth(S, k) = i
  <2>. DEFINE n == Len(s)
  <2>1. n \in Nat /\ S \in SUBSET (1..n) BY <1>1
  <2>. HIDE DEF n
  <2>. QED BY <2>1, Positions
<1>3. Keep(s, S) = [k \in 1..m |-> s[Nth(S, k)]] BY DEF Keep
<1>. HIDE DEF m
<1>4. Keep(s, S) \in Seq(T)
  <2>. DEFINE kept(k) == s[Nth(S, k)]
  <2>1. \A k \in 1..m : kept(k) \in T BY <1>1, <1>2
  <2>2. Keep(s, S) = [k \in 1..m |-> kept(k)] BY <1>3
  <2>. HIDE DEF kept
  <2>3. [k \in 1..m |-> kept(k)] \in Seq(T) BY <1>2, <2>1
  <2>. QED BY <2>2, <2>3
<1>5. Elements(Keep(s, S)) = {s[i] : i \in S}
  BY <1>2, <1>3 DEF Elements
<1>. QED BY <1>1, <1>2, <1>3, <1>4, <1>5 DEF IsInjective

----------------------------------------------------------------------------
(* The types, and what the tags leave of the window manager's invariant.   *)

TagsInv == IInv /\ TagsTypeOK

\* A call of tags.scm is for a client, and for a tag where it takes one.
LEMMA TagArgs ==
    ASSUME TagsAssumption, TypeOK
    PROVE  /\ \A p : Calls(p) => todo # <<>> /\ todo \in Seq(CallSet) /\ ~Idle
           /\ Calls("tag_new_client") \/ Calls("untag_client") => Arg \in Clients
           /\ Calls("tag_remove_client") =>
                 Arg \in Clients /\ Head(todo).tag \in Tags
           /\ Calls("change_visibility") \/ Calls("untag_client_hook") =>
                 Arg \in Clients \cup {Unspecified}
           /\ Calls("tag_switch") =>
                 Head(todo).tag \in Tags /\ Head(todo).target \in Tags
<1>1. todo \in Seq(CallSet) BY DEF TypeOK
<1>2. \A p : Calls(p) => todo # <<>> /\ ~Idle BY DEF Calls, Idle
<1>3. todo # <<>> => Head(todo) \in CallSet BY <1>1, HeadTailProperties
<1>4. ConfigCalls = TagCallSet \cup SwitchCallSet
      /\ ConfigProcs = {"tag_new_client", "untag_client", "untag_client_hook",
                        "change_visibility"}
  BY DEF TagsAssumption
<1>. QED BY <1>1, <1>2, <1>3, <1>4
         DEF Calls, Arg, CallSet, Procs, CoreProcs, TagCallSet, SwitchCallSet

\* The calls that tags.scm makes.
LEMMA TagCallsTyped ==
    ASSUME TagsAssumption
    PROVE  /\ \A c \in Clients :
                 /\ Call("unmap_client", c) \in CallSet
                 /\ Call("map_client", c) \in CallSet
                 /\ \A t \in Tags : TagCall("tag_remove_client", c, t) \in CallSet
           /\ \A c \in Clients \cup {Unspecified} :
                 /\ Call("change_visibility", c) \in CallSet
                 /\ Call("untag_client_hook", c) \in CallSet
           /\ \A t, u \in Tags : SwitchCall(t, u) \in CallSet
<1>4. ConfigCalls = TagCallSet \cup SwitchCallSet
      /\ ConfigProcs = {"tag_new_client", "untag_client", "untag_client_hook",
                        "change_visibility"}
  BY DEF TagsAssumption
<1>. QED BY <1>4 DEF CallSet, Procs, CoreProcs, TagCallSet, SwitchCallSet, Call,
                     TagCall, SwitchCall

LEMMA TagListTyped ==
    ASSUME TagsTypeOK, NEW c
    PROVE  /\ client_get_tag_list(c) \in Seq(Tags)
           /\ Elements(client_get_tag_list(c)) =
                 {t \in Elements(tags_assoc) : HasTag(c, t)}
<1>. DEFINE S == {i \in DOMAIN tags_assoc : HasTag(c, tags_assoc[i])}
<1>1. S \in SUBSET DOMAIN tags_assoc OBVIOUS
<1>2. tags_assoc \in Seq(Tags) BY DEF TagsTypeOK
<1>3. client_get_tag_list(c) = Keep(tags_assoc, S) BY DEF client_get_tag_list
<1>4. {tags_assoc[i] : i \in S} = {t \in Elements(tags_assoc) : HasTag(c, t)}
  BY DEF Elements
<1>. HIDE DEF S
<1>. QED BY <1>1, <1>2, <1>3, <1>4, KeepProperties

\* What a call of tags.scm, or one of its keys, may call.
TagProcs == {"unmap_client", "map_client", "tag_remove_client",
             "untag_client_hook", "change_visibility"}
TagCalls(calls) ==
    calls \in Seq(CallSet) /\ \A e \in Elements(calls) : e.proc \in TagProcs

LEMMA NoTagCalls == TagCalls(<<>>)
BY EmptySeq DEF TagCalls, Elements

LEMMA OneTagCall ==
    ASSUME NEW e \in CallSet, e.proc \in TagProcs
    PROVE  TagCalls(<<e>>)
BY Singleton, OneCall DEF TagCalls

LEMMA ReturnCalls ==
    ASSUME TypeOK, todo # <<>>, Return
    PROVE  Then(<<>>)
BY ReturnIsThen DEF TypeOK

LEMMA VisibilityCalls ==
    ASSUME TagsAssumption, TagsTypeOK, NEW t \in Tags
    PROVE  /\ TagCalls(ChangeVisibility(tagged[t]))
           /\ Elements(ChangeVisibility(tagged[t])) =
                 {Call("change_visibility", c) : c \in Elements(tagged[t])}
<1>. DEFINE s == tagged[t]
            calls == ChangeVisibility(s)
<1>1. s \in Seq(Clients \cup {Unspecified}) BY DEF TagsTypeOK
<1>2. /\ DOMAIN s = 1..Len(s) /\ Len(s) \in Nat
      /\ \A i \in 1..Len(s) : s[i] \in Clients \cup {Unspecified}
  BY <1>1, LenProperties, ElementOfSeq
<1>3. calls = [i \in 1..Len(s) |-> Call("change_visibility", s[i])]
  BY DEF ChangeVisibility
<1>. HIDE DEF s
<1>4. \A i \in 1..Len(s) : Call("change_visibility", s[i]) \in CallSet
  BY <1>2, TagCallsTyped
<1>5. calls \in Seq(CallSet) BY <1>2, <1>3, <1>4
<1>6. Elements(calls) = {Call("change_visibility", c) : c \in Elements(s)}
  BY <1>2, <1>3 DEF Elements
<1>7. \A e \in Elements(calls) : e.proc \in TagProcs BY <1>6 DEF Call, TagProcs
<1>. HIDE DEF calls
<1>8. TagCalls(calls) BY <1>5, <1>7 DEF TagCalls
<1>. QED BY <1>6, <1>8 DEF s, calls

LEMMA UntagCalls ==
    ASSUME TagsAssumption, TagsTypeOK, NEW c \in Clients
    PROVE  LET of == client_get_tag_list(c)
               calls == [i \in 1..Len(of) |-> TagCall("tag_remove_client", c, of[i])]
           IN  /\ TagCalls(calls)
               /\ Elements(calls) =
                     {TagCall("tag_remove_client", c, t) :
                        t \in {t \in Elements(tags_assoc) : HasTag(c, t)}}
<1>. DEFINE of == client_get_tag_list(c)
            calls == [i \in 1..Len(of) |-> TagCall("tag_remove_client", c, of[i])]
<1>1. /\ of \in Seq(Tags)
      /\ Elements(of) = {t \in Elements(tags_assoc) : HasTag(c, t)}
  BY TagListTyped
<1>. HIDE DEF of
<1>2. /\ DOMAIN of = 1..Len(of) /\ Len(of) \in Nat
      /\ \A i \in 1..Len(of) : of[i] \in Tags
  BY <1>1, LenProperties, ElementOfSeq
<1>4. \A i \in 1..Len(of) : TagCall("tag_remove_client", c, of[i]) \in CallSet
  BY <1>2, TagCallsTyped
<1>5. calls \in Seq(CallSet) BY <1>2, <1>4
<1>6. Elements(calls) = {TagCall("tag_remove_client", c, t) : t \in Elements(of)}
  BY <1>2 DEF Elements
<1>7. \A e \in Elements(calls) : e.proc \in TagProcs BY <1>6 DEF TagCall, TagProcs
<1>. HIDE DEF calls
<1>8. TagCalls(calls) BY <1>5, <1>7 DEF TagCalls
<1>. QED BY <1>1, <1>6, <1>8 DEF of, calls

\* A call of tags.scm makes other calls, or dies of the unspecified value.
\* The window manager's own state stays as it is.
LEMMA TagStepMakes ==
    ASSUME TagsAssumption, TagsTypeOK, TagStep
    PROVE  /\ UNCHANGED <<xvars, client_list, window, next, tiled, pointer_window>>
           /\ \/ status' = "dead" /\ UNCHANGED <<todo, caught, tvars>>
              \/ status' = status /\ \E calls : TagCalls(calls) /\ Then(calls)
<1>. USE DEF Unchanged
<1>0. TypeOK BY DEF TagsTypeOK
<1>1. CASE tag_new_client
  <2>1. Arg \in Clients /\ todo # <<>> BY <1>0, <1>1, TagArgs DEF tag_new_client
  <2>2. TagCalls(<<Call("unmap_client", Arg)>>)
    BY <2>1, TagCallsTyped, OneTagCall DEF Call, TagProcs
  <2>3. Return => Then(<<>>) BY <1>0, <2>1, ReturnCalls
  <2>. QED BY <1>1, <2>2, <2>3, NoTagCalls DEF tag_new_client
<1>2. CASE untag_client
  <2>1. Arg \in Clients BY <1>0, <1>2, TagArgs DEF untag_client
  <2>. QED BY <1>2, <2>1, UntagCalls DEF untag_client
<1>3. CASE tag_remove_client
  <2>1. Arg \in Clients /\ ~Idle BY <1>0, <1>3, TagArgs DEF tag_remove_client
  <2>2. TagCalls(<<Call("untag_client_hook", Arg)>>)
    BY <2>1, TagCallsTyped, OneTagCall DEF Call, TagProcs
  <2>. QED BY <1>3, <2>1, <2>2, NoTagCalls DEF tag_remove_client, TagRemove, Begin
<1>4. CASE untag_client_hook
  <2>1. Arg \in Clients \cup {Unspecified} /\ todo # <<>>
    BY <1>0, <1>4, TagArgs DEF untag_client_hook
  <2>2. Arg \in Clients => TagCalls(<<Call("unmap_client", Arg)>>)
    BY TagCallsTyped, OneTagCall DEF Call, TagProcs
  <2>3. Return => Then(<<>>) BY <1>0, <2>1, ReturnCalls
  <2>. QED BY <1>4, <2>1, <2>2, <2>3, NoTagCalls DEF untag_client_hook, MappedOr
<1>5. CASE change_visibility
  <2>1. Arg \in Clients \cup {Unspecified}
    BY <1>0, <1>5, TagArgs DEF change_visibility
  <2>2. Arg \in Clients => /\ TagCalls(<<Call("unmap_client", Arg)>>)
                           /\ TagCalls(<<Call("map_client", Arg)>>)
    BY TagCallsTyped, OneTagCall DEF Call, TagProcs
  <2>. QED BY <1>5, <2>1, <2>2, NoTagCalls DEF change_visibility, MappedOr
<1>6. CASE tag_switch
  <2>1. Head(todo).tag \in Tags /\ ~Idle /\ todo # <<>>
    BY <1>0, <1>6, TagArgs DEF tag_switch
  <2>2. TagCalls(ChangeVisibility(tagged[Head(todo).tag])) BY <2>1, VisibilityCalls
  <2>3. Return => Then(<<>>) BY <1>0, <2>1, ReturnCalls
  <2>. QED BY <1>6, <2>1, <2>2, <2>3, NoTagCalls
           DEF tag_switch, ToggleVisibility, Begin
<1>. QED BY <1>1, <1>2, <1>3, <1>4, <1>5, <1>6 DEF TagStep

\* The calls of tag-switch.
Switches(t) == [i \in 1..Len(tags_assoc) |-> SwitchCall(tags_assoc[i], t)]

LEMMA SwitchesTyped ==
    ASSUME TagsAssumption, TagsTypeOK, NEW t \in Tags
    PROVE  /\ Switches(t) \in Seq(CallSet)
           /\ \A e \in Elements(Switches(t)) : e.proc = "tag_switch"
<1>1. /\ DOMAIN tags_assoc = 1..Len(tags_assoc) /\ Len(tags_assoc) \in Nat
      /\ \A i \in 1..Len(tags_assoc) : tags_assoc[i] \in Tags
  BY LenProperties, ElementOfSeq DEF TagsTypeOK
<1>2. \A i \in 1..Len(tags_assoc) : SwitchCall(tags_assoc[i], t) \in CallSet
  BY <1>1, TagCallsTyped
<1>3. Switches(t) \in Seq(CallSet) BY <1>1, <1>2 DEF Switches
<1>. QED BY <1>1, <1>3 DEF Switches, Elements, SwitchCall

LEMMA TagCommandMakes ==
    ASSUME TagsAssumption, TagsTypeOK, NoDuplicateWindow, TagCommand
    PROVE  /\ UNCHANGED <<xvars, client_list, window, next, tiled, pointer_window>>
           /\ Idle /\ caught' \in BOOLEAN
           /\ \/ status' = "dead" /\ UNCHANGED <<todo, tvars>>
              \/ /\ status' = status
                 /\ TagCalls(todo') \/ \E t \in Tags : todo' = Switches(t)
<1>. USE DEF Unchanged, Command
<1>0. TypeOK /\ caught \in BOOLEAN /\ (Idle => todo = <<>>) BY DEF TagsTypeOK, TypeOK, Idle
<1>s. \A calls : Start(calls) => todo' = calls /\ caught' \in BOOLEAN BY DEF Start
<1>. PICK t \in Tags :
        \/ toggle_visibility_key(t) \/ toggle_client_key(t) \/ switch_key(t)
        \/ create_tag(t) \/ destroy_tag(t)
  BY DEF TagCommand
<1>1. CASE toggle_visibility_key(t)
  <2>1. TagCalls(ChangeVisibility(tagged[t])) BY VisibilityCalls
  <2>. QED BY <1>s, <1>1, <2>1 DEF toggle_visibility_key, ToggleVisibility, Begin
<1>2. CASE toggle_client_key(t)
  <2>. DEFINE f == get_focus_client
              hook == <<Call("untag_client_hook", f)>>
  <2>1. f \in Clients \cup {Unspecified} BY <1>0, FocusClientTyped, ListedTyped
  <2>. HIDE DEF f
  <2>2. TagCalls(hook) BY <2>1, TagCallsTyped, OneTagCall DEF Call, TagProcs
  <2>. HIDE DEF hook
  <2>4. CASE TagRemove(f, t) /\ Idle
    <3>1. Start(IF HasTag(f, t) THEN hook ELSE <<>>) BY <2>4 DEF TagRemove, Begin, hook
    <3>2. (todo' = hook \/ todo' = <<>>) /\ caught' \in BOOLEAN BY <1>s, <3>1
    <3>. QED BY <1>2, <2>2, <2>4, <3>2, NoTagCalls DEF toggle_client_key
  <2>5. CASE UNCHANGED <<todo, caught>>
    BY <1>0, <1>2, <2>5, NoTagCalls DEF toggle_client_key
  <2>. QED BY <1>2, <2>4, <2>5 DEF toggle_client_key, f
<1>3. CASE switch_key(t) BY <1>s, <1>3 DEF switch_key, Switches
<1>4. CASE create_tag(t) BY <1>0, <1>4, NoTagCalls DEF create_tag
<1>5. CASE destroy_tag(t) BY <1>0, <1>5, NoTagCalls DEF destroy_tag
<1>. QED BY <1>1, <1>2, <1>3, <1>4, <1>5

\* delete keeps, of a tag's list, the entries that are not that client.
LEMMA Deleted ==
    ASSUME TagsTypeOK, NEW c, NEW t \in Tags
    PROVE  /\ Delete(c, tagged[t]) \in Seq(Clients \cup {Unspecified})
           /\ Elements(Delete(c, tagged[t])) =
                 {d \in Elements(tagged[t]) : ~Equal(d, c)}
<1>. DEFINE s == tagged[t]
            S == {i \in DOMAIN s : ~Equal(s[i], c)}
<1>1. S \in SUBSET DOMAIN s /\ Delete(c, s) = Keep(s, S) BY DEF Delete
<1>2. s \in Seq(Clients \cup {Unspecified}) BY DEF TagsTypeOK
<1>3. {s[i] : i \in S} = {d \in Elements(s) : ~Equal(d, c)} BY DEF Elements
<1>. HIDE DEF s, S
<1>4. /\ Keep(s, S) \in Seq(Clients \cup {Unspecified})
      /\ Elements(Keep(s, S)) = {s[i] : i \in S}
  BY <1>1, <1>2, KeepProperties
<1>. QED BY <1>1, <1>3, <1>4 DEF s

\* The association list without the entry of t.
LEMMA AllButOne ==
    ASSUME TagsTypeOK, NEW t
    PROVE  /\ AllBut(t) \in Seq(Tags)
           /\ Elements(AllBut(t)) = Elements(tags_assoc) \ {t}
           /\ IsInjective(tags_assoc) => IsInjective(AllBut(t))
<1>. DEFINE S == {i \in DOMAIN tags_assoc : tags_assoc[i] # t}
<1>1. S \in SUBSET DOMAIN tags_assoc /\ AllBut(t) = Keep(tags_assoc, S) BY DEF AllBut
<1>2. tags_assoc \in Seq(Tags) BY DEF TagsTypeOK
<1>3. {tags_assoc[i] : i \in S} = Elements(tags_assoc) \ {t} BY DEF Elements
<1>. HIDE DEF S
<1>. QED BY <1>1, <1>2, <1>3, KeepProperties

LEMMA FirstTag ==
    ASSUME NEW s \in Seq(Tags), s # <<>>
    PROVE  1 \in DOMAIN s /\ s[1] \in Tags /\ s[1] \in Elements(s)
BY EmptySeq, LenProperties, ElementOfSeq DEF Elements

\* What each call and each key leaves in tags-assoc.
LEMMA TagsKeepTypes ==
    ASSUME TagsAssumption, TagsTypeOK, NoDuplicateWindow, TagStep \/ TagCommand
    PROVE  /\ tags_assoc' \in Seq(Tags)
           /\ visible' \in [Tags -> BOOLEAN]
           /\ tagged' \in [Tags -> Seq(Clients \cup {Unspecified})]
<1>. USE DEF Unchanged
<1>. DEFINE Lists == Seq(Clients \cup {Unspecified})
<1>0. /\ TypeOK /\ tags_assoc \in Seq(Tags) /\ visible \in [Tags -> BOOLEAN]
      /\ tagged \in [Tags -> Lists]
  BY DEF TagsTypeOK
<1>1. \A s \in Lists, c \in Clients \cup {Unspecified} : Append(s, c) \in Lists
  BY AppendProperties
<1>2. \A t \in Tags : \A c : Delete(c, tagged[t]) \in Lists BY Deleted
<1>3. get_focus_client \in Clients \cup {Unspecified}
  BY <1>0, FocusClientTyped, ListedTyped
<1>. HIDE DEF Lists
<1>4. CASE tag_new_client
  <2>1. Arg \in Clients BY <1>0, <1>4, TagArgs DEF tag_new_client
  <2>2. tags_assoc # <<>> => tags_assoc[1] \in Tags BY <1>0, FirstTag
  <2>3. \A t \in Tags : Append(tagged[t], Arg) \in Lists BY <1>0, <1>1, <2>1
  <2>4. /\ UNCHANGED <<tags_assoc, visible>>
        /\ \/ tagged' = [t \in Tags |-> IF IsTag(t) /\ visible[t]
                                         THEN Append(tagged[t], Arg) ELSE tagged[t]]
           \/ /\ tags_assoc # <<>>
              /\ tagged' = [tagged EXCEPT ![tags_assoc[1]] = Append(@, Arg)]
    BY <1>4 DEF tag_new_client
  <2>5. tagged' \in [Tags -> Lists] BY <1>0, <2>2, <2>3, <2>4
  <2>. QED BY <1>0, <2>4, <2>5 DEF Lists
<1>5. CASE untag_client \/ untag_client_hook \/ change_visibility
  BY <1>0, <1>5 DEF untag_client, untag_client_hook, change_visibility, tvars, Lists
<1>6. CASE tag_remove_client
  <2>1. Head(todo).tag \in Tags BY <1>0, <1>6, TagArgs DEF tag_remove_client
  <2>. QED BY <1>0, <1>2, <1>6, <2>1 DEF tag_remove_client, TagRemove, Lists
<1>7. CASE tag_switch
  <2>1. Head(todo).tag \in Tags BY <1>0, <1>7, TagArgs DEF tag_switch
  <2>2. visible' \in [Tags -> BOOLEAN]
    BY <1>0, <1>7, <2>1 DEF tag_switch, ToggleVisibility
  <2>. QED BY <1>0, <1>7, <2>2 DEF tag_switch, Lists
<1>8. CASE TagCommand
  <2>. PICK t \in Tags :
          \/ toggle_visibility_key(t) \/ toggle_client_key(t) \/ switch_key(t)
          \/ create_tag(t) \/ destroy_tag(t)
    BY <1>8 DEF TagCommand
  <2>1. CASE toggle_visibility_key(t)
    <3>1. visible' \in [Tags -> BOOLEAN]
      BY <1>0, <2>1 DEF toggle_visibility_key, ToggleVisibility
    <3>. QED BY <1>0, <2>1, <3>1 DEF toggle_visibility_key, Lists
  <2>2. CASE toggle_client_key(t)
    <3>. DEFINE f == get_focus_client
    <3>1. Append(tagged[t], f) \in Lists /\ Delete(f, tagged[t]) \in Lists
      BY <1>0, <1>1, <1>2, <1>3
    <3>2. \/ tagged' = [tagged EXCEPT ![t] = Append(@, f)]
          \/ tagged' = [tagged EXCEPT ![t] = Delete(f, @)]
      BY <2>2 DEF toggle_client_key, TagRemove
    <3>. HIDE DEF f
    <3>3. tagged' \in [Tags -> Lists] BY <1>0, <3>1, <3>2
    <3>. QED BY <1>0, <2>2, <3>3 DEF toggle_client_key, Lists
  <2>3. CASE switch_key(t) BY <1>0, <2>3 DEF switch_key, tvars, Lists
  <2>4. CASE create_tag(t)
    <3>1. <<t>> \o tags_assoc \in Seq(Tags) BY <1>0, Singleton, ConcatProperties
    <3>2. <<>> \in Lists BY EmptySeq DEF Lists
    <3>. QED BY <1>0, <2>4, <3>1, <3>2 DEF create_tag, Lists
  <2>5. CASE destroy_tag(t)
    <3>1. tags_assoc' \in Seq(Tags) BY <2>5, AllButOne DEF destroy_tag
    <3>2. tags_assoc' # <<>> => tags_assoc'[1] \in Tags BY <3>1, FirstTag
    <3>3. <<>> \in Lists BY EmptySeq DEF Lists
    <3>4. \A a, b \in Lists : a \o b \in Lists BY ConcatProperties DEF Lists
    <3>5. visible' \in [Tags -> BOOLEAN] BY <1>0, <2>5 DEF destroy_tag
    <3>6. tagged' \in [Tags -> Lists]
      <4>. DEFINE moved == IF tags_assoc' = <<>> THEN tagged
                    ELSE [tagged EXCEPT ![tags_assoc'[1]] = @ \o tagged[t]]
      <4>1. moved \in [Tags -> Lists] BY <1>0, <3>2, <3>4
      <4>2. tagged' = [moved EXCEPT ![t] = <<>>] BY <2>5 DEF destroy_tag
      <4>. HIDE DEF moved
      <4>. QED BY <3>3, <4>1, <4>2
    <3>. QED BY <3>1, <3>5, <3>6 DEF Lists
  <2>. QED BY <2>1, <2>2, <2>3, <2>4, <2>5
<1>. QED BY <1>4, <1>5, <1>6, <1>7, <1>8 DEF TagStep

LEMMA TagMoveTodo ==
    ASSUME TagsAssumption, TagsInv, TagStep \/ TagCommand
    PROVE  TodoOK
<1>1. TypeOK /\ TagsTypeOK /\ NoDuplicateWindow BY DEF TagsInv, IInv
<1>2. \A calls : TagCalls(calls) => calls \in Seq(CallSet) /\ Clean(calls)
  BY DEF TagCalls, TagProcs, Clean, Elements
<1>3. UNCHANGED todo /\ caught' \in BOOLEAN => TodoOK BY <1>1 DEF TodoOK, TypeOK
<1>4. CASE TagStep
  <2>1. todo # <<>>
    BY <1>4 DEF TagStep, tag_new_client, untag_client, tag_remove_client,
                untag_client_hook, change_visibility, tag_switch, Calls
  <2>2. caught \in BOOLEAN BY <1>1 DEF TypeOK
  <2>. QED BY <1>1, <1>2, <1>3, <1>4, <2>1, <2>2, TagStepMakes, ThenOK DEF TypeOK
<1>5. CASE TagCommand
  <2>1. \A t \in Tags : Switches(t) \in Seq(CallSet) /\ Clean(Switches(t))
    BY <1>1, SwitchesTyped DEF Clean, Elements
  <2>. QED BY <1>1, <1>2, <1>3, <1>5, <2>1, TagCommandMakes, StartOK
<1>. QED BY <1>4, <1>5

LEMMA TagMovePreserves ==
    ASSUME TagsAssumption, TagsInv, TagStep \/ TagCommand
    PROVE  TagsInv'
<1>1. TypeOK /\ TagsTypeOK /\ NoDuplicateWindow /\ IInv BY DEF TagsInv, IInv
<1>2. /\ UNCHANGED <<xvars, client_list, window, next, tiled, pointer_window>>
      /\ status' = status \/ status' = "dead"
  BY <1>1, TagStepMakes, TagCommandMakes
<1>3. XPreserved BY <1>1, <1>2, XUnchanged DEF TypeOK
<1>4. IInv' BY <1>1, <1>2, <1>3, TagMoveTodo, QuietStep DEF TypeOK
<1>. QED BY <1>1, <1>4, TagsKeepTypes DEF TagsInv, TagsTypeOK, IInv

LEMMA TagsNextPreserves == TagsInv /\ [TagsNext]_tagsVars => TagsInv'
<1>. SUFFICES ASSUME TagsInv, [TagsNext]_tagsVars PROVE TagsInv' OBVIOUS
<1>1. CASE TagStep \/ TagCommand BY <1>1, TagMovePreserves, TagsAssumption
<1>2. CASE [Next]_vars /\ UNCHANGED tvars
  <2>1. IInv' BY <1>2, NextPreserves DEF TagsInv
  <2>. QED BY <1>2, <2>1 DEF TagsInv, TagsTypeOK, IInv, tvars
<1>. QED BY <1>1, <1>2 DEF TagsNext, ClientsAction, tagsVars

LEMMA TagsInitInv == TagsInit => TagsInv
<1>. SUFFICES ASSUME TagsInit PROVE TagsInv OBVIOUS
<1>1. IInv BY InitInv, XServerAssumption DEF TagsInit
<1>2. InitTags \in Seq(Tags) BY TagsAssumption DEF TagsAssumption
<1>3. <<>> \in Seq(Clients \cup {Unspecified}) BY EmptySeq
<1>. QED BY <1>1, <1>2, <1>3 DEF TagsInit, TagsInv, TagsTypeOK, IInv

\* The invariant of nwm.c survives everything tags.scm does to it through its
\* calls and hooks, and the tags keep their types.
THEOREM TagsInvariant == TagsSpec => []TagsInv
BY TagsInitInv, TagsNextPreserves, PTL DEF TagsSpec

\* With tags.scm, the state keeps its types: a hook or a key calls on a
\* client what needs a client, and tags-assoc keeps lists of clients (or the
\* unspecified value that tag-toggle-client puts there).
THEOREM TagsTypeCorrect == TagsSpec => []TagsTypeOK
<1>1. TagsInv => TagsTypeOK BY DEF TagsInv
<1>. QED BY <1>1, TagsInvariant, PTL

\* The hooks and keys of tags.scm do not make nwm manage a window twice or
\* keep a client of a destroyed window.
THEOREM TagsKeepTheList == TagsSpec => [](NoDuplicateWindow /\ NoZombieClient)
<1>1. TagsInv => NoDuplicateWindow /\ NoZombieClient BY DEF TagsInv, IInv
<1>. QED BY <1>1, TagsInvariant, PTL

\* With tags.scm nwm is still a window manager (Implements): the tags map and
\* unmap windows but have no part in which ones are managed.
THEOREM TagsRefinement == TagsSpec => Implements
<1>1. ASSUME TagsInv, [TagsNext]_tagsVars
      PROVE  AbstractStep
  <2>1. CASE [Next]_vars BY <1>1, <2>1, NextImplements DEF TagsInv
  <2>2. CASE TagStep \/ TagCommand
    <3>1. /\ UNCHANGED <<xvars, client_list, window>>
          /\ status = "running"
          /\ status' = status \/ status' = "dead"
      BY <1>1, <2>2, TagsAssumption, TagStepMakes, TagCommandMakes
         DEF TagsInv, IInv, TagStep, tag_new_client, untag_client,
             tag_remove_client, untag_client_hook, change_visibility, tag_switch,
             Calls, Idle
    <3>2. SilentServer /\ UNCHANGED ManagedWindows
      BY <3>1, SameServer, SameListKept
    <3>. QED BY <3>1, <3>2, SilentStep, DieStep DEF SilentServer, Live
  <2>. QED BY <1>1, <2>1, <2>2 DEF TagsNext, ClientsAction, tagsVars
<1>2. TagsInv /\ [TagsNext]_tagsVars => [WM!WMNext]_(WM!wmvars)
  BY <1>1 DEF AbstractStep
<1>3. TagsInit => WM!WMInit BY InitImplements DEF TagsInit
<1>4. TagsSpec => WM!WMInit /\ [][WM!WMNext]_(WM!wmvars)
  BY <1>2, <1>3, TagsInvariant, PTL DEF TagsSpec
<1>. QED BY <1>4 DEF Implements, WM!WMSpec

----------------------------------------------------------------------------
(* Destroying a tag.                                                       *)

LEMMA IsTagElement == \A t : IsTag(t) <=> t \in Elements(tags_assoc)
BY DEF IsTag, Elements

LEMMA TaglessElement ==
    ASSUME TagsTypeOK, NEW c
    PROVE  client_get_tag_list(c) # <<>> <=>
              \E t \in Elements(tags_assoc) : HasTag(c, t)
<1>. DEFINE of == client_get_tag_list(c)
<1>1. of \in Seq(Tags) /\ Elements(of) = {t \in Elements(tags_assoc) : HasTag(c, t)}
  BY TagListTyped
<1>2. of # <<>> <=> Elements(of) # {}
  <2>. HIDE DEF of
  <2>1. of # <<>> => 1 \in DOMAIN of BY <1>1, EmptySeq, LenProperties
  <2>. QED BY <2>1, EmptySeq DEF Elements
<1>. HIDE DEF of
<1>3. of # <<>> <=> \E t \in Elements(tags_assoc) : HasTag(c, t) BY <1>1, <1>2
<1>. QED BY <1>3 DEF of

\* The clients of the tag that goes are carried by the tag that is first then.
LEMMA DestroyedTagKeeps ==
    ASSUME TagsTypeOK, NEW t \in Tags, destroy_tag(t), tags_assoc' # <<>>,
           NEW x \in Elements(tags_assoc), NEW i \in DOMAIN tagged[x]
    PROVE  \E y \in Elements(tags_assoc)' : \E j \in DOMAIN tagged'[y] :
              tagged'[y][j] = tagged[x][i]
<1>. DEFINE first == tags_assoc'[1]
            Lists == Seq(Clients \cup {Unspecified})
<1>1. /\ tags_assoc' \in Seq(Tags)
      /\ Elements(tags_assoc)' = Elements(tags_assoc) \ {t}
  BY AllButOne DEF destroy_tag, Elements
<1>2. first \in Tags /\ first \in Elements(tags_assoc)' BY <1>1, FirstTag DEF Elements
<1>3. tagged \in [Tags -> Lists] BY DEF TagsTypeOK
<1>4. tagged' = [[tagged EXCEPT ![first] = @ \o tagged[t]] EXCEPT ![t] = <<>>]
  BY DEF destroy_tag
<1>. HIDE DEF first, Lists
<1>5. first # t BY <1>1, <1>2
<1>6. /\ tagged'[first] = tagged[first] \o tagged[t]
      /\ \A y \in Tags \ {t, first} : tagged'[y] = tagged[y]
  BY <1>2, <1>3, <1>4, <1>5
<1>7. \A a, b \in Lists :
         /\ Len(a) \in Nat /\ Len(b) \in Nat
         /\ DOMAIN a = 1..Len(a) /\ DOMAIN b = 1..Len(b)
         /\ DOMAIN (a \o b) = 1..(Len(a) + Len(b))
         /\ \A k \in DOMAIN a : (a \o b)[k] = a[k]
         /\ \A k \in DOMAIN b : (a \o b)[Len(a) + k] = b[k]
  <2>. TAKE a \in Lists, b \in Lists
  <2>1. /\ Len(a) \in Nat /\ Len(b) \in Nat
        /\ DOMAIN a = 1..Len(a) /\ DOMAIN b = 1..Len(b)
    BY LenProperties DEF Lists
  <2>2. /\ a \o b \in Lists /\ Len(a \o b) = Len(a) + Len(b)
        /\ \A k \in 1..(Len(a) + Len(b)) :
              (a \o b)[k] = IF k <= Len(a) THEN a[k] ELSE b[k - Len(a)]
    BY ConcatProperties DEF Lists
  <2>3. DOMAIN (a \o b) = 1..(Len(a) + Len(b)) BY <2>2, LenProperties DEF Lists
  <2>. QED BY <2>1, <2>2, <2>3
<1>8. x \in Tags BY LenProperties, ElementOfSeq DEF Elements, TagsTypeOK
<1>9. CASE x = t
  <2>1. tagged[first] \in Lists /\ tagged[t] \in Lists BY <1>2, <1>3
  <2>2. i \in 1..Len(tagged[t]) /\ Len(tagged[first]) \in Nat /\ Len(tagged[t]) \in Nat
        /\ DOMAIN tagged'[first] = 1..(Len(tagged[first]) + Len(tagged[t]))
    BY <1>6, <1>7, <1>9, <2>1
  <2>4. Len(tagged[first]) + i \in 1..(Len(tagged[first]) + Len(tagged[t]))
    <3>1. \A p, q \in Nat : \A k \in 1..q : p + k \in 1..(p + q) OBVIOUS
    <3>. QED BY <2>2, <3>1
  <2>5. (tagged[first] \o tagged[t])[Len(tagged[first]) + i] = tagged[t][i]
    BY <1>7, <1>9, <2>1
  <2>3. /\ Len(tagged[first]) + i \in DOMAIN tagged'[first]
        /\ tagged'[first][Len(tagged[first]) + i] = tagged[x][i]
    BY <1>6, <1>9, <2>2, <2>4, <2>5
  <2>. QED BY <1>2, <2>3
<1>10. CASE x = first
  <2>1. tagged[first] \in Lists /\ tagged[t] \in Lists BY <1>2, <1>3
  <2>2. i \in 1..Len(tagged[first]) /\ Len(tagged[first]) \in Nat /\ Len(tagged[t]) \in Nat
        /\ DOMAIN tagged'[first] = 1..(Len(tagged[first]) + Len(tagged[t]))
    BY <1>6, <1>7, <1>10, <2>1
  <2>4. i \in 1..(Len(tagged[first]) + Len(tagged[t]))
    <3>1. \A p, q \in Nat : 1..p \subseteq 1..(p + q) OBVIOUS
    <3>. QED BY <2>2, <3>1
  <2>5. (tagged[first] \o tagged[t])[i] = tagged[first][i] BY <1>7, <1>10, <2>1
  <2>3. i \in DOMAIN tagged'[first] /\ tagged'[first][i] = tagged[x][i]
    BY <1>6, <1>10, <2>2, <2>4, <2>5
  <2>. QED BY <1>2, <2>3
<1>11. CASE x \notin {t, first}
  BY <1>1, <1>6, <1>8, <1>11
<1>. QED BY <1>9, <1>10, <1>11

\* What carries a tag, in the terms of the lists of the tags.
Carriers ==
    \A c : client_get_tag_list(c) # <<>> <=>
             \E t \in Elements(tags_assoc) : \E i \in DOMAIN tagged[t] :
                Equal(tagged[t][i], c)

LEMMA CarriersKnown == TagsInv => Carriers
BY TaglessElement DEF TagsInv, Carriers, HasTag

\* Only destroy-tag takes a tag off the list.
LEMMA TagsStay ==
    ASSUME TagsInv, TagStep \/ TagCommand,
           NEW t \in Elements(tags_assoc), t \notin Elements(tags_assoc)'
    PROVE  t \in Tags /\ destroy_tag(t) /\ UNCHANGED window
<1>1. /\ TagsTypeOK /\ tags_assoc \in Seq(Tags) /\ t \in Tags
  BY LenProperties, ElementOfSeq DEF TagsInv, TagsTypeOK, Elements
<1>2. ~UNCHANGED tags_assoc BY DEF Elements
<1>3. TagCommand
  BY <1>2 DEF TagStep, tag_new_client, untag_client, tag_remove_client,
              untag_client_hook, change_visibility, tag_switch, Unchanged, tvars
<1>4. PICK u \in Tags : create_tag(u) \/ destroy_tag(u)
  BY <1>2, <1>3 DEF TagCommand, toggle_visibility_key, toggle_client_key, switch_key,
                    Unchanged, tvars
<1>5. ~create_tag(u)
  <2>. SUFFICES ASSUME create_tag(u) PROVE FALSE OBVIOUS
  <2>1. /\ Len(tags_assoc) \in Nat /\ DOMAIN tags_assoc = 1..Len(tags_assoc)
        /\ <<u>> \in Seq(Tags) /\ Len(<<u>>) = 1
    BY <1>1, Singleton, LenProperties
  <2>2. /\ tags_assoc' \in Seq(Tags) /\ Len(tags_assoc') = 1 + Len(tags_assoc)
        /\ \A k \in 1..(1 + Len(tags_assoc)) :
              tags_assoc'[k] = IF k <= 1 THEN <<u>>[k] ELSE tags_assoc[k - 1]
    BY <1>1, <2>1, ConcatProperties DEF create_tag
  <2>3. DOMAIN tags_assoc' = 1..(1 + Len(tags_assoc)) BY <2>2, LenProperties
  <2>4. \A k \in DOMAIN tags_assoc : k + 1 \in DOMAIN tags_assoc'
                                    /\ tags_assoc'[k + 1] = tags_assoc[k]
    BY <2>1, <2>2, <2>3
  <2>. QED BY <2>4 DEF Elements
<1>7. destroy_tag(u) BY <1>4, <1>5
<1>8. tags_assoc' = AllBut(u) BY <1>7 DEF destroy_tag
<1>9. Elements(AllBut(u)) = Elements(tags_assoc) \ {u} BY <1>1, AllButOne
<1>6. Elements(tags_assoc)' = Elements(tags_assoc) \ {u}
  BY <1>8, <1>9 DEF Elements
<1>. QED BY <1>1, <1>4, <1>5, <1>6 DEF destroy_tag, Unchanged

\* destroy-tag leaves no client tagless while another tag is left.
THEOREM DestroyedTagsClients == TagsSpec => DestroyTagKeepsTagged
<1>. DEFINE A == \A t \in Tags : IsTag(t) /\ ~IsTag(t)' /\ tags_assoc' # <<>> =>
                    \A c \in Listed : client_get_tag_list(c) # <<>> =>
                                      (client_get_tag_list(c) # <<>>)'
<1>1. ASSUME TagsInv, [TagsNext]_tagsVars, Carriers, Carriers'
      PROVE  A
  <2>. SUFFICES ASSUME NEW t \in Tags, IsTag(t), ~IsTag(t)', tags_assoc' # <<>>,
                        NEW c \in Listed, client_get_tag_list(c) # <<>>
                PROVE  (client_get_tag_list(c) # <<>>)'
    OBVIOUS
  <2>1. t \in Elements(tags_assoc) /\ t \notin Elements(tags_assoc)'
    BY DEF IsTag, Elements
  <2>2. destroy_tag(t) /\ UNCHANGED window
    <3>1. ~UNCHANGED tags_assoc BY <2>1 DEF Elements
    <3>2. TagStep \/ TagCommand BY <1>1, <3>1 DEF TagsNext, ClientsAction, tagsVars, tvars
    <3>. QED BY <1>1, <2>1, <3>2, TagsStay
  <2>3. PICK x \in Elements(tags_assoc) :
           \E i \in DOMAIN tagged[x] : Equal(tagged[x][i], c)
    BY <1>1 DEF Carriers
  <2>4. PICK i \in DOMAIN tagged[x] : Equal(tagged[x][i], c) BY <2>3
  <2>5. \E y \in Elements(tags_assoc)' : \E j \in DOMAIN tagged'[y] :
           tagged'[y][j] = tagged[x][i]
    BY <1>1, <2>2, DestroyedTagKeeps DEF TagsInv
  <2>6. \E y \in Elements(tags_assoc)' : \E j \in DOMAIN tagged'[y] :
           \/ tagged'[y][j] = c
           \/ /\ tagged'[y][j] \in Clients /\ c \in Clients
              /\ window'[tagged'[y][j]] = window'[c]
    BY <2>2, <2>4, <2>5 DEF Equal
  <2>. QED BY <1>1, <2>6 DEF Carriers, Equal
<1>2. TagsInv' => Carriers' BY CarriersKnown, PTL
<1>3. TagsInv /\ TagsInv' /\ [TagsNext]_tagsVars => [A]_tagsVars
  BY <1>1, <1>2, CarriersKnown
<1>. HIDE DEF A
<1>4. TagsSpec => [][A]_tagsVars BY <1>3, TagsInvariant, PTL DEF TagsSpec
<1>. QED BY <1>4 DEF A, DestroyTagKeepsTagged
----------------------------------------------------------------------------
(* What the window manager's own calls and handlers call.                  *)

\* A procedure on a hook that runs after the client's creation.
OnHook(p) ==
    \E hook \in HookNames \ {"create-client-hook"} :
        \E i \in DOMAIN Hooks[hook] : p = Hooks[hook][i]

CoreCall(e) ==
    e.proc \in {"kill_client", "set_focus_client", "focus_client"} \/ OnHook(e.proc)
CoreCalls(calls) ==
    calls \in Seq(CallSet) /\ \A e \in Elements(calls) : CoreCall(e)

LEMMA NoCoreCalls == CoreCalls(<<>>)
BY EmptySeq, NoElements DEF CoreCalls

LEMMA OneCoreCall ==
    ASSUME NEW e \in CallSet, CoreCall(e)
    PROVE  CoreCalls(<<e>>)
BY Singleton, OneCall DEF CoreCalls

LEMMA HookCalls ==
    ASSUME ClientsAssumption, NEW hook \in HookNames \ {"create-client-hook"},
           NEW c \in Clients
    PROVE  CoreCalls(run_hook(hook, c))
<1>1. run_hook(hook, c) \in Seq(CallSet) BY RunHookTyped
<1>2. \A e \in Elements(run_hook(hook, c)) : OnHook(e.proc)
  BY HookElements DEF OnHook
<1>. QED BY <1>1, <1>2 DEF CoreCalls, CoreCall

LEMMA FocusCalls ==
    ASSUME ClientsAssumption, TypeOK,
           focus_client \/ focus_next_client \/ focus_next \/ focus_prev
    PROVE  \E calls : CoreCalls(calls) /\ Then(calls)
<1>1. todo # <<>>
  BY DEF Calls, focus_client, focus_next_client, focus_next, focus_prev,
         FocusNeighbour
<1>2. /\ Arg \in Clients \cup {NULL, Unspecified}
      /\ Calls("focus_next") \/ Calls("focus_prev") => Arg \in Clients \cup {Unspecified}
  BY FocusArg
<1>3. Return => \E calls : CoreCalls(calls) /\ Then(calls)
  BY <1>1, ReturnIsThen, NoCoreCalls DEF TypeOK
<1>4. ASSUME NEW c \in Clients \cup {NULL}, Then(<<Call("focus_client", c)>>)
      PROVE  \E calls : CoreCalls(calls) /\ Then(calls)
  <2>1. Call("focus_client", c) \in CallSet /\ CoreCall(Call("focus_client", c))
    BY DEF Call, CallSet, Procs, CoreProcs, CoreCall
  <2>. QED BY <1>4, <2>1, OneCoreCall
<1>5. CASE focus_client
  <2>. DEFINE c == IF Arg = Unspecified THEN first_client ELSE Arg
  <2>1. c # NULL => c \in Clients BY <1>2, FirstClientTyped
  <2>2. \/ c # NULL /\ Then(<<Call("set_focus_client", c)>>)
        \/ Then(<<>>)
    BY <1>5 DEF focus_client
  <2>. HIDE DEF c
  <2>3. c # NULL => /\ Call("set_focus_client", c) \in CallSet
                    /\ CoreCall(Call("set_focus_client", c))
    BY <2>1 DEF Call, CallSet, Procs, CoreProcs, CoreCall
  <2>. QED BY <2>2, <2>3, OneCoreCall, NoCoreCalls
<1>6. CASE focus_next_client
  <2>1. Arg \in Clients BY <1>6, ArgIsClient DEF focus_next_client, CoreProcs
  <2>. QED BY <1>4, <1>6, <2>1, NextClientTyped DEF focus_next_client
<1>7. \A i \in VisibleAt : client_list[i] \in Clients /\ client_list # <<>>
  <2>1. \A i \in VisibleAt : i \in DOMAIN client_list BY DEF VisibleAt
  <2>2. DOMAIN client_list = 1..Len(client_list) BY LenProperties DEF TypeOK
  <2>. QED BY <2>1, <2>2, EmptySeq, ElementOfSeq DEF TypeOK
<1>8. CASE focus_next
  <2>1. Arg \in Clients => next_client(Arg) \in Clients \cup {NULL} BY NextClientTyped
  <2>. QED BY <1>2, <1>3, <1>4, <1>7, <1>8, <2>1 DEF focus_next, FocusNeighbour
<1>9. CASE focus_prev
  <2>1. client_list # <<>> => prev_client(Arg) \in Clients BY PrevClientTyped
  <2>. QED BY <1>2, <1>3, <1>4, <1>7, <1>9, <2>1 DEF focus_prev, FocusNeighbour
<1>. QED BY <1>5, <1>6, <1>8, <1>9

LEMMA NwmStepCalls ==
    ASSUME ClientsAssumption, TypeOK, NwmStep
    PROVE  /\ \E p \in CoreProcs : Calls(p)
           /\ UNCHANGED <<client_list, next>>
           /\ \/ Crash \/ Misfit
              \/ /\ status' = status
                 /\ \E calls : CoreCalls(calls) /\ Then(calls) /\
                       (Calls("destroy_client") =>
                          \A i \in DOMAIN Hooks["destroy-client-hook"] :
                             Call(Hooks["destroy-client-hook"][i], Arg) \in Elements(calls))
<1>1. /\ \E p \in CoreProcs : Calls(p)
      /\ UNCHANGED <<client_list, next>>
      /\ todo # <<>> /\ todo \in Seq(CallSet)
      /\ ~destroy_client => ~Calls("destroy_client")
  BY DEF NwmStep, map_client, unmap_client, destroy_client, kill_client, free, Crash,
         set_focus_client, focus_client, focus_next_client, auto_tile, focus_next,
         focus_prev, FocusNeighbour, Calls, TypeOK, CoreProcs
<1>2. CASE map_client
  <2>1. Arg \in Clients BY <1>2, ArgIsClient DEF map_client, CoreProcs
  <2>. QED BY <1>1, <1>2, <2>1, HookCalls DEF map_client, HookNames, Calls
<1>3. CASE unmap_client
  <2>1. Arg \in Clients BY <1>3, ArgIsClient DEF unmap_client, CoreProcs
  <2>. QED BY <1>1, <1>3, <2>1, HookCalls DEF unmap_client, HookNames, Calls
<1>4. CASE destroy_client
  <2>. DEFINE hook == run_hook("destroy-client-hook", Arg)
              k == Call("kill_client", Arg)
              kill == <<k>>
  <2>1. Arg \in Clients BY <1>4, ArgIsClient DEF destroy_client, CoreProcs
  <2>2. CoreCalls(hook) BY <2>1, HookCalls DEF HookNames
  <2>3. k \in CallSet /\ CoreCall(k)
    BY <2>1 DEF Call, CallSet, Procs, CoreProcs, CoreCall
  <2>4. CoreCalls(kill)
    <3>. HIDE DEF k
    <3>. QED BY <2>3, OneCoreCall
  <2>5. \A i \in DOMAIN Hooks["destroy-client-hook"] :
           Call(Hooks["destroy-client-hook"][i], Arg) \in Elements(hook)
    BY HookElements DEF HookNames
  <2>6. ASSUME ~Crash
        PROVE  status' = status /\ (Then(hook) \/ Then(kill \o hook))
    <3>1. /\ status' = status
          /\ Then(IF Exists(window[Arg]) /\ window[Arg] \in Polite
                  THEN hook ELSE kill \o hook)
      BY <1>4, <2>6 DEF destroy_client
    <3>. HIDE DEF hook, kill
    <3>. QED BY <3>1 DEF Then
  <2>. HIDE DEF hook, kill
  <2>7. /\ kill \o hook \in Seq(CallSet)
        /\ Elements(kill \o hook) = Elements(kill) \cup Elements(hook)
    BY <2>2, <2>4, ConcatElements, ConcatProperties DEF CoreCalls
  <2>8. CoreCalls(kill \o hook) BY <2>2, <2>4, <2>7 DEF CoreCalls
  <2>. QED BY <1>1, <2>2, <2>5, <2>6, <2>7, <2>8
<1>5. CASE kill_client \/ free \/ auto_tile
  <2>1. Crash \/ Misfit \/ (status' = status /\ Return)
    <3>1. kill_client => status' = status /\ Return BY DEF kill_client
    <3>2. ASSUME free, ~Crash PROVE status' = status /\ Return BY <3>2 DEF free
    <3>3. ASSUME auto_tile, ~Misfit PROVE status' = status /\ Return
      <4>1. Return BY <3>3 DEF Misfit
      <4>2. todo' # todo BY <1>1, <4>1, HeadTailProperties DEF Return
      <4>. QED BY <3>3, <4>1, <4>2 DEF auto_tile
    <3>. QED BY <1>5, <3>1, <3>2, <3>3
  <2>2. Return => Then(<<>>) BY <1>1, ReturnIsThen
  <2>3. ~Calls("destroy_client")
    BY <1>5 DEF kill_client, free, auto_tile, Calls
  <2>. QED BY <1>1, <2>1, <2>2, <2>3, NoCoreCalls
<1>6. CASE focus_client \/ focus_next_client \/ focus_next \/ focus_prev
  <2>1. status' = status
    BY <1>6 DEF focus_client, focus_next_client, focus_next, focus_prev, FocusNeighbour
  <2>2. ~Calls("destroy_client")
    BY <1>6 DEF focus_client, focus_next_client, focus_next, focus_prev, FocusNeighbour,
                Calls
  <2>. QED BY <1>1, <1>6, <2>1, <2>2, FocusCalls
<1>7. CASE set_focus_client
  <2>1. Arg \in Clients BY <1>7, ArgIsClient DEF set_focus_client, CoreProcs
  <2>. QED BY <1>1, <1>7, <2>1, HookCalls DEF set_focus_client, HookNames, Calls
<1>. QED BY <1>2, <1>3, <1>4, <1>5, <1>6, <1>7 DEF NwmStep

\* With nothing pending, calls of the window manager's procedures begin, and
\* of those on a new client's hook.
LEMMA EventCalls ==
    ASSUME ClientsAssumption, IInv, HandleEvent
    PROVE  /\ Idle /\ UNCHANGED status
           /\ \A e \in Elements(todo') :
                 \/ e.proc \in CoreProcs
                 \/ e.proc \in Procs /\ e.client \in Listed'
<1>. USE DEF IInv
<1>0. Idle /\ todo = <<>> /\ UNCHANGED status
  BY DEF HandleEvent, handle_map_request_event, handle_destroy_notify_event,
         handle_unmap_notify_event, TakeEvent, Idle
<1>1. CASE todo' = todo BY <1>0, <1>1, NoElements
<1>2. ASSUME NEW c, NEW p \in CoreProcs, todo' = <<Call(p, c)>>
      PROVE  \A e \in Elements(todo') : e.proc \in CoreProcs
  BY <1>2, OneCall DEF Call
<1>3. ASSUME NEW c, NEW d, todo' = <<Call("unmap_client", c), Call("free", d)>>
      PROVE  \A e \in Elements(todo') : e.proc \in CoreProcs
  <2>1. \A e \in Elements(todo') : \/ e = Call("unmap_client", c)
                                   \/ e = Call("free", d)
    BY <1>3 DEF Elements
  <2>. QED BY <2>1 DEF Call, CoreProcs
<1>4. ASSUME EventWindow \in Windows, NEW c \in Clients \ Listed,
             manage_window(c, EventWindow)
      PROVE  \A e \in Elements(todo') : e.proc \in Procs /\ e.client \in Listed'
  <2>1. /\ Elements(todo') = Elements(run_hook("create-client-hook", c))
                              \cup {Call("map_client", c)}
        /\ \A e \in Elements(todo') : e.client \in Listed'
    BY <1>4, ManageCalls
  <2>2. \A e \in Elements(run_hook("create-client-hook", c)) : e.proc \in Procs
    <3>1. Hooks["create-client-hook"] \in Seq(Procs) BY DEF ClientsAssumption, HookNames
    <3>2. \A i \in DOMAIN Hooks["create-client-hook"] :
             Hooks["create-client-hook"][i] \in Procs
      BY <3>1, LenProperties, ElementOfSeq
    <3>. QED BY <3>2, HookElements DEF HookNames
  <2>3. Call("map_client", c).proc \in Procs BY DEF Call, Procs, CoreProcs
  <2>. QED BY <2>1, <2>2, <2>3
<1>5. CASE handle_map_request_event
  <2>1. EventWindow \in Windows BY <1>5, EventTaken DEF handle_map_request_event
  <2>2. "map_client" \in CoreProcs BY DEF CoreProcs
  <2>. QED BY <1>0, <1>1, <1>2, <1>4, <1>5, <2>1, <2>2 DEF handle_map_request_event
<1>6. CASE handle_destroy_notify_event
  <2>1. "destroy_client" \in CoreProcs BY DEF CoreProcs
  <2>. QED BY <1>0, <1>1, <1>2, <1>6, <2>1 DEF handle_destroy_notify_event
<1>7. CASE handle_unmap_notify_event
  BY <1>0, <1>1, <1>3, <1>7 DEF handle_unmap_notify_event
<1>. QED BY <1>5, <1>6, <1>7 DEF HandleEvent

\* What a command that is no key of the tags calls.
Commanded(e) ==
    /\ e.proc \in CoreProcs \ {"free"}
    /\ e.proc = "unmap_client" => "unmap-client" \in Commands

LEMMA CommandCalls ==
    ASSUME TypeOK, RunCommand \/ auto_focus_pointer
    PROVE  /\ Idle /\ Listed' = Listed
           /\ \A e \in Elements(todo') : Commanded(e)
           /\ Len(client_list') = Len(client_list)
<1>1. Idle /\ todo = <<>>
  BY DEF RunCommand, ClientCommand, FocusCommand, close, client_list_reverse,
         swap_master, auto_focus_pointer, Command, Idle
<1>2. todo' = <<>> \/ UNCHANGED todo => \A e \in Elements(todo') : Commanded(e)
  BY <1>1, NoElements
<1>3. ASSUME NEW c, NEW p \in CoreProcs \ {"free"}, todo' = <<Call(p, c)>>,
             p = "unmap_client" => "unmap-client" \in Commands
      PROVE  \A e \in Elements(todo') : Commanded(e)
  BY <1>3, OneCall DEF Call, Commanded
<1>4. /\ UNCHANGED client_list => Listed' = Listed
      /\ UNCHANGED client_list => Len(client_list') = Len(client_list)
  BY DEF Listed
<1>5. CASE ClientCommand
  <2>1. /\ UNCHANGED client_list
        /\ \E c \in Listed, p \in {"map_client", "unmap_client", "destroy_client"} :
              /\ todo' = <<Call(p, c)>>
              /\ p = "unmap_client" => "unmap-client" \in Commands
    BY <1>5 DEF ClientCommand, Command, Start
  <2>. QED BY <1>1, <1>3, <1>4, <2>1 DEF CoreProcs
<1>6. CASE FocusCommand
  <2>1. /\ UNCHANGED client_list
        /\ \E p \in {"focus_next", "focus_prev"} : todo' = <<Call(p, get_focus_client)>>
    BY <1>6 DEF FocusCommand, Start
  <2>. QED BY <1>1, <1>3, <1>4, <2>1 DEF CoreProcs
<1>7. CASE close
  <2>1. /\ UNCHANGED client_list
        /\ \/ todo' = <<Call("destroy_client", get_focus_client)>>
           \/ UNCHANGED todo \/ todo' = <<>>
    BY <1>1, <1>7 DEF close, Crash, Start
  <2>. QED BY <1>1, <1>2, <1>3, <1>4, <2>1 DEF CoreProcs
<1>8. CASE client_list_reverse
  <2>. DEFINE n == Len(client_list)
              old(j) == (n - j) + 1
  <2>1. n \in Nat /\ DOMAIN client_list = 1..n BY LenProperties DEF TypeOK
  <2>2. /\ UNCHANGED todo
        /\ client_list' = [j \in 1..n |-> client_list[old(j)]]
    BY <1>8 DEF client_list_reverse, Reverse
  <2>3. \A j \in 1..n : old(j) \in 1..n /\ old(old(j)) = j BY <2>1
  <2>4. client_list \in Seq(Clients) /\ \A j \in 1..n : client_list[j] \in Clients
    BY <2>1, ElementOfSeq DEF TypeOK
  <2>. HIDE DEF n, old
  <2>5. Listed' = Listed BY <2>1, <2>2, <2>3 DEF Listed
  <2>6. client_list' \in Seq(Clients) /\ DOMAIN client_list' = 1..n
    BY <2>1, <2>2, <2>3, <2>4
  <2>7. Len(client_list') \in Nat /\ 1..Len(client_list') = 1..n
    BY <2>6, LenProperties
  <2>8. Len(client_list') = n BY <2>1, <2>7
  <2>. QED BY <1>1, <1>2, <2>2, <2>5, <2>8 DEF n
<1>9. CASE swap_master
  <2>1. /\ UNCHANGED client_list
        /\ \/ UNCHANGED todo \/ todo' = <<>>
           \/ \E c : todo' = <<Call("focus_client", c), Call("auto_tile", c)>>
    BY <1>9 DEF swap_master, client_list_swap, Raise, Crash, Start
  <2>2. ASSUME NEW c, todo' = <<Call("focus_client", c), Call("auto_tile", c)>>
        PROVE  \A e \in Elements(todo') : Commanded(e)
    <3>1. \A e \in Elements(todo') : e \in {Call("focus_client", c), Call("auto_tile", c)}
      BY <2>2 DEF Elements
    <3>. QED BY <3>1 DEF Call, CoreProcs, Commanded
  <2>. QED BY <1>1, <1>2, <1>4, <2>1, <2>2
<1>10. CASE auto_focus_pointer
  <2>1. /\ UNCHANGED client_list
        /\ \/ UNCHANGED todo \/ todo' = <<>>
           \/ \E c : todo' = <<Call("set_focus_client", c)>>
    BY <1>10 DEF auto_focus_pointer
  <2>. QED BY <1>1, <1>2, <1>3, <1>4, <2>1 DEF CoreProcs
<1>. QED BY <1>5, <1>6, <1>7, <1>8, <1>9, <1>10 DEF RunCommand

----------------------------------------------------------------------------
(* tag-switch goes through the tags while hooks run in between.            *)

IsSwitch(e) == e.proc = "tag_switch"

\* While turns of a tag-switch are due they are all for one tag, and every tag
\* either has its turn still to come or is as visible as it should be.
SwitchingTo(t) ==
    \A e \in Elements(todo) : IsSwitch(e) =>
        /\ e.target = t
        /\ \A u \in Elements(tags_assoc) :
              \/ visible[u] = (u = t)
              \/ \E d \in Elements(todo) : IsSwitch(d) /\ d.tag = u
SwitchInv == \E t \in Tags : SwitchingTo(t)

LEMMA NoSwitchDue ==
    ASSUME TagsAssumption, \A e \in Elements(todo') : ~IsSwitch(e)
    PROVE  SwitchInv'
<1>1. PICK t : t \in Tags
  <2>1. 1 \in DOMAIN InitTags BY LenProperties, EmptySeq DEF TagsAssumption
  <2>. QED BY <2>1, LenProperties, ElementOfSeq DEF TagsAssumption
<1>. QED BY <1>1 DEF SwitchInv, SwitchingTo

LEMMA SwitchGoesOn ==
    ASSUME SwitchInv, todo \in Seq(CallSet), todo # <<>>, ~IsSwitch(Head(todo)),
           NEW calls \in Seq(CallSet), Then(calls),
           \A e \in Elements(calls) : ~IsSwitch(e), UNCHANGED <<tags_assoc, visible>>
    PROVE  SwitchInv'
<1>. PICK t \in Tags : SwitchingTo(t) BY DEF SwitchInv
<1>1. \A e : IsSwitch(e) => (e \in Elements(todo) <=> e \in Elements(todo'))
  BY ThenElements
<1>2. SwitchingTo(t)' BY <1>1 DEF SwitchingTo, Elements, IsSwitch
<1>. QED BY <1>2 DEF SwitchInv

LEMMA SwitchTurn ==
    ASSUME TagsAssumption, TagsTypeOK, SwitchInv, tag_switch,
           NEW t, t = Head(todo).target
    PROVE  /\ t \in Tags /\ SwitchingTo(t)'
           /\ ~Switching' => \A i \in DOMAIN tags_assoc :
                 visible'[tags_assoc[i]] = (tags_assoc[i] = t)
<1>. DEFINE cur == Head(todo).tag
<1>1. /\ todo \in Seq(CallSet) /\ todo # <<>> /\ ~Idle
      /\ cur \in Tags /\ t \in Tags /\ IsSwitch(Head(todo))
  BY TagArgs DEF TagsTypeOK, tag_switch, Calls, IsSwitch
<1>2. PICK calls : TagCalls(calls) /\ Then(calls)
  <2>1. TagCalls(ChangeVisibility(tagged[cur])) BY <1>1, VisibilityCalls
  <2>2. Return => Then(<<>>) BY <1>1, ReturnIsThen
  <2>. QED BY <1>1, <2>1, <2>2, NoTagCalls DEF tag_switch, ToggleVisibility, Begin
<1>3. /\ Elements(todo') = Elements(calls) \cup Elements(Tail(todo))
      /\ Elements(todo) = Elements(Tail(todo)) \cup {Head(todo)}
  BY <1>1, <1>2, ThenElements DEF TagCalls
<1>4. \A e \in Elements(calls) : ~IsSwitch(e) BY <1>2 DEF TagCalls, TagProcs, IsSwitch
<1>5. /\ \A e \in Elements(todo) : IsSwitch(e) => e.target = t
      /\ \A u \in Elements(tags_assoc) :
            \/ visible[u] = (u = t)
            \/ \E d \in Elements(todo) : IsSwitch(d) /\ d.tag = u
  BY <1>1, <1>3 DEF SwitchInv, SwitchingTo
<1>6. /\ visible \in [Tags -> BOOLEAN] /\ UNCHANGED tags_assoc
      /\ \A u \in Elements(tags_assoc) : u \in Tags
  BY LenProperties, ElementOfSeq DEF TagsTypeOK, tag_switch, Unchanged, Elements
<1>7. /\ visible'[cur] = (cur = t)
      /\ \A u \in Tags \ {cur} : visible'[u] = visible[u]
  BY <1>1, <1>6 DEF tag_switch, ToggleVisibility
<1>8. \A u \in Elements(tags_assoc) :
         \/ visible'[u] = (u = t)
         \/ \E d \in Elements(todo') : IsSwitch(d) /\ d.tag = u
  <2>. SUFFICES ASSUME NEW u \in Elements(tags_assoc), u # cur, visible[u] # (u = t)
                PROVE  \E d \in Elements(todo') : IsSwitch(d) /\ d.tag = u
    BY <1>6, <1>7
  <2>. PICK d \in Elements(todo) : IsSwitch(d) /\ d.tag = u BY <1>5
  <2>. QED BY <1>3
<1>9. \A e \in Elements(todo') : IsSwitch(e) => e.target = t BY <1>3, <1>4, <1>5
<1>10. SwitchingTo(t)'
  <2>1. Elements(tags_assoc)' = Elements(tags_assoc) BY <1>6 DEF Elements
  <2>2. Elements(todo)' = Elements(todo') BY DEF Elements
  <2>3. \A u \in Elements(tags_assoc)' :
         \/ visible'[u] = (u = t)
         \/ \E d \in Elements(todo)' : IsSwitch(d) /\ d.tag = u
    BY <1>8, <2>1, <2>2
  <2>. QED BY <1>9, <2>2, <2>3 DEF SwitchingTo, IsSwitch
<1>11. ASSUME ~Switching', NEW i \in DOMAIN tags_assoc
       PROVE  visible'[tags_assoc[i]] = (tags_assoc[i] = t)
  <2>1. \A d \in Elements(todo') : ~IsSwitch(d) BY <1>11 DEF Switching, Elements, IsSwitch
  <2>2. tags_assoc[i] \in Elements(tags_assoc) BY DEF Elements
  <2>. QED BY <1>8, <2>1, <2>2
<1>. QED BY <1>1, <1>10, <1>11

LEMMA CoreCallsKnown ==
    ASSUME ClientsAssumption, NEW e, CoreCall(e)
    PROVE  e.proc \in Procs
<1>1. \A hook \in HookNames : Hooks[hook] \in Seq(Procs) BY DEF ClientsAssumption
<1>2. \A hook \in HookNames : \A i \in DOMAIN Hooks[hook] : Hooks[hook][i] \in Procs
  BY <1>1, LenProperties, ElementOfSeq
<1>. QED BY <1>2 DEF CoreCall, OnHook, Procs, CoreProcs

LEMMA SwitchPreserved ==
    ASSUME ClientsAssumption, TagsAssumption, TagsInv, SwitchInv, [TagsNext]_tagsVars
    PROVE  SwitchInv'
<1>. USE DEF TagsInv
<1>1. /\ TypeOK /\ todo \in Seq(CallSet)
      /\ \A p : Calls(p) => todo # <<>> /\ Head(todo).proc = p
  BY DEF TagsTypeOK, TypeOK, Calls
<1>2. ASSUME UNCHANGED <<todo, tags_assoc, visible>> PROVE SwitchInv'
  <2>. PICK t \in Tags : SwitchingTo(t) BY DEF SwitchInv
  <2>1. Elements(todo)' = Elements(todo) /\ Elements(tags_assoc)' = Elements(tags_assoc)
    BY <1>2 DEF Elements
  <2>2. SwitchingTo(t)' BY <1>2, <2>1 DEF SwitchingTo, IsSwitch
  <2>. QED BY <2>2 DEF SwitchInv
<1>3. \A e : e.proc \in Procs \cup TagProcs => ~IsSwitch(e)
  BY DEF TagsAssumption, Procs, CoreProcs, TagProcs, IsSwitch
<1>4. CASE UNCHANGED tagsVars BY <1>2, <1>4 DEF tagsVars, vars, nvars, tvars
<1>5. CASE ClientsAction
  <2>0. UNCHANGED <<tags_assoc, visible>> BY <1>5 DEF ClientsAction, tvars
  <2>1. CASE AppAction \/ Dead BY <1>2, <2>0, <2>1 DEF AppAction, Dead, nvars, vars
  <2>2. CASE HandleEvent
    <3>1. \A e \in Elements(todo') : e.proc \in Procs
      BY <2>2, EventCalls DEF Procs
    <3>. QED BY <1>3, <3>1, NoSwitchDue
  <2>3. CASE NwmStep
    <3>1. CASE Crash \/ Misfit
      <4>1. CASE UNCHANGED todo BY <1>2, <2>0, <4>1
      <4>2. CASE todo' = <<>> BY <4>2, NoElements, NoSwitchDue
      <4>. QED BY <3>1, <4>1, <4>2, BreaksOff DEF Broken
    <3>2. CASE ~Crash /\ ~Misfit
      <4>1. PICK calls : CoreCalls(calls) /\ Then(calls) BY <1>1, <2>3, <3>2, NwmStepCalls
      <4>2. \A e \in Elements(calls) : e.proc \in Procs
        BY <4>1, CoreCallsKnown DEF CoreCalls
      <4>3. todo # <<>> /\ Head(todo).proc \in CoreProcs BY <1>1, <2>3, NwmStepCalls
      <4>. QED BY <1>1, <1>3, <2>0, <4>1, <4>2, <4>3, SwitchGoesOn DEF CoreCalls, Procs
    <3>. QED BY <3>1, <3>2
  <2>4. CASE RunCommand \/ auto_focus_pointer
    <3>1. \A e \in Elements(todo') : e.proc \in Procs
      BY <1>1, <2>4, CommandCalls DEF Commanded, Procs
    <3>. QED BY <1>3, <3>1, NoSwitchDue
  <2>. QED BY <1>5, <2>1, <2>2, <2>3, <2>4 DEF ClientsAction, Next
<1>6. CASE TagStep
  <2>1. CASE tag_switch BY <2>1, SwitchTurn DEF SwitchInv
  <2>2. CASE ~tag_switch
    <3>1. UNCHANGED <<tags_assoc, visible>> /\ todo # <<>> /\ ~IsSwitch(Head(todo))
      BY <1>1, <1>6, <2>2
         DEF TagStep, tag_new_client, untag_client, tag_remove_client,
             untag_client_hook, change_visibility, Unchanged, tvars, IsSwitch
    <3>2. CASE UNCHANGED todo BY <1>2, <3>1, <3>2
    <3>3. ASSUME NEW calls, TagCalls(calls), Then(calls) PROVE SwitchInv'
      BY <1>1, <1>3, <3>1, <3>3, SwitchGoesOn DEF TagCalls
    <3>. QED BY <1>6, <3>2, <3>3, TagStepMakes
  <2>. QED BY <2>1, <2>2
<1>7. CASE TagCommand
  <2>1. /\ Idle /\ todo = <<>>
        /\ \/ UNCHANGED todo \/ TagCalls(todo')
           \/ \E t \in Tags : todo' = Switches(t)
    BY <1>7, TagCommandMakes DEF Idle, IInv
  <2>2. CASE UNCHANGED todo BY <2>1, <2>2, NoElements, NoSwitchDue
  <2>3. CASE TagCalls(todo') BY <1>3, <2>3, NoSwitchDue DEF TagCalls
  <2>4. ASSUME NEW t \in Tags, todo' = Switches(t) PROVE SwitchInv'
    <3>1. CASE UNCHANGED tags_assoc
      <4>1. \A d \in Elements(todo') : d.target = t BY <2>4 DEF Switches, SwitchCall, Elements
      <4>2. /\ DOMAIN tags_assoc = 1..Len(tags_assoc)
            /\ DOMAIN Switches(t) = 1..Len(tags_assoc)
        BY LenProperties DEF Switches, TagsTypeOK
      <4>3. \A u \in Elements(tags_assoc) :
               \E d \in Elements(todo') : IsSwitch(d) /\ d.tag = u
        <5>1. \A i \in DOMAIN tags_assoc : SwitchCall(tags_assoc[i], t) \in Elements(todo')
          BY <2>4, <4>2 DEF Switches, Elements
        <5>. QED BY <5>1 DEF SwitchCall, IsSwitch, Elements
      <4>4. /\ Elements(tags_assoc)' = Elements(tags_assoc)
            /\ Elements(todo)' = Elements(todo')
        BY <3>1 DEF Elements
      <4>5. SwitchingTo(t)' BY <4>1, <4>3, <4>4 DEF SwitchingTo, IsSwitch
      <4>. QED BY <4>5 DEF SwitchInv
    <3>2. CASE ~UNCHANGED tags_assoc
      <4>1. UNCHANGED todo
        BY <1>7, <3>2
           DEF TagCommand, toggle_visibility_key, toggle_client_key, switch_key,
               create_tag, destroy_tag, Unchanged, tvars
      <4>. QED BY <2>1, <4>1, NoElements, NoSwitchDue
    <3>. QED BY <3>1, <3>2
  <2>. QED BY <2>1, <2>2, <2>3, <2>4
<1>. QED BY <1>4, <1>5, <1>6, <1>7 DEF TagsNext

LEMMA SwitchInitially == TagsInit => SwitchInv
<1>. SUFFICES ASSUME TagsInit PROVE SwitchInv OBVIOUS
<1>1. todo = <<>> /\ InitTags[1] \in Tags
  <2>1. 1 \in DOMAIN InitTags BY TagsAssumption, LenProperties, EmptySeq DEF TagsAssumption
  <2>. QED BY <2>1, TagsAssumption, LenProperties, ElementOfSeq
           DEF TagsAssumption, TagsInit, Init
<1>. QED BY <1>1, NoElements DEF SwitchInv, SwitchingTo

\* Only tag-switch itself takes a turn of tag-switch.
LEMMA OnlySwitchTurns ==
    ASSUME ClientsAssumption, TagsAssumption, TagsInv, [TagsNext]_tagsVars,
           Calls("tag_switch"), ~Switching'
    PROVE  tag_switch
<1>1. /\ todo \in Seq(CallSet) /\ todo # <<>> /\ ~Idle /\ status = "running"
      /\ \A p : Calls(p) => p = "tag_switch"
  BY DEF TagsInv, TagsTypeOK, TypeOK, Calls, Idle
<1>2. ~UNCHANGED todo
  <2>1. 1 \in DOMAIN todo /\ todo[1] = Head(todo) BY <1>1, EmptySeq, LenProperties
  <2>. QED BY <2>1 DEF Switching, Calls
<1>3. ~Next
  <2>1. TypeOK BY DEF TagsInv, TagsTypeOK
  <2>2. ~NwmStep BY <1>1, <2>1, NwmStepCalls DEF CoreProcs
  <2>3. ~HandleEvent BY <1>1, EventCalls DEF TagsInv
  <2>4. ~(RunCommand \/ auto_focus_pointer) BY <1>1, <2>1, CommandCalls
  <2>. QED BY <1>1, <1>2, <2>2, <2>3, <2>4 DEF Next, AppAction, Dead, nvars, vars
<1>4. ~TagCommand BY <1>1, TagCommandMakes DEF TagsInv, IInv
<1>5. TagStep BY <1>2, <1>3, <1>4 DEF TagsNext, ClientsAction, tagsVars, vars, nvars
<1>. QED BY <1>1, <1>5 DEF TagStep, tag_new_client, untag_client, tag_remove_client,
             untag_client_hook, change_visibility

\* When tag-switch has gone through the tags, the one it was given is visible
\* and no other is, whatever its turns made hooks do in between.
THEOREM SwitchLeavesOneTag == TagsSpec => SwitchShowsOneTag
<1>. DEFINE A == Calls("tag_switch") /\ ~Switching' =>
                    \A i \in DOMAIN tags_assoc :
                       visible'[tags_assoc[i]] = (tags_assoc[i] = Head(todo).target)
<1>1. TagsInv /\ SwitchInv /\ [TagsNext]_tagsVars => SwitchInv'
  BY ClientsAssumption, TagsAssumption, SwitchPreserved
<1>2. TagsInv /\ SwitchInv /\ [TagsNext]_tagsVars => A
  BY ClientsAssumption, TagsAssumption, OnlySwitchTurns, SwitchTurn DEF TagsInv
<1>3. TagsSpec => []SwitchInv
  BY <1>1, SwitchInitially, TagsInvariant, PTL DEF TagsSpec
<1>4. TagsInv /\ SwitchInv /\ [TagsNext]_tagsVars => [A]_tagsVars BY <1>2
<1>. HIDE DEF A
<1>5. TagsSpec => [][A]_tagsVars BY <1>3, <1>4, TagsInvariant, PTL DEF TagsSpec
<1>. QED BY <1>5 DEF A, SwitchShowsOneTag

----------------------------------------------------------------------------
(* What the tags list, when no program withdraws its window.               *)

NoneSent == \A e \in Elements(xqueue) : ~e.sent

LEMMA UnmappingUnsent ==
    ASSUME XTypeOK, NoneSent, NEW w, xqueue' = xqueue \o Unmapping(w)
    PROVE  NoneSent'
<1>1. Elements(xqueue') = Elements(xqueue) \cup Elements(Unmapping(w))
  BY UnmappingKinds, ConcatElements DEF XTypeOK
<1>. QED BY <1>1, UnmappingKinds DEF NoneSent, Elements

LEMMA DestroyUnsent ==
    ASSUME XTypeOK, NoneSent, NEW w, ServerDestroy(w)
    PROVE  NoneSent'
<1>1. CASE UNCHANGED xvars BY <1>1 DEF xvars, NoneSent, Elements
<1>2. CASE Exists(w)
  <2>. DEFINE ev == Event("DestroyNotify", w, FALSE)
  <2>1. ev \in EventSet /\ ~ev.sent BY <1>2 DEF Event, EventSet, Exists
  <2>2. xqueue' = xqueue \o Unmapping(w) \o <<ev>> BY <1>2 DEF ServerDestroy
  <2>. HIDE DEF ev
  <2>3. Elements(xqueue') = Elements(xqueue) \cup Elements(Unmapping(w)) \cup {ev}
    BY <2>1, <2>2, UnmappingKindsThen
  <2>. QED BY <2>1, <2>3, UnmappingKinds DEF NoneSent, Elements
<1>. QED BY <1>1, <1>2 DEF ServerDestroy

LEMMA SameUnsent == NoneSent /\ UNCHANGED xqueue => NoneSent'
BY DEF NoneSent, Elements

LEMMA AppUnsent ==
    ASSUME "withdraw" \notin AppMoves, XTypeOK, NoneSent, AppStep
    PROVE  NoneSent'
<1>1. PICK w \in Windows : \/ AppCreate(w) \/ AppMap(w) \/ AppUnmap(w)
                           \/ AppWithdraw(w) \/ AppDestroy(w) \/ AppFocus(w)
  BY DEF AppStep
<1>0. xqueue \in Seq(EventSet) BY DEF XTypeOK
<1>2. CASE AppMap(w)
  <2>1. CASE UNCHANGED xqueue BY <2>1, SameUnsent
  <2>2. CASE xqueue' = Append(xqueue, Event("MapRequest", w, FALSE))
    <3>. DEFINE ev == Event("MapRequest", w, FALSE)
    <3>1. ev \in EventSet /\ ~ev.sent BY DEF Event, EventSet
    <3>. HIDE DEF ev
    <3>2. xqueue' = xqueue \o <<ev>> /\ <<ev>> \in Seq(EventSet)
      BY <2>2, <3>1, AppendIsConcat, Singleton DEF XTypeOK, ev
    <3>3. Elements(xqueue') = Elements(xqueue) \cup {ev}
      <4>. DEFINE one == <<ev>>
      <4>1. one \in Seq(EventSet) /\ xqueue' = xqueue \o one /\ Elements(one) = {ev}
        BY <3>1, <3>2, OneElement
      <4>. HIDE DEF one
      <4>. QED BY <1>0, <4>1, ConcatElements
    <3>. QED BY <3>1, <3>3 DEF NoneSent, Elements
  <2>. QED BY <1>2, <2>1, <2>2 DEF AppMap, ServerMap
<1>3. CASE AppUnmap(w) BY <1>3, UnmappingUnsent DEF AppUnmap, ServerUnmap
<1>4. CASE AppCreate(w) \/ AppFocus(w)
  BY <1>4, SameUnsent DEF AppCreate, AppFocus, ServerFocus
<1>5. CASE AppDestroy(w) BY <1>5, DestroyUnsent DEF AppDestroy
<1>. QED BY <1>1, <1>2, <1>3, <1>4, <1>5 DEF AppWithdraw

LEMMA UnsentPreserved ==
    ASSUME "withdraw" \notin AppMoves, TagsAssumption, TagsInv, NoneSent,
           [TagsNext]_tagsVars
    PROVE  NoneSent'
<1>1. XTypeOK BY DEF TagsInv, TagsTypeOK, TypeOK
<1>2. CASE UNCHANGED xqueue BY <1>2, SameUnsent
<1>3. CASE AppAction BY <1>1, <1>3, AppUnsent DEF AppAction
<1>4. CASE HandleEvent
  <2>1. xqueue \in Seq(EventSet) /\ xqueue # <<>> /\ xqueue' = Tail(xqueue)
    BY <1>1, <1>4
       DEF XTypeOK, HandleEvent, handle_map_request_event, handle_destroy_notify_event,
           handle_unmap_notify_event, TakeEvent
  <2>2. Elements(xqueue) = Elements(Tail(xqueue)) \cup {Head(xqueue)}
    BY <2>1, TailElements
  <2>. QED BY <2>1, <2>2 DEF NoneSent, Elements
<1>5. CASE NwmStep
  <2>1. CASE unmap_client BY <1>1, <2>1, UnmappingUnsent DEF unmap_client, ServerUnmap
  <2>2. CASE kill_client BY <1>1, <2>2, DestroyUnsent DEF kill_client
  <2>3. CASE ~unmap_client /\ ~kill_client
    BY <1>2, <1>5, <2>3
       DEF NwmStep, map_client, destroy_client, free, set_focus_client, focus_client,
           focus_next_client, auto_tile, focus_next, focus_prev, FocusNeighbour,
           ServerMap, ServerFocus, Crash, xvars
  <2>. QED BY <2>1, <2>2, <2>3
<1>6. CASE RunCommand \/ auto_focus_pointer \/ Dead
  BY <1>2, <1>6
     DEF RunCommand, ClientCommand, FocusCommand, close, client_list_reverse, swap_master,
         client_list_swap, Raise, Crash, auto_focus_pointer, Dead, vars, xvars
<1>7. CASE TagStep \/ TagCommand
  BY <1>2, <1>7, TagStepMakes, TagCommandMakes DEF TagsInv, IInv, xvars
<1>8. CASE UNCHANGED tagsVars BY <1>2, <1>8 DEF tagsVars, vars, xvars
<1>. QED BY <1>3, <1>4, <1>5, <1>6, <1>7, <1>8 DEF TagsNext, ClientsAction, Next

\* Only the tags of tags-assoc have clients.
NoneElsewhere == \A t \in Tags : t \notin Elements(tags_assoc) => tagged[t] = <<>>

LEMMA DeletedFromNone ==
    ASSUME TagsTypeOK, NEW c, NEW t \in Tags, tagged[t] = <<>>
    PROVE  Delete(c, tagged[t]) = <<>>
<1>1. /\ Delete(c, tagged[t]) \in Seq(Clients \cup {Unspecified})
      /\ Elements(Delete(c, tagged[t])) = {}
  BY Deleted, NoElements
<1>2. \A s \in Seq(Clients \cup {Unspecified}) : Elements(s) = {} => s = <<>>
  <2>1. \A s \in Seq(Clients \cup {Unspecified}) : s # <<>> => 1 \in DOMAIN s
    BY LenProperties, EmptySeq
  <2>. QED BY <2>1 DEF Elements
<1>. QED BY <1>1, <1>2

\* How the tags and what they list can change.
LEMMA TaggedChanges ==
    ASSUME TagsAssumption, TagsInv, TagStep \/ TagCommand
    PROVE  \/ UNCHANGED <<tags_assoc, tagged>>
           \/ tag_new_client
           \/ tag_remove_client
           \/ \E t \in Tags : toggle_client_key(t) \/ create_tag(t) \/ destroy_tag(t)
BY DEF TagStep, TagCommand, untag_client, untag_client_hook, change_visibility, tag_switch,
       toggle_visibility_key, switch_key, Unchanged, tvars

LEMMA NoneElsewherePreserved ==
    ASSUME TagsAssumption, TagsInv, NoneElsewhere, TagStep \/ TagCommand
    PROVE  NoneElsewhere'
<1>0. /\ TypeOK /\ TagsTypeOK /\ tags_assoc \in Seq(Tags)
      /\ tagged \in [Tags -> Seq(Clients \cup {Unspecified})]
  BY DEF TagsInv, TagsTypeOK
<1>. USE DEF Unchanged
<1>1. ASSUME UNCHANGED tags_assoc,
             \A t \in Tags : t \notin Elements(tags_assoc) /\ tagged[t] = <<>> =>
                             tagged'[t] = <<>>
      PROVE  NoneElsewhere'
  BY <1>1 DEF NoneElsewhere, Elements
<1>2. CASE UNCHANGED <<tags_assoc, tagged>> BY <1>1, <1>2
<1>3. CASE tag_new_client
  <2>1. tags_assoc # <<>> => tags_assoc[1] \in Elements(tags_assoc) /\ tags_assoc[1] \in Tags
    BY <1>0, FirstTag
  <2>. QED BY <1>0, <1>1, <1>3, <2>1, IsTagElement DEF tag_new_client
<1>4. CASE tag_remove_client
  <2>1. Head(todo).tag \in Tags BY <1>0, <1>4, TagArgs DEF tag_remove_client
  <2>. QED BY <1>0, <1>1, <1>4, <2>1, DeletedFromNone DEF tag_remove_client, TagRemove
<1>5. ASSUME NEW t \in Tags, toggle_client_key(t) PROVE NoneElsewhere'
  <2>1. t \in Elements(tags_assoc) BY <1>5, IsTagElement DEF toggle_client_key
  <2>. QED BY <1>0, <1>1, <1>5, <2>1 DEF toggle_client_key, TagRemove
<1>6. ASSUME NEW t \in Tags, create_tag(t) PROVE NoneElsewhere'
  <2>. DEFINE one == <<t>>
  <2>1. one \in Seq(Tags) /\ Elements(one) = {t} /\ tags_assoc' = one \o tags_assoc
    BY <1>6, Singleton, OneCall DEF create_tag
  <2>. HIDE DEF one
  <2>2. Elements(tags_assoc') = {t} \cup Elements(tags_assoc) BY <1>0, <2>1, ConcatElements
  <2>. QED BY <1>0, <1>6, <2>2 DEF create_tag, NoneElsewhere, Elements
<1>7. ASSUME NEW t \in Tags, destroy_tag(t) PROVE NoneElsewhere'
  <2>1. tags_assoc' \in Seq(Tags) /\ Elements(tags_assoc') = Elements(tags_assoc) \ {t}
    BY <1>0, <1>7, AllButOne DEF destroy_tag
  <2>2. tags_assoc' # <<>> => tags_assoc'[1] \in Elements(tags_assoc') BY <2>1, FirstTag
  <2>3. \A u \in Tags \ Elements(tags_assoc') :
           u = t \/ (u \notin Elements(tags_assoc) /\ (tags_assoc' # <<>> => u # tags_assoc'[1]))
    BY <2>1, <2>2
  <2>4. \A u \in Tags \ Elements(tags_assoc') : tagged'[u] = <<>>
    BY <1>0, <1>7, <2>3 DEF destroy_tag, NoneElsewhere
  <2>. QED BY <2>4 DEF NoneElsewhere, Elements
<1>. QED BY <1>2, <1>3, <1>4, <1>5, <1>6, <1>7, TaggedChanges

LEMMA AppendElements ==
    ASSUME NEW S, NEW s \in Seq(S), NEW c \in S
    PROVE  Elements(Append(s, c)) = Elements(s) \cup {c}
<1>. DEFINE one == <<c>>
<1>1. one \in Seq(S) /\ Elements(one) = {c} BY Singleton, OneCall
<1>2. Append(s, c) = s \o one BY AppendIsConcat
<1>. HIDE DEF one
<1>. QED BY <1>1, <1>2, ConcatElements

\* A client that has left the list is on its way out of tag t.
Leaves(c, t) ==
    \/ Call("destroy_client", c) \in Elements(todo)
    \/ Call("untag_client", c) \in Elements(todo)
    \/ TagCall("tag_remove_client", c, t) \in Elements(todo)

KnownIn(c, t) == c \in Listed \cup {Unspecified} \/ Leaves(c, t)

NewAreListed == \A e \in Elements(todo) : e.proc = "tag_new_client" => e.client \in Listed

TagsListed == \A t \in Tags : \A c \in Elements(tagged[t]) : c \in Listed \cup {Unspecified}

\* No client leaves while the REPL catches the errors: those drop no removal.
TaggedInv ==
    status = "running" =>
        /\ \A t \in Tags : \A c \in Elements(tagged[t]) : KnownIn(c, t)
        /\ NewAreListed
        /\ caught => TagsListed

\* With nothing due, what the tags list is on the client list.
LEMMA IdleTagged ==
    ASSUME TaggedInv, Idle, NEW t \in Tags, NEW c \in Elements(tagged[t])
    PROVE  c \in Listed \cup {Unspecified}
BY NoElements DEF TaggedInv, Idle, KnownIn, Leaves

LEMMA UnlinkLeaves ==
    ASSUME TypeOK, NEW i \in DOMAIN client_list, Unlink(i)
    PROVE  \A x \in Listed : x = client_list[i] \/ x \in Listed'
<1>1. /\ client_list \in Seq(Clients) /\ Len(client_list) \in Nat
      /\ DOMAIN client_list = 1..Len(client_list)
  BY LenProperties DEF TypeOK
<1>2. /\ DOMAIN client_list' = 1..(Len(client_list) - 1)
      /\ \A j \in 1..(Len(client_list) - 1) :
            client_list'[j] = IF j < i THEN client_list[j] ELSE client_list[j + 1]
  BY <1>1, RemoveAtProperties DEF Unlink
<1>3. ASSUME NEW j \in DOMAIN client_list, j # i PROVE client_list[j] \in Listed'
  <2>1. CASE j < i
    <3>1. j \in DOMAIN client_list' /\ client_list'[j] = client_list[j]
      BY <1>1, <1>2, <2>1
    <3>. QED BY <3>1 DEF Listed
  <2>2. CASE j > i
    <3>1. j - 1 \in DOMAIN client_list' /\ client_list'[j - 1] = client_list[j]
      BY <1>1, <1>2, <2>2
    <3>. QED BY <3>1 DEF Listed
  <2>. QED BY <1>1, <1>3, <2>1, <2>2
<1>. QED BY <1>3 DEF Listed

\* An event takes a client off the list only to destroy it.
LEMMA EventKeeps ==
    ASSUME ClientsAssumption, IInv, NoneSent, HandleEvent
    PROVE  \A x \in Listed : x \in Listed' \/ Call("destroy_client", x) \in Elements(todo')
<1>. USE DEF IInv
<1>1. CASE UNCHANGED client_list BY <1>1 DEF Listed
<1>2. CASE handle_destroy_notify_event /\ ~UNCHANGED client_list
  <2>1. PICK i \in DOMAIN client_list :
           Unlink(i) /\ todo' = <<Call("destroy_client", client_list[i])>>
    BY <1>2 DEF handle_destroy_notify_event, Finds
  <2>. QED BY <2>1, UnlinkLeaves, OneCall
<1>3. ASSUME handle_map_request_event, ~UNCHANGED client_list
      PROVE  Listed \subseteq Listed'
  <2>1. PICK c \in Clients \ Listed : manage_window(c, EventWindow)
    BY <1>3 DEF handle_map_request_event
  <2>2. EventWindow \in Windows BY <1>3, EventTaken DEF handle_map_request_event
  <2>. QED BY <2>1, <2>2, ManageCalls
<1>4. CASE handle_unmap_notify_event /\ ~UNCHANGED client_list
  <2>1. /\ xqueue \in Seq(EventSet) /\ xqueue # <<>> /\ Head(xqueue).sent
    BY <1>4 DEF handle_unmap_notify_event, TakeEvent, TypeOK, XTypeOK
  <2>2. Head(xqueue) \in Elements(xqueue) BY <2>1, TailElements
  <2>. QED BY <2>1, <2>2 DEF NoneSent
<1>. QED BY <1>1, <1>2, <1>3, <1>4 DEF HandleEvent

LEMMA EventTagged ==
    ASSUME ClientsAssumption, TagsAssumption, TagsInv, NoneSent, TaggedInv,
           HandleEvent, UNCHANGED tvars
    PROVE  TaggedInv'
<1>1. IInv /\ Idle BY EventCalls DEF TagsInv
<1>2. \A t \in Tags : \A c \in Elements(tagged[t]) : c \in Listed \cup {Unspecified}
  BY <1>1, IdleTagged
<1>3. \A x \in Listed : x \in Listed' \/ Call("destroy_client", x) \in Elements(todo')
  BY <1>1, EventKeeps
<1>4. \A t \in Tags : \A c \in Elements(tagged[t]) : KnownIn(c, t)'
  BY <1>2, <1>3 DEF KnownIn, Leaves, Elements
<1>5. \A e \in Elements(todo') : e.proc = "tag_new_client" => e.client \in Listed'
  BY <1>1, EventCalls DEF CoreProcs
<1>6. caught' = FALSE
  BY DEF HandleEvent, handle_map_request_event, handle_destroy_notify_event,
         handle_unmap_notify_event, TakeEvent
<1>. QED BY <1>4, <1>5, <1>6 DEF TaggedInv, NewAreListed, tvars, Elements

\* A call whose work is in the calls it makes.
LEMMA CallsKeepTagged ==
    ASSUME TagsAssumption, TagsInv, TaggedInv, status = "running",
           todo # <<>>, NEW calls \in Seq(CallSet), Then(calls),
           UNCHANGED <<client_list, tagged>>,
           \A e \in Elements(calls) : e.proc # "tag_new_client",
           Head(todo).proc # "tag_remove_client",
           Calls("destroy_client") => Call("untag_client", Arg) \in Elements(calls),
           Calls("untag_client") =>
              \A t \in Elements(tags_assoc) : HasTag(Arg, t) =>
                 TagCall("tag_remove_client", Arg, t) \in Elements(calls),
           NoneElsewhere
    PROVE  TaggedInv'
<1>1. /\ Elements(todo') = Elements(calls) \cup Elements(Tail(todo))
      /\ Elements(todo) = Elements(Tail(todo)) \cup {Head(todo)}
  BY ThenElements DEF TagsInv, TagsTypeOK, TypeOK
<1>2. Listed' = Listed BY DEF Listed
<1>3. ASSUME NEW t \in Tags, NEW c \in Elements(tagged[t]), Leaves(c, t)
      PROVE  Leaves(c, t)'
  <2>1. CASE Call("destroy_client", c) \in Elements(todo)
    <3>1. Head(todo) = Call("destroy_client", c) => Calls("destroy_client") /\ Arg = c
      BY DEF Calls, Arg, Call
    <3>. QED BY <1>1, <2>1, <3>1 DEF Leaves, Elements
  <2>2. CASE Call("untag_client", c) \in Elements(todo)
    <3>1. Head(todo) = Call("untag_client", c) => Calls("untag_client") /\ Arg = c
      BY DEF Calls, Arg, Call
    <3>2. HasTag(c, t) BY DEF HasTag, Equal, Elements
    <3>3. t \in Elements(tags_assoc)
      <4>1. tagged[t] # <<>> BY NoElements
      <4>. QED BY <4>1 DEF NoneElsewhere
    <3>. QED BY <1>1, <2>2, <3>1, <3>2, <3>3 DEF Leaves, Elements
  <2>3. CASE TagCall("tag_remove_client", c, t) \in Elements(todo)
    <3>1. TagCall("tag_remove_client", c, t) # Head(todo) BY DEF TagCall
    <3>. QED BY <1>1, <2>3, <3>1 DEF Leaves, Elements
  <2>. QED BY <1>3, <2>1, <2>2, <2>3 DEF Leaves
<1>4. \A t \in Tags : \A c \in Elements(tagged[t]) : KnownIn(c, t)'
  BY <1>2, <1>3 DEF TaggedInv, KnownIn
<1>5. \A e \in Elements(todo') : e.proc = "tag_new_client" => e.client \in Listed'
  BY <1>1, <1>2 DEF TaggedInv, NewAreListed
<1>6. caught' => TagsListed' BY <1>2 DEF Then, StayCaught, TaggedInv, TagsListed, Elements
<1>. QED BY <1>4, <1>5, <1>6 DEF TaggedInv, NewAreListed, Elements

LEMMA NotOnOtherHooks ==
    ASSUME TagsAssumption, NEW e, CoreCall(e)
    PROVE  e.proc # "tag_new_client"
BY DEF CoreCall, OnHook, TagsAssumption, TagsHooked, ToSet

LEMMA NwmStepTagged ==
    ASSUME ClientsAssumption, TagsAssumption, TagsInv, NoneElsewhere, TaggedInv,
           NwmStep, UNCHANGED tvars
    PROVE  TaggedInv'
<1>1. TypeOK BY DEF TagsInv, TagsTypeOK
<1>2. CASE Crash \/ Misfit
  <2>1. UNCHANGED <<client_list, tagged>>
        /\ \/ UNCHANGED <<todo, caught>>
           \/ caught /\ todo' = <<>> /\ caught' = FALSE
    BY <1>2, BreaksOff DEF Broken, tvars
  <2>2. Listed' = Listed BY <2>1 DEF Listed
  <2>3. status = "running" BY <1>1, NwmStepCalls DEF Calls
  <2>4. CASE UNCHANGED <<todo, caught>>
    BY <2>1, <2>2, <2>3, <2>4
       DEF TaggedInv, KnownIn, Leaves, NewAreListed, TagsListed, Elements
  <2>5. CASE caught /\ todo' = <<>> /\ caught' = FALSE
    <3>1. \A t \in Tags : \A c \in Elements(tagged[t]) : KnownIn(c, t)'
      BY <2>2, <2>3, <2>5 DEF TaggedInv, TagsListed, KnownIn
    <3>2. NewAreListed' BY <2>5, NoElements DEF NewAreListed, Elements
    <3>. QED BY <2>1, <2>5, <3>1, <3>2 DEF TaggedInv, Elements
  <2>. QED BY <2>1, <2>4, <2>5
<1>3. CASE ~Crash /\ ~Misfit
  <2>1. PICK calls :
           /\ CoreCalls(calls) /\ Then(calls)
           /\ Calls("destroy_client") =>
                 \A i \in DOMAIN Hooks["destroy-client-hook"] :
                    Call(Hooks["destroy-client-hook"][i], Arg) \in Elements(calls)
    BY <1>1, <1>3, NwmStepCalls
  <2>2. PICK p \in CoreProcs : Calls(p) BY <1>1, NwmStepCalls
  <2>3. /\ todo # <<>> /\ status = "running" /\ Head(todo).proc \in CoreProcs
        /\ UNCHANGED client_list /\ UNCHANGED tagged
    BY <1>1, <2>2, NwmStepCalls DEF Calls, tvars
  <2>4. \E i \in DOMAIN Hooks["destroy-client-hook"] :
           Hooks["destroy-client-hook"][i] = "untag_client"
    BY DEF TagsAssumption, TagsHooked, ToSet
  <2>5. ~Calls("untag_client") BY <2>3 DEF Calls, CoreProcs
  <2>6. Head(todo).proc # "tag_remove_client" BY <2>3 DEF CoreProcs
  <2>7. calls \in Seq(CallSet) /\ \A e \in Elements(calls) : e.proc # "tag_new_client"
    BY <2>1, NotOnOtherHooks DEF CoreCalls
  <2>. QED BY <2>1, <2>3, <2>4, <2>5, <2>6, <2>7, CallsKeepTagged
<1>. QED BY <1>2, <1>3

LEMMA TagStepTagged ==
    ASSUME TagsAssumption, TagsInv, NoneElsewhere, TaggedInv, TagStep
    PROVE  TaggedInv'
<1>0. /\ TypeOK /\ TagsTypeOK /\ todo \in Seq(CallSet)
      /\ tagged \in [Tags -> Seq(Clients \cup {Unspecified})]
  BY DEF TagsInv, TagsTypeOK, TypeOK
<1>1. CASE status' = "dead" BY <1>1 DEF TaggedInv
<1>2. CASE status' # "dead"
  <2>1. PICK calls : TagCalls(calls) /\ Then(calls) BY <1>0, <1>2, TagStepMakes
  <2>2. /\ todo # <<>> /\ status = "running" /\ UNCHANGED client_list
        /\ calls \in Seq(CallSet) /\ \A e \in Elements(calls) : e.proc # "tag_new_client"
    BY <1>0, <2>1, TagStepMakes
       DEF TagStep, tag_new_client, untag_client, tag_remove_client, untag_client_hook,
           change_visibility, tag_switch, Calls, TagCalls, TagProcs
  <2>3. /\ Elements(todo') = Elements(calls) \cup Elements(Tail(todo))
        /\ Elements(todo) = Elements(Tail(todo)) \cup {Head(todo)}
    BY <1>0, <2>1, <2>2, ThenElements
  <2>4. Listed' = Listed BY <2>2 DEF Listed
  <2>5. NewAreListed' BY <2>2, <2>3, <2>4 DEF TaggedInv, NewAreListed, Elements
  <2>c. caught' => caught BY <2>1 DEF Then, StayCaught
  <2>6. CASE untag_client_hook \/ change_visibility \/ tag_switch
    <3>1. ~Calls("destroy_client") /\ ~Calls("untag_client") /\ UNCHANGED tagged
          /\ Head(todo).proc # "tag_remove_client"
      BY <2>6 DEF untag_client_hook, change_visibility, tag_switch, Calls, Unchanged, tvars
    <3>. QED BY <2>1, <2>2, <3>1, CallsKeepTagged
  <2>7. CASE untag_client
    <3>. DEFINE of == client_get_tag_list(Arg)
                out == [i \in 1..Len(of) |-> TagCall("tag_remove_client", Arg, of[i])]
    <3>1. Arg \in Clients BY <1>0, <2>7, TagArgs DEF untag_client
    <3>2. /\ TagCalls(out)
          /\ Elements(out) = {TagCall("tag_remove_client", Arg, t) :
                                t \in {t \in Elements(tags_assoc) : HasTag(Arg, t)}}
      BY <1>0, <3>1, UntagCalls
    <3>3. /\ Then(out) /\ UNCHANGED tagged /\ ~Calls("destroy_client")
          /\ Head(todo).proc # "tag_remove_client"
      BY <2>7 DEF untag_client, Unchanged, tvars, Calls
    <3>. HIDE DEF out
    <3>4. out \in Seq(CallSet) /\ \A e \in Elements(out) : e.proc # "tag_new_client"
      BY <3>2 DEF TagCalls, TagProcs
    <3>. QED BY <2>2, <3>2, <3>3, <3>4, CallsKeepTagged
  <2>10. ASSUME Calls("tag_new_client") \/ Calls("tag_remove_client"),
                NEW t \in Tags, NEW c, Leaves(c, t),
                TagCall("tag_remove_client", c, t) # Head(todo)
         PROVE  Leaves(c, t)'
    <3>1. \A p \in {"destroy_client", "untag_client"} : Call(p, c) # Head(todo)
      BY <2>10 DEF Call, Calls
    <3>. QED BY <2>3, <2>10, <3>1 DEF Leaves, Elements
  <2>8. CASE tag_new_client
    <3>1. Arg \in Listed /\ Arg \in Clients
      <4>1. Head(todo).proc = "tag_new_client" BY <2>8 DEF tag_new_client, Calls
      <4>. QED BY <1>0, <2>2, <2>3, <2>8, <4>1, TagArgs
           DEF TaggedInv, NewAreListed, Arg, tag_new_client
    <3>2. ASSUME NEW t \in Tags
          PROVE  Elements(tagged'[t]) \subseteq Elements(tagged[t]) \cup {Arg}
      <4>0. \/ tagged' = [u \in Tags |-> IF IsTag(u) /\ visible[u]
                                         THEN Append(tagged[u], Arg) ELSE tagged[u]]
            \/ tagged' = [tagged EXCEPT ![tags_assoc[1]] = Append(@, Arg)]
        BY <2>8 DEF tag_new_client
      <4>1. tagged'[t] = tagged[t] \/ tagged'[t] = Append(tagged[t], Arg)
        BY <1>0, <4>0
      <4>2. Elements(Append(tagged[t], Arg)) = Elements(tagged[t]) \cup {Arg}
        BY <1>0, <3>1, AppendElements
      <4>. QED BY <4>1, <4>2
    <3>3. \A t \in Tags : \A c \in Elements(tagged[t]) : Leaves(c, t) => Leaves(c, t)'
      <4>1. Calls("tag_new_client") BY <2>8 DEF tag_new_client
      <4>2. \A t, c : TagCall("tag_remove_client", c, t) # Head(todo)
        BY <4>1 DEF TagCall, Calls
      <4>. QED BY <2>10, <4>1, <4>2
    <3>4. \A t \in Tags : \A c \in Elements(tagged'[t]) : KnownIn(c, t)'
      BY <2>2, <2>4, <3>1, <3>2, <3>3 DEF TaggedInv, KnownIn
    <3>5. caught' => TagsListed'
      BY <2>2, <2>4, <2>c, <3>1, <3>2 DEF TaggedInv, TagsListed, Elements
    <3>. QED BY <2>5, <3>4, <3>5 DEF TaggedInv, Elements
  <2>9. CASE tag_remove_client
    <3>. DEFINE u == Head(todo).tag
    <3>1. /\ u \in Tags /\ Calls("tag_remove_client")
          /\ tagged' = [tagged EXCEPT ![u] = Delete(Arg, tagged[u])]
      BY <1>0, <2>9, TagArgs DEF tag_remove_client, TagRemove
    <3>2. ASSUME NEW t \in Tags, NEW c \in Elements(tagged'[t])
          PROVE  c \in Elements(tagged[t]) /\ TagCall("tag_remove_client", c, t) # Head(todo)
      <4>1. CASE t # u BY <1>0, <3>1, <3>2, <4>1 DEF TagCall
      <4>2. CASE t = u
        <5>1. c \in Elements(tagged[u]) /\ ~Equal(c, Arg)
          BY <1>0, <3>1, <3>2, <4>2, Deleted
        <5>2. c # Arg BY <5>1 DEF Equal
        <5>. QED BY <4>2, <5>1, <5>2 DEF TagCall, Arg
      <4>. QED BY <4>1, <4>2
    <3>. HIDE DEF u
    <3>4. \A t \in Tags : \A c \in Elements(tagged'[t]) : KnownIn(c, t)'
      BY <2>2, <2>4, <2>10, <3>1, <3>2 DEF TaggedInv, KnownIn
    <3>5. caught' => TagsListed'
      BY <2>2, <2>4, <2>c, <3>2 DEF TaggedInv, TagsListed, Elements
    <3>. QED BY <2>5, <3>4, <3>5 DEF TaggedInv, Elements
  <2>. QED BY <2>6, <2>7, <2>8, <2>9 DEF TagStep
<1>. QED BY <1>1, <1>2

LEMMA TagCommandTagged ==
    ASSUME TagsAssumption, TagsInv, TaggedInv, TagCommand
    PROVE  TaggedInv'
<1>0. /\ TypeOK /\ TagsTypeOK /\ NoDuplicateWindow /\ tags_assoc \in Seq(Tags)
      /\ tagged \in [Tags -> Seq(Clients \cup {Unspecified})]
  BY DEF TagsInv, TagsTypeOK, IInv
<1>. USE DEF Unchanged
<1>1. /\ Idle /\ todo = <<>> /\ Listed' = Listed
      /\ \/ status' = "dead" \/ TagCalls(todo') \/ \E t \in Tags : todo' = Switches(t)
  BY <1>0, TagCommandMakes DEF Idle, Listed
<1>2. \A t \in Tags : \A c \in Elements(tagged[t]) : c \in Listed \cup {Unspecified}
  BY <1>1, IdleTagged
<1>3. status' # "dead" => NewAreListed'
  <2>1. CASE TagCalls(todo') BY <2>1 DEF TagCalls, TagProcs, NewAreListed, Elements
  <2>2. ASSUME NEW t \in Tags, todo' = Switches(t) PROVE NewAreListed'
    BY <1>0, <2>2, SwitchesTyped DEF NewAreListed, Elements
  <2>. QED BY <1>1, <2>1, <2>2
<1>4. ASSUME \A t \in Tags : \A c \in Elements(tagged'[t]) : c \in Listed \cup {Unspecified}
      PROVE  TaggedInv'
  <2>1. \A t \in Tags : \A c \in Elements(tagged'[t]) : KnownIn(c, t)'
    BY <1>1, <1>4 DEF KnownIn
  <2>2. TagsListed' BY <1>1, <1>4 DEF TagsListed, Elements
  <2>. QED BY <1>3, <2>1, <2>2 DEF TaggedInv, Elements
<1>5. CASE UNCHANGED tagged BY <1>2, <1>4, <1>5
<1>6. ASSUME NEW t \in Tags, toggle_client_key(t) PROVE TaggedInv'
  <2>. DEFINE f == get_focus_client
  <2>1. f \in Listed \cup {Unspecified} /\ f \in Clients \cup {Unspecified}
    BY <1>0, FocusClientTyped, ListedTyped
  <2>2. \/ tagged' = [tagged EXCEPT ![t] = Delete(f, @)]
        \/ tagged' = [tagged EXCEPT ![t] = Append(@, f)]
    BY <1>6 DEF toggle_client_key, TagRemove
  <2>. HIDE DEF f
  <2>3. /\ Elements(Delete(f, tagged[t])) \subseteq Elements(tagged[t])
        /\ Elements(Append(tagged[t], f)) = Elements(tagged[t]) \cup {f}
    <3>1. tagged[t] \in Seq(Clients \cup {Unspecified}) BY <1>0
    <3>2. Elements(Append(tagged[t], f)) = Elements(tagged[t]) \cup {f}
      BY <2>1, <3>1, AppendElements
    <3>3. Elements(Delete(f, tagged[t])) \subseteq Elements(tagged[t]) BY <1>0, Deleted
    <3>. QED BY <3>2, <3>3
  <2>4. \A u \in Tags : Elements(tagged'[u]) \subseteq Elements(tagged[u]) \cup {f}
    BY <1>0, <2>2, <2>3
  <2>. QED BY <1>2, <1>4, <2>1, <2>4
<1>7. ASSUME NEW t \in Tags, create_tag(t) PROVE TaggedInv'
  <2>1. \A u \in Tags : tagged'[u] \in {tagged[u], <<>>} BY <1>0, <1>7 DEF create_tag
  <2>. QED BY <1>2, <1>4, <2>1, NoElements
<1>8. ASSUME NEW t \in Tags, destroy_tag(t) PROVE TaggedInv'
  <2>1. tags_assoc' \in Seq(Tags) BY <1>0, <1>7, <1>8, AllButOne DEF destroy_tag
  <2>2. tags_assoc' # <<>> => tags_assoc'[1] \in Tags BY <2>1, FirstTag
  <2>3. \A u \in Tags : Elements(tagged[u] \o tagged[t])
                           = Elements(tagged[u]) \cup Elements(tagged[t])
    BY <1>0, ConcatElements
  <2>4. \A u \in Tags : tagged'[u] \in {tagged[u], <<>>, tagged[u] \o tagged[t]}
    BY <1>0, <1>8, <2>2 DEF destroy_tag
  <2>. QED BY <1>2, <1>4, <2>3, <2>4, NoElements
<1>. QED BY <1>5, <1>6, <1>7, <1>8
         DEF TagCommand, toggle_visibility_key, switch_key, ToggleVisibility, tvars

LEMMA TaggedPreserved ==
    ASSUME ClientsAssumption, TagsAssumption, TagsInv, NoneSent, NoneElsewhere, TaggedInv,
           [TagsNext]_tagsVars
    PROVE  NoneElsewhere' /\ TaggedInv'
<1>1. CASE ~TagStep /\ ~TagCommand /\ UNCHANGED tvars
  <2>1. NoneElsewhere' BY <1>1 DEF tvars, NoneElsewhere, Elements
  <2>2. CASE UNCHANGED nvars
    BY <1>1, <2>1, <2>2
       DEF nvars, tvars, TaggedInv, KnownIn, Leaves, NewAreListed, TagsListed, Listed,
           Elements
  <2>3. CASE HandleEvent BY <1>1, <2>1, <2>3, EventTagged
  <2>4. CASE NwmStep BY <1>1, <2>1, <2>4, NwmStepTagged
  <2>5. CASE RunCommand \/ auto_focus_pointer
    <3>1. /\ Idle /\ Listed' = Listed
          /\ \A e \in Elements(todo') : e.proc \in CoreProcs
      BY <2>5, CommandCalls DEF Commanded, TagsInv, TagsTypeOK
    <3>2. \A t \in Tags : \A c \in Elements(tagged[t]) : c \in Listed \cup {Unspecified}
      BY <3>1, IdleTagged
    <3>3. \A e \in Elements(todo') : e.proc # "tag_new_client" BY <3>1 DEF CoreProcs
    <3>4. NewAreListed' BY <3>3 DEF NewAreListed, Elements
    <3>5. \A t \in Tags : \A c \in Elements(tagged[t]) : KnownIn(c, t)'
      BY <3>1, <3>2 DEF KnownIn
    <3>6. TagsListed' BY <1>1, <3>1, <3>2 DEF TagsListed, tvars, Elements
    <3>. QED BY <1>1, <2>1, <3>4, <3>5, <3>6 DEF TaggedInv, tvars, Elements
  <2>. QED BY <1>1, <2>1, <2>2, <2>3, <2>4, <2>5
           DEF TagsNext, ClientsAction, Next, AppAction, Dead, tagsVars, vars
<1>2. CASE TagStep BY <1>2, NoneElsewherePreserved, TagStepTagged
<1>3. CASE TagCommand BY <1>3, NoneElsewherePreserved, TagCommandTagged
<1>. QED BY <1>1, <1>2, <1>3 DEF TagsNext, ClientsAction, tagsVars

\* When no program withdraws its window, what a tag lists between two
\* handlers is managed: a destroyed client has been taken off every tag,
\* however the hooks and the removals were interleaved with the programs.
THEOREM TaggedAreManaged ==
    ASSUME "withdraw" \notin AppMoves
    PROVE  TagsSpec => []TaggedIsManaged
<1>. DEFINE Inv == NoneSent /\ NoneElsewhere /\ TaggedInv
<1>1. TagsInit => Inv
  <2>. SUFFICES ASSUME TagsInit PROVE Inv OBVIOUS
  <2>1. xqueue = <<>> /\ todo = <<>> /\ tagged = [t \in Tags |-> <<>>]
    BY DEF TagsInit, Init, XInit
  <2>. QED BY <2>1, NoElements
           DEF NoneSent, NoneElsewhere, TaggedInv, NewAreListed, TagsListed
<1>2. TagsInv /\ Inv /\ [TagsNext]_tagsVars => Inv'
  BY ClientsAssumption, TagsAssumption, UnsentPreserved, TaggedPreserved
<1>3. TagsInv /\ Inv => TaggedIsManaged
  <2>. SUFFICES ASSUME TaggedInv, Idle, NEW t \in Tags, NEW i \in DOMAIN tagged[t]
                PROVE  tagged[t][i] \in Listed \cup {Unspecified}
    BY DEF TaggedIsManaged
  <2>1. tagged[t][i] \in Elements(tagged[t]) BY DEF Elements
  <2>. QED BY <2>1, IdleTagged
<1>. HIDE DEF Inv
<1>. QED BY <1>1, <1>2, <1>3, TagsInvariant, PTL DEF TagsSpec

----------------------------------------------------------------------------
(* What the tags show stays on the screen, when only they unmap.           *)

\* A visible tag lists a client of window w.
Wanted(w) ==
    \E t \in Elements(tags_assoc) :
        visible[t] /\ \E x \in Elements(tagged[t]) \cap Clients : window[x] = w

LEMMA VisibleIsWanted ==
    ASSUME NEW c \in Clients
    PROVE  client_get_visibility(c) <=> Wanted(window[c])
<1>1. \A t : HasTag(c, t) <=> \E x \in Elements(tagged[t]) \cap Clients :
                                 window[x] = window[c]
  BY DEF HasTag, Equal, Elements
<1>. QED BY <1>1 DEF client_get_visibility, Wanted, Elements

\* A window is on the screen, or the report of its end is on its way.
InPlace(w) == Mapped(w) \/ Pending("DestroyNotify", w)
StayInPlace == \A w : InPlace(w) => InPlace(w)'
FocusMapped == xfocus # NoWindow => Mapped(xfocus)

LEMMA SameStay == UNCHANGED xvars => StayInPlace /\ (FocusMapped => FocusMapped')
BY DEF xvars, StayInPlace, InPlace, Mapped, Pending, FocusMapped

LEMMA ServerMapStay ==
    ASSUME XTypeOK, NEW w, ServerMap(w)
    PROVE  /\ StayInPlace /\ (FocusMapped => FocusMapped')
           /\ Exists(w) => Mapped(w)'
<1>1. \A v : Mapped(v) => Mapped(v)' BY DEF ServerMap, XTypeOK, Mapped
<1>2. \A v : Pending("DestroyNotify", v)' <=> Pending("DestroyNotify", v)
  BY DEF ServerMap, Pending
<1>3. Exists(w) => Mapped(w)' BY DEF ServerMap, XTypeOK, Mapped, Exists
<1>4. FocusMapped => FocusMapped' BY <1>1 DEF FocusMapped, ServerMap, Mapped
<1>. QED BY <1>1, <1>2, <1>3, <1>4 DEF StayInPlace, InPlace

LEMMA ServerFocusStay ==
    ASSUME NEW w, ServerFocus(w)
    PROVE  StayInPlace /\ (FocusMapped => FocusMapped')
<1>1. UNCHANGED <<xstate, xqueue>> /\ xfocus' \in {xfocus, w}
      /\ (xfocus' = w => Mapped(w) \/ xfocus' = xfocus)
  BY DEF ServerFocus
<1>2. \A v : Mapped(v)' <=> Mapped(v) BY <1>1 DEF Mapped
<1>3. \A v : Pending("DestroyNotify", v)' <=> Pending("DestroyNotify", v)
  BY <1>1 DEF Pending
<1>4. FocusMapped => FocusMapped' BY <1>1, <1>2 DEF FocusMapped, Mapped
<1>. QED BY <1>2, <1>3, <1>4 DEF StayInPlace, InPlace

LEMMA ServerUnmapStay ==
    ASSUME XTypeOK, NEW w, ServerUnmap(w)
    PROVE  /\ \A v : v # w /\ InPlace(v) => InPlace(v)'
           /\ FocusMapped => FocusMapped'
<1>1. \A v : v # w /\ Mapped(v) => Mapped(v)' BY DEF ServerUnmap, XTypeOK, Mapped
<1>2. \A v : Pending("DestroyNotify", v) => Pending("DestroyNotify", v)'
  BY UnmappingKinds, QueueGrows DEF ServerUnmap
<1>3. FocusMapped => FocusMapped'
  BY <1>1 DEF FocusMapped, ServerUnmap, DropFocus, Mapped
<1>. QED BY <1>1, <1>2, <1>3 DEF InPlace

LEMMA PendingGrows ==
    ASSUME Elements(xqueue) \subseteq Elements(xqueue')
    PROVE  \A v : Pending("DestroyNotify", v) => Pending("DestroyNotify", v)'
BY PendingElements

LEMMA ServerDestroyStay ==
    ASSUME XTypeOK, NEW w, ServerDestroy(w)
    PROVE  StayInPlace /\ (FocusMapped => FocusMapped')
<1>1. CASE UNCHANGED xvars BY <1>1, SameStay
<1>2. CASE Exists(w)
  <2>. DEFINE ev == Event("DestroyNotify", w, FALSE)
  <2>1. ev \in EventSet /\ ev.type = "DestroyNotify" /\ ev.window = w
    BY <1>2 DEF Event, EventSet, Exists
  <2>2. xqueue' = xqueue \o Unmapping(w) \o <<ev>> BY <1>2 DEF ServerDestroy
  <2>. HIDE DEF ev
  <2>3. Elements(xqueue') = Elements(xqueue) \cup Elements(Unmapping(w)) \cup {ev}
    BY <2>1, <2>2, UnmappingKindsThen
  <2>4. Pending("DestroyNotify", w)'
    <3>1. ev \in Elements(xqueue') BY <2>3
    <3>. QED BY <2>1, <3>1, PendingElements
  <2>5. \A v : Pending("DestroyNotify", v) => Pending("DestroyNotify", v)'
    BY <2>3, PendingGrows
  <2>6. \A v : v # w /\ Mapped(v) => Mapped(v)'
    BY <1>2 DEF ServerDestroy, XTypeOK, Mapped
  <2>7. FocusMapped => FocusMapped'
    BY <1>2, <2>6 DEF FocusMapped, ServerDestroy, DropFocus, Mapped
  <2>. QED BY <2>4, <2>5, <2>6, <2>7 DEF StayInPlace, InPlace
<1>. QED BY <1>1, <1>2 DEF ServerDestroy

LEMMA AppStay ==
    ASSUME OnlyTagsUnmap, XTypeOK, AppStep
    PROVE  StayInPlace /\ (FocusMapped => FocusMapped')
<1>1. PICK w \in Windows : \/ AppCreate(w) \/ AppMap(w) \/ AppUnmap(w)
                           \/ AppWithdraw(w) \/ AppDestroy(w) \/ AppFocus(w)
  BY DEF AppStep
<1>2. CASE AppCreate(w)
  <2>1. \A v : Mapped(v) => Mapped(v)' BY <1>2 DEF AppCreate, XTypeOK, Mapped
  <2>2. UNCHANGED <<xfocus, xqueue>> BY <1>2 DEF AppCreate
  <2>3. FocusMapped => FocusMapped' BY <2>1, <2>2 DEF FocusMapped, Mapped
  <2>. QED BY <2>1, <2>2, <2>3 DEF StayInPlace, InPlace, Pending
<1>3. CASE AppMap(w)
  <2>1. CASE w \in xoverride BY <1>3, <2>1, ServerMapStay DEF AppMap
  <2>2. CASE w \notin xoverride
    <3>. DEFINE ev == Event("MapRequest", w, FALSE)
    <3>1. ev \in EventSet BY DEF Event, EventSet
    <3>2. xqueue' = Append(xqueue, ev) /\ UNCHANGED <<xstate, xfocus>>
      BY <1>3, <2>2 DEF AppMap
    <3>. HIDE DEF ev
    <3>3. Elements(xqueue') = Elements(xqueue) \cup {ev}
      BY <3>1, <3>2, AppendElements DEF XTypeOK
    <3>4. \A v : Pending("DestroyNotify", v) => Pending("DestroyNotify", v)'
      BY <3>3, PendingGrows
    <3>. QED BY <3>2, <3>4 DEF StayInPlace, InPlace, Mapped, FocusMapped
  <2>. QED BY <2>1, <2>2
<1>4. CASE AppDestroy(w) BY <1>4, ServerDestroyStay DEF AppDestroy
<1>5. CASE AppFocus(w) BY <1>5, ServerFocusStay DEF AppFocus
<1>6. ~AppUnmap(w) /\ ~AppWithdraw(w) BY DEF OnlyTagsUnmap, AppUnmap, AppWithdraw
<1>. QED BY <1>1, <1>2, <1>3, <1>4, <1>5, <1>6

\* A request of the window manager moves only the window of unmap_client.
LEMMA NwmStepStay ==
    ASSUME XTypeOK, NwmStep
    PROVE  /\ \A v : InPlace(v) /\ (unmap_client => v # window[Arg]) => InPlace(v)'
           /\ FocusMapped => FocusMapped'
<1>1. CASE unmap_client BY <1>1, ServerUnmapStay DEF unmap_client
<1>2. CASE map_client BY <1>2, ServerMapStay DEF map_client, StayInPlace
<1>3. CASE kill_client BY <1>3, ServerDestroyStay DEF kill_client, StayInPlace
<1>4. CASE set_focus_client BY <1>4, ServerFocusStay DEF set_focus_client, StayInPlace
<1>5. CASE UNCHANGED xvars BY <1>5, SameStay DEF StayInPlace
<1>. QED BY <1>1, <1>2, <1>3, <1>4, <1>5
         DEF NwmStep, destroy_client, free, focus_client, focus_next_client, auto_tile,
             focus_next, focus_prev, FocusNeighbour, Crash

\* Taking an event off the queue moves no window; the end of a window is
\* forgotten only by its handler.
LEMMA EventStay ==
    ASSUME XTypeOK, NEW type, TakeEvent(type)
    PROVE  /\ \A v : InPlace(v) /\ (type = "DestroyNotify" => v # EventWindow)
                     => InPlace(v)'
           /\ FocusMapped => FocusMapped'
<1>1. xqueue \in Seq(EventSet) /\ xqueue # <<>> /\ xqueue' = Tail(xqueue)
      /\ Head(xqueue).type = type /\ UNCHANGED <<xstate, xfocus>>
  BY DEF TakeEvent, XTypeOK
<1>2. Elements(xqueue) = Elements(xqueue') \cup {Head(xqueue)} BY <1>1, TailElements
<1>3. ASSUME NEW v, Pending("DestroyNotify", v), type = "DestroyNotify" => v # EventWindow
      PROVE  Pending("DestroyNotify", v)'
  <2>1. PICK e \in Elements(xqueue) : e.type = "DestroyNotify" /\ e.window = v
    BY <1>3, PendingElements
  <2>2. e # Head(xqueue) BY <1>1, <1>3, <2>1 DEF EventWindow
  <2>. QED BY <1>2, <2>1, <2>2, PendingElements
<1>4. FocusMapped => FocusMapped' BY <1>1 DEF FocusMapped, Mapped
<1>. QED BY <1>1, <1>3, <1>4 DEF InPlace, Mapped

\* A window is in place, or a call that sees to it is due.
Coming(w) ==
    \E e \in Elements(todo) : /\ e.proc \in {"map_client", "change_visibility"}
                              /\ e.client \in Clients /\ window[e.client] = w

ShownInv == \A w : Managed(w) /\ Wanted(w) => InPlace(w) \/ Coming(w)

\* The calls unmap and free nothing.
Harmless(calls) == \A e \in Elements(calls) : e.proc \notin {"unmap_client", "free"}

\* Unmapping comes first of all, and is for a client without a visible tag.
UnmapNext ==
    todo # <<>> =>
        /\ Harmless(Tail(todo)) /\ Head(todo).proc # "free"
        /\ Head(todo).proc = "unmap_client" => ~Wanted(window[Arg])

\* A client gets its tags before manage_window and its caller map it.
NewMappedLast ==
    \A e \in Elements(todo) :
        e.proc = "tag_new_client" => todo[Len(todo)] = Call("map_client", e.client)

VisibleInv == status = "running" => ShownInv /\ UnmapNext /\ NewMappedLast /\ FocusMapped

LEMMA HarmlessTodo ==
    ASSUME todo' \in Seq(CallSet), Harmless(todo')
    PROVE  UnmapNext'
<1>1. CASE todo' = <<>> BY <1>1 DEF UnmapNext
<1>2. CASE todo' # <<>>
  <2>1. Elements(todo') = Elements(Tail(todo')) \cup {Head(todo')} BY <1>2, TailElements
  <2>. QED BY <2>1 DEF UnmapNext, Harmless, Elements
<1>. QED BY <1>1, <1>2

LEMMA HarmlessThen ==
    ASSUME UnmapNext, todo \in Seq(CallSet), todo # <<>>,
           NEW calls \in Seq(CallSet), Harmless(calls), Then(calls)
    PROVE  UnmapNext'
<1>1. Elements(todo') = Elements(calls) \cup Elements(Tail(todo)) BY ThenElements
<1>2. todo' \in Seq(CallSet) BY HeadTailProperties, ConcatProperties DEF Then
<1>3. Harmless(todo') BY <1>1 DEF UnmapNext, Harmless
<1>. QED BY <1>2, <1>3, HarmlessTodo

LEMMA UnmapThen ==
    ASSUME UnmapNext, todo \in Seq(CallSet), todo # <<>>,
           NEW c \in Clients, Then(<<Call("unmap_client", c)>>), ~Wanted(window[c])'
    PROVE  UnmapNext'
<1>. DEFINE k == Call("unmap_client", c)
<1>1. k \in CallSet /\ k.proc = "unmap_client" /\ k.client = c
  BY DEF Call, CallSet, Procs, CoreProcs
<1>2. Tail(todo) \in Seq(CallSet) BY HeadTailProperties
<1>3. todo' = <<k>> \o Tail(todo) BY DEF Then
<1>. HIDE DEF k
<1>4. Head(todo') = k /\ Tail(todo') = Tail(todo) BY <1>1, <1>2, <1>3
<1>5. Harmless(Tail(todo')) BY <1>4 DEF UnmapNext
<1>. QED BY <1>1, <1>4, <1>5 DEF UnmapNext, Harmless, Elements, Arg

LEMMA LastStays ==
    ASSUME NewMappedLast, todo \in Seq(CallSet), todo # <<>>,
           NEW calls \in Seq(CallSet), Then(calls),
           \A e \in Elements(calls) : e.proc # "tag_new_client"
    PROVE  NewMappedLast'
<1>. DEFINE rest == Tail(todo)
<1>1. /\ rest \in Seq(CallSet) /\ Len(rest) = Len(todo) - 1
      /\ \A i \in 1..Len(rest) : rest[i] = todo[i + 1]
  BY HeadTailProperties
<1>2. /\ Elements(todo') = Elements(calls) \cup Elements(rest)
      /\ Elements(todo) = Elements(rest) \cup {Head(todo)}
  BY ThenElements
<1>3. todo' = calls \o rest BY DEF Then
<1>. HIDE DEF rest
<1>4. /\ Len(todo') = Len(calls) + Len(rest)
      /\ \A i \in 1..(Len(calls) + Len(rest)) :
            todo'[i] = IF i <= Len(calls) THEN calls[i] ELSE rest[i - Len(calls)]
  BY <1>1, <1>3, ConcatProperties
<1>5. ASSUME rest # <<>> PROVE todo'[Len(todo')] = todo[Len(todo)]
  <2>1. Len(rest) \in Nat \ {0} /\ Len(calls) \in Nat /\ Len(todo) \in Nat
    BY <1>1, <1>5, LenProperties, EmptySeq
  <2>2. ASSUME NEW m \in Nat, NEW n \in Nat \ {0}
        PROVE  m + n \in 1..(m + n) /\ ~(m + n <= m) /\ (m + n) - m = n /\ n \in 1..n
    OBVIOUS
  <2>3. todo'[Len(todo')] = rest[Len(rest)] BY <1>4, <2>1, <2>2
  <2>4. rest[Len(rest)] = todo[Len(rest) + 1] /\ Len(rest) + 1 = Len(todo)
    BY <1>1, <2>1
  <2>. QED BY <2>3, <2>4
<1>6. rest = <<>> => Elements(rest) = {} BY NoElements
<1>7. \A e \in Elements(todo') :
         e.proc = "tag_new_client" => todo'[Len(todo')] = Call("map_client", e.client)
  BY <1>2, <1>5, <1>6 DEF NewMappedLast
<1>. QED BY <1>7 DEF NewMappedLast, Elements, Call

\* With another call at the head, what is coming is still to come.
LEMMA ComingStays ==
    ASSUME todo \in Seq(CallSet), todo # <<>>, NEW calls \in Seq(CallSet), Then(calls),
           UNCHANGED window, NEW w, Coming(w),
           Head(todo).proc \in {"map_client", "change_visibility"} => window[Arg] # w
    PROVE  Coming(w)'
<1>1. /\ Elements(todo') = Elements(calls) \cup Elements(Tail(todo))
      /\ Elements(todo) = Elements(Tail(todo)) \cup {Head(todo)}
  BY ThenElements
<1>2. PICK e \in Elements(todo) : /\ e.proc \in {"map_client", "change_visibility"}
                                  /\ e.client \in Clients /\ window[e.client] = w
  BY DEF Coming
<1>3. e # Head(todo) BY <1>2 DEF Arg
<1>4. e \in Elements(todo') BY <1>1, <1>2, <1>3
<1>. QED BY <1>2, <1>4 DEF Coming, Elements

LEMMA SameWanted ==
    ASSUME UNCHANGED <<tvars, window>>
    PROVE  \A w : Wanted(w)' <=> Wanted(w)
BY DEF tvars, Wanted, Elements

LEMMA CoreHarmless ==
    ASSUME ClientsAssumption, OnlyTagsUnmap, NEW calls, CoreCalls(calls)
    PROVE  Harmless(calls)
<1>1. ASSUME NEW hook \in HookNames, NEW i \in DOMAIN Hooks[hook]
      PROVE  Hooks[hook][i] \notin {"unmap_client", "free"}
  <2>1. Hooks[hook] \in Seq(Procs \ {"free"}) BY DEF ClientsAssumption
  <2>2. Hooks[hook][i] # "free" BY <2>1, LenProperties, ElementOfSeq
  <2>. QED BY <2>2 DEF OnlyTagsUnmap, ToSet
<1>. QED BY <1>1 DEF CoreCalls, CoreCall, OnHook, Harmless

LEMMA NwmStepShown ==
    ASSUME ClientsAssumption, TagsAssumption, OnlyTagsUnmap, TagsInv, VisibleInv,
           TilesFit, NwmStep, UNCHANGED tvars
    PROVE  VisibleInv'
<1>a. ~Misfit BY DEF Misfit, auto_tile, TilesFit
<1>0. TypeOK /\ XTypeOK /\ todo \in Seq(CallSet) /\ NoZombieClient
  BY DEF TagsInv, IInv, TypeOK
<1>1. CASE Crash BY <1>1 DEF Crash, VisibleInv
<1>2. CASE ~Crash
  <2>1. PICK calls : CoreCalls(calls) /\ Then(calls) BY <1>a, <1>0, <1>2, NwmStepCalls
  <2>2. PICK p \in CoreProcs : Calls(p) BY <1>0, NwmStepCalls
  <2>3. /\ todo # <<>> /\ status = "running" /\ Head(todo).proc \in CoreProcs
        /\ UNCHANGED client_list
    BY <1>0, <2>2, NwmStepCalls DEF Calls
  <2>4. ShownInv /\ UnmapNext /\ NewMappedLast /\ FocusMapped BY <2>3 DEF VisibleInv
  <2>5. calls \in Seq(CallSet) /\ Harmless(calls)
        /\ \A e \in Elements(calls) : e.proc # "tag_new_client"
    BY <2>1, CoreHarmless, NotOnOtherHooks DEF CoreCalls
  <2>6. UNCHANGED window
    <3>1. ~free BY <2>3, <2>4 DEF free, Calls, UnmapNext
    <3>. QED BY <3>1
             DEF NwmStep, map_client, unmap_client, destroy_client, kill_client,
                 set_focus_client, focus_client, focus_next_client, auto_tile,
                 focus_next, focus_prev, FocusNeighbour, Crash
  <2>7. UnmapNext' BY <1>0, <2>1, <2>3, <2>4, <2>5, HarmlessThen
  <2>8. NewMappedLast' BY <1>0, <2>1, <2>3, <2>4, <2>5, LastStays
  <2>9. FocusMapped' BY <1>0, <2>4, NwmStepStay
  <2>10. ASSUME NEW w, Managed(w), Wanted(w) PROVE InPlace(w)' \/ Coming(w)'
    <3>1. CASE InPlace(w)
      <4>1. unmap_client => w # window[Arg]
        BY <1>0, <2>3, <2>4, <2>10 DEF UnmapNext, unmap_client, Calls
      <4>. QED BY <1>0, <3>1, <4>1, NwmStepStay
    <3>2. CASE map_client /\ window[Arg] = w
      <4>1. Exists(w) \/ Pending("DestroyNotify", w)
        BY <1>0, <2>10 DEF NoZombieClient, Managed
      <4>2. Exists(w) => Mapped(w)'
        BY <1>0, <3>2, ServerMapStay DEF map_client
      <4>3. ~unmap_client BY <3>2 DEF map_client, unmap_client, Calls
      <4>4. Pending("DestroyNotify", w) => InPlace(w)'
        BY <1>0, <4>3, NwmStepStay DEF InPlace
      <4>. QED BY <4>1, <4>2, <4>4 DEF InPlace
    <3>3. CASE Coming(w) /\ ~(map_client /\ window[Arg] = w)
      <4>1. Head(todo).proc # "change_visibility" BY <2>3 DEF CoreProcs
      <4>2. Head(todo).proc = "map_client" => map_client
        BY DEF NwmStep, unmap_client, destroy_client, kill_client, free,
               set_focus_client, focus_client, focus_next_client, auto_tile,
               focus_next, focus_prev, FocusNeighbour, Calls
      <4>3. Head(todo).proc \in {"map_client", "change_visibility"} => window[Arg] # w
        BY <3>3, <4>1, <4>2
      <4>. QED BY <1>0, <2>1, <2>3, <2>5, <2>6, <3>3, <4>3, ComingStays
    <3>. QED BY <2>4, <2>10, <3>1, <3>2, <3>3 DEF ShownInv
  <2>11. ShownInv'
    <3>1. \A w : Wanted(w)' <=> Wanted(w) BY <2>6, SameWanted
    <3>2. \A w : Managed(w)' <=> Managed(w) BY <2>3, <2>6 DEF Managed
    <3>. QED BY <2>10, <3>1, <3>2 DEF ShownInv
  <2>. QED BY <2>7, <2>8, <2>9, <2>11 DEF VisibleInv
<1>. QED BY <1>1, <1>2

LEMMA AppShown ==
    ASSUME OnlyTagsUnmap, TagsInv, VisibleInv, AppAction, UNCHANGED tvars
    PROVE  VisibleInv'
<1>1. XTypeOK BY DEF TagsInv, TagsTypeOK, TypeOK
<1>2. StayInPlace /\ (FocusMapped => FocusMapped') BY <1>1, AppStay DEF AppAction
<1>3. UNCHANGED <<client_list, window, todo, status>> BY DEF AppAction, nvars
<1>4. \A w : Wanted(w)' <=> Wanted(w) BY <1>3, SameWanted
<1>5. \A w : (Managed(w)' <=> Managed(w)) /\ (Coming(w)' <=> Coming(w))
  BY <1>3 DEF Managed, Coming, Elements
<1>6. ShownInv => ShownInv' BY <1>2, <1>4, <1>5 DEF ShownInv, StayInPlace
<1>7. UnmapNext => UnmapNext'
  <2>1. Wanted(window[Arg])' <=> Wanted(window[Arg])
    BY <1>3 DEF Wanted, AppAction, tvars, Elements, Arg
  <2>. QED BY <1>3, <2>1 DEF UnmapNext, Harmless, Elements
<1>8. NewMappedLast => NewMappedLast' BY <1>3 DEF NewMappedLast, Elements, Call
<1>. QED BY <1>2, <1>3, <1>6, <1>7, <1>8 DEF VisibleInv

\* With nothing due, what the tags show is in place.
LEMMA IdleShown ==
    ASSUME VisibleInv, Idle
    PROVE  /\ \A w : Managed(w) /\ Wanted(w) => InPlace(w)
           /\ FocusMapped
BY NoElements DEF VisibleInv, Idle, ShownInv, Coming

\* A step with no list entry or tag changed, from which no tags are given.
LEMMA StartShown ==
    ASSUME todo' \in Seq(CallSet), Harmless(todo'),
           \A e \in Elements(todo') : e.proc # "tag_new_client",
           \A w : Managed(w)' /\ Wanted(w)' => InPlace(w)' \/ Coming(w)',
           FocusMapped'
    PROVE  VisibleInv'
<1>1. UnmapNext' BY HarmlessTodo
<1>2. NewMappedLast' BY DEF NewMappedLast, Elements
<1>3. ShownInv' BY DEF ShownInv
<1>. QED BY <1>1, <1>2, <1>3 DEF VisibleInv

\* manage_window: what it calls first is the hook, and last map_client.
LEMMA ManageLast ==
    ASSUME ClientsAssumption, NEW w, NEW c \in Clients, manage_window(c, w)
    PROVE  todo'[Len(todo')] = Call("map_client", c)
<1>. DEFINE hook == run_hook("create-client-hook", c)
            m == Call("map_client", c)
            mm == <<m, m>>
<1>1. hook \in Seq(CallSet) BY RunHookTyped DEF HookNames
<1>2. m \in CallSet BY DEF Call, CallSet, Procs, CoreProcs
<1>3. todo' = hook \o mm BY DEF manage_window
<1>4. mm \in Seq(CallSet) /\ Len(mm) = 2 /\ mm[2] = m
  <2>. HIDE DEF m
  <2>. QED BY <1>2
<1>. HIDE DEF hook, mm
<1>5. /\ Len(todo') = Len(hook) + Len(mm)
      /\ \A i \in 1..(Len(hook) + Len(mm)) :
            todo'[i] = IF i <= Len(hook) THEN hook[i] ELSE mm[i - Len(hook)]
  BY <1>1, <1>3, <1>4, ConcatProperties
<1>6. Len(hook) \in Nat BY <1>1, LenProperties
<1>7. \A n \in Nat : n + 2 \in 1..(n + 2) /\ ~(n + 2 <= n) /\ (n + 2) - n = 2 OBVIOUS
<1>. QED BY <1>4, <1>5, <1>6, <1>7

LEMMA ManageShown ==
    ASSUME ClientsAssumption, TagsAssumption, OnlyTagsUnmap, TagsInv, NoneElsewhere,
           TaggedInv, VisibleInv, Idle, TakeEvent("MapRequest"), UNCHANGED tvars,
           NEW c \in Clients \ Listed, manage_window(c, EventWindow), IInv'
    PROVE  VisibleInv'
<1>0. IInv /\ TypeOK /\ XTypeOK /\ window \in [Clients -> Windows \cup {NoWindow}]
      /\ EventWindow \in Windows
  BY EventTaken DEF TagsInv, IInv, TypeOK
<1>1. /\ Listed' = Listed \cup {c}
      /\ Elements(todo') = Elements(run_hook("create-client-hook", c))
                           \cup {Call("map_client", c)}
      /\ \A e \in Elements(todo') : e.client = c
  BY <1>0, ManageCalls
<1>2. window' = [window EXCEPT ![c] = EventWindow] BY DEF manage_window
<1>3. todo' \in Seq(CallSet) BY DEF IInv, TypeOK
<1>4. \A e \in Elements(run_hook("create-client-hook", c)) :
         e.proc \notin {"unmap_client", "free"}
  <2>1. Hooks["create-client-hook"] \in Seq(Procs \ {"free"})
    BY DEF ClientsAssumption, HookNames
  <2>2. \A i \in DOMAIN Hooks["create-client-hook"] :
           Hooks["create-client-hook"][i] \notin {"unmap_client", "free"}
    BY <2>1, LenProperties, ElementOfSeq DEF OnlyTagsUnmap, HookNames, ToSet
  <2>. QED BY <2>2, HookElements DEF HookNames
<1>5. Harmless(todo') BY <1>1, <1>4 DEF Harmless, Call
<1>6. UnmapNext' BY <1>3, <1>5, HarmlessTodo
<1>7. NewMappedLast'
  <2>1. \A e \in Elements(todo') : todo'[Len(todo')] = Call("map_client", e.client)
    BY <1>1, ManageLast
  <2>. QED BY <2>1 DEF NewMappedLast, Elements, Call
<1>8. FocusMapped' BY <1>0, IdleShown, EventStay
<1>9. \A v : Wanted(v)' <=> Wanted(v)
  <2>1. \A t \in Elements(tags_assoc) : t \in Tags
    BY LenProperties, ElementOfSeq DEF TagsInv, TagsTypeOK, Elements
  <2>2. \A t \in Elements(tags_assoc) : \A x \in Elements(tagged[t]) \cap Clients :
           x # c /\ window'[x] = window[x]
    BY <1>0, <1>2, <2>1, IdleTagged, ClientsAssumption DEF ClientsAssumption
  <2>3. \A t \in Elements(tags_assoc) : \A v :
           (\E x \in Elements(tagged[t]) \cap Clients : window'[x] = v)
           <=> (\E x \in Elements(tagged[t]) \cap Clients : window[x] = v)
    BY <2>2
  <2>4. \A v : Wanted(v)' <=> \E t \in Elements(tags_assoc) :
           visible[t] /\ \E x \in Elements(tagged[t]) \cap Clients : window'[x] = v
    BY DEF tvars, Wanted, Elements
  <2>. DEFINE now(t, v) == \E x \in Elements(tagged[t]) \cap Clients : window[x] = v
              then(t, v) == \E x \in Elements(tagged[t]) \cap Clients : window'[x] = v
  <2>5. \A t \in Elements(tags_assoc) : \A v : then(t, v) <=> now(t, v) BY <2>3
  <2>6. /\ \A v : Wanted(v)' <=> \E t \in Elements(tags_assoc) : visible[t] /\ then(t, v)
        /\ \A v : Wanted(v) <=> \E t \in Elements(tags_assoc) : visible[t] /\ now(t, v)
    BY <2>4 DEF Wanted
  <2>. HIDE DEF now, then
  <2>. QED BY <2>5, <2>6
<1>10. \A v : Managed(v)' => Managed(v) \/ v = EventWindow
  <2>1. \A v : Managed(v)' <=> \E e \in Listed' : window'[e] = v BY DEF Managed, Listed
  <2>2. \A v : Managed(v) <=> \E e \in Listed : window[e] = v BY DEF Managed, Listed
  <2>3. Listed \subseteq Clients BY <1>0, ListedTyped
  <2>. QED BY <1>0, <1>1, <1>2, <2>1, <2>2, <2>3
<1>11. ASSUME NEW v, v = EventWindow PROVE Coming(v)'
  <2>1. /\ Call("map_client", c) \in Elements(todo')
        /\ Call("map_client", c).proc = "map_client"
        /\ Call("map_client", c).client = c /\ window'[c] = EventWindow
    BY <1>0, <1>1, <1>2 DEF Call
  <2>2. \E e \in Elements(todo') :
           /\ e.proc \in {"map_client", "change_visibility"}
           /\ e.client \in Clients /\ window'[e.client] = EventWindow
    BY <2>1
  <2>. QED BY <1>11, <2>2 DEF Coming, Elements
<1>12. ASSUME NEW v, Managed(v)', Wanted(v)' PROVE InPlace(v)' \/ Coming(v)'
  <2>1. CASE Managed(v)
    <3>1. InPlace(v) BY <1>9, <1>12, <2>1, IdleShown
    <3>. QED BY <1>0, <3>1, EventStay
  <2>2. CASE v = EventWindow BY <1>11, <2>2
  <2>. QED BY <1>10, <1>12, <2>1, <2>2
<1>13. ShownInv' BY <1>12 DEF ShownInv
<1>. QED BY <1>6, <1>7, <1>8, <1>13 DEF VisibleInv

\* The focused client's window is on the screen.
LEMMA FocusClientMapped ==
    ASSUME TypeOK, NoDuplicateWindow, NoZombieClient, FocusMapped,
           get_focus_client # Unspecified
    PROVE  get_focus_client \in Listed /\ Mapped(window[get_focus_client])
<1>1. Managed(xfocus) BY DEF get_focus_client
<1>. DEFINE k == CHOOSE i \in DOMAIN client_list : Finds(xfocus, i)
<1>2. k \in DOMAIN client_list /\ Finds(xfocus, k) BY <1>1, FoundWhenManaged
<1>3. get_focus_client = client_list[k] BY <1>1 DEF get_focus_client
<1>. HIDE DEF k
<1>4. window[client_list[k]] = xfocus BY <1>2 DEF Finds
<1>5. xfocus \in Windows BY <1>2, <1>4, ClientsNoticed
<1>6. xfocus # NoWindow BY <1>5, XServerAssumption DEF XServerAssumption
<1>. QED BY <1>2, <1>3, <1>4, <1>6 DEF FocusMapped, Listed

\* The window of an unlinked client is not managed through another.
LEMMA UnlinkedGone ==
    ASSUME TypeOK, NoDuplicateWindow, NEW i \in DOMAIN client_list,
           Finds(EventWindow, i), Unlink(i)
    PROVE  \A w : Managed(w)' => Managed(w) /\ w # EventWindow
<1>1. /\ client_list \in Seq(Clients) /\ Len(client_list) \in Nat
      /\ DOMAIN client_list = 1..Len(client_list)
  BY LenProperties DEF TypeOK
<1>2. /\ DOMAIN client_list' = 1..(Len(client_list) - 1)
      /\ \A j \in 1..(Len(client_list) - 1) :
            client_list'[j] = IF j < i THEN client_list[j] ELSE client_list[j + 1]
  BY <1>1, RemoveAtProperties DEF Unlink
<1>3. ASSUME NEW j \in DOMAIN client_list'
      PROVE  \E k \in DOMAIN client_list : k # i /\ client_list'[j] = client_list[k]
  <2>1. CASE j < i BY <1>1, <1>2, <2>1
  <2>2. CASE ~(j < i)
    <3>1. j + 1 \in DOMAIN client_list /\ j + 1 # i /\ client_list'[j] = client_list[j + 1]
      BY <1>1, <1>2, <2>2
    <3>. QED BY <3>1
  <2>. QED BY <2>1, <2>2
<1>4. window' = window /\ window[client_list[i]] = EventWindow BY DEF Unlink, Finds
<1>. QED BY <1>3, <1>4 DEF Managed, NoDuplicateWindow

LEMMA ManagedListed == \A w : (Managed(w) <=> \E c \in Listed : window[c] = w)
                              /\ (Managed(w)' <=> \E c \in Listed' : window'[c] = w)
BY DEF Managed, Listed

LEMMA EventShown ==
    ASSUME ClientsAssumption, TagsAssumption, OnlyTagsUnmap, TagsInv, NoneSent,
           NoneElsewhere, TaggedInv, VisibleInv, HandleEvent, UNCHANGED tvars
    PROVE  VisibleInv'
<1>0. IInv /\ TypeOK /\ XTypeOK /\ IInv' /\ Idle /\ todo = <<>>
  BY HandleEventPreserves, EventCalls DEF TagsInv, IInv, TypeOK, Idle
<1>1. todo' \in Seq(CallSet) BY <1>0 DEF IInv, TypeOK
<1>2. ASSUME NEW type, TakeEvent(type), UNCHANGED window,
             \A w : Managed(w)' => Managed(w) /\ (type = "DestroyNotify" => w # EventWindow),
             \A e \in Elements(todo') : e.proc \in {"map_client", "destroy_client"}
      PROVE  VisibleInv'
  <2>1. \A w : Wanted(w)' <=> Wanted(w) BY <1>2, SameWanted
  <2>2. \A w : Managed(w)' /\ Wanted(w)' => InPlace(w)'
    BY <1>0, <1>2, <2>1, IdleShown, EventStay
  <2>3. FocusMapped' BY <1>0, <1>2, IdleShown, EventStay
  <2>4. Harmless(todo') BY <1>2 DEF Harmless
  <2>. QED BY <1>1, <1>2, <2>2, <2>3, <2>4, StartShown
<1>3. UNCHANGED <<client_list, window>> => \A w : Managed(w)' => Managed(w)
  BY DEF Managed
<1>4. \A c : /\ todo' = <<Call("map_client", c)>> =>
                   \A e \in Elements(todo') : e.proc \in {"map_client", "destroy_client"}
             /\ todo' = <<Call("destroy_client", c)>> =>
                   \A e \in Elements(todo') : e.proc \in {"map_client", "destroy_client"}
  BY OneCall DEF Call
<1>5. UNCHANGED todo => \A e \in Elements(todo') : e.proc \in {"map_client", "destroy_client"}
  BY <1>0, NoElements
<1>6. CASE handle_map_request_event
  <2>1. TakeEvent("MapRequest") BY <1>6 DEF handle_map_request_event
  <2>2. CASE \E c \in Clients \ Listed : manage_window(c, EventWindow)
    BY <1>0, <2>1, <2>2, ManageShown
  <2>3. CASE ~\E c \in Clients \ Listed : manage_window(c, EventWindow)
    BY <1>2, <1>3, <1>4, <1>5, <1>6, <2>1, <2>3 DEF handle_map_request_event
  <2>. QED BY <1>6, <2>2, <2>3 DEF handle_map_request_event
<1>7. CASE handle_destroy_notify_event
  <2>1. TakeEvent("DestroyNotify") BY <1>7 DEF handle_destroy_notify_event
  <2>2. CASE ~Managed(EventWindow) /\ UNCHANGED <<client_list, window, todo>>
    BY <1>2, <1>3, <1>5, <2>1, <2>2
  <2>3. ASSUME NEW i \in DOMAIN client_list, Finds(EventWindow, i), Unlink(i),
               todo' = <<Call("destroy_client", client_list[i])>>
        PROVE  VisibleInv'
    <3>1. \A w : Managed(w)' => Managed(w) /\ w # EventWindow
      BY <1>0, <2>3, UnlinkedGone DEF IInv
    <3>. QED BY <1>2, <1>4, <2>1, <2>3, <3>1 DEF Unlink
  <2>. QED BY <1>7, <2>2, <2>3 DEF handle_destroy_notify_event
<1>8. CASE handle_unmap_notify_event
  <2>1. TakeEvent("UnmapNotify") BY <1>8 DEF handle_unmap_notify_event
  <2>2. ~Head(xqueue).sent
    <3>1. xqueue \in Seq(EventSet) /\ xqueue # <<>>
      BY <1>0, <2>1 DEF TakeEvent, XTypeOK
    <3>2. Head(xqueue) \in Elements(xqueue) BY <3>1, TailElements
    <3>. QED BY <3>2 DEF NoneSent
  <2>3. UNCHANGED <<client_list, window, todo>>
    BY <1>8, <2>2 DEF handle_unmap_notify_event
  <2>. QED BY <1>2, <1>3, <1>5, <2>1, <2>3
<1>. QED BY <1>6, <1>7, <1>8 DEF HandleEvent

LEMMA CommandShown ==
    ASSUME ClientsAssumption, OnlyTagsUnmap, TagsInv, VisibleInv,
           RunCommand \/ auto_focus_pointer, UNCHANGED tvars
    PROVE  VisibleInv'
<1>0. IInv /\ TypeOK /\ XTypeOK /\ window \in [Clients -> Windows \cup {NoWindow}]
      /\ Listed \subseteq Clients
  BY ListedTyped DEF TagsInv, IInv, TypeOK
<1>1. /\ Idle /\ Listed' = Listed /\ UNCHANGED xvars
      /\ \A e \in Elements(todo') : Commanded(e)
  BY <1>0, CommandCalls
     DEF RunCommand, ClientCommand, FocusCommand, close, client_list_reverse, swap_master,
         client_list_swap, Raise, Crash, auto_focus_pointer
<1>2. IInv' BY <1>0, RunCommandPreserves, PointerPreserves
<1>3. todo' \in Seq(CallSet) BY <1>2 DEF IInv, TypeOK
<1>4. Harmless(todo') /\ \A e \in Elements(todo') : e.proc # "tag_new_client"
  BY <1>1 DEF Commanded, Harmless, OnlyTagsUnmap, CoreProcs
<1>5. StayInPlace /\ FocusMapped' BY <1>1, IdleShown, SameStay
<1>6. CASE UNCHANGED window
  <2>1. \A w : Managed(w)' <=> Managed(w) BY <1>1, <1>6, ManagedListed
  <2>2. \A w : Wanted(w)' <=> Wanted(w) BY <1>6, SameWanted
  <2>3. \A w : Managed(w)' /\ Wanted(w)' => InPlace(w)'
    BY <1>1, <1>5, <2>1, <2>2, IdleShown DEF StayInPlace
  <2>. QED BY <1>3, <1>4, <1>5, <2>3, StartShown
<1>7. ASSUME NEW c \in Listed, NEW d \in Listed, Mapped(window[c]), Mapped(window[d]),
             window' = [window EXCEPT ![c] = window[d], ![d] = window[c]]
      PROVE  VisibleInv'
  <2>1. \A x \in Clients : \/ window'[x] = window[x]
                           \/ window'[x] \in {window[c], window[d]}
    BY <1>0, <1>7
  <2>2. ASSUME NEW w, Managed(w)', Wanted(w)', w \notin {window[c], window[d]}
        PROVE  Managed(w) /\ Wanted(w)
    <3>1. Managed(w) BY <1>0, <1>1, <2>1, <2>2, ManagedListed
    <3>2. Wanted(w) BY <2>1, <2>2 DEF Wanted, Elements, tvars
    <3>. QED BY <3>1, <3>2
  <2>3. InPlace(window[c]) /\ InPlace(window[d]) BY <1>7 DEF InPlace
  <2>4. \A w : Managed(w)' /\ Wanted(w)' => InPlace(w)
    BY <1>1, <2>2, <2>3, IdleShown
  <2>5. \A w : Managed(w)' /\ Wanted(w)' => InPlace(w)' BY <1>5, <2>4 DEF StayInPlace
  <2>. QED BY <1>3, <1>4, <1>5, <2>5, StartShown
<1>8. CASE swap_master /\ ~UNCHANGED window
  <2>1. \A i \in VisibleAt : client_list[i] \in Listed /\ Mapped(window[client_list[i]])
    BY DEF VisibleAt, Listed
  <2>2. get_focus_client # Unspecified =>
           get_focus_client \in Listed /\ Mapped(window[get_focus_client])
    BY <1>0, <1>1, FocusClientMapped, IdleShown DEF IInv
  <2>3. \E c, d \in Listed : /\ Mapped(window[c]) /\ Mapped(window[d])
                             /\ window' = [window EXCEPT ![c] = window[d], ![d] = window[c]]
    BY <1>8, <2>1, <2>2 DEF swap_master, client_list_swap, Raise, Crash
  <2>. QED BY <1>7, <2>3
<1>9. CASE UNCHANGED window \/ swap_master BY <1>6, <1>8, <1>9
<1>. QED BY <1>9
     DEF RunCommand, ClientCommand, FocusCommand, close, client_list_reverse,
         Crash, auto_focus_pointer

\* How what the tags show can change: by the clients of S, or not beyond what
\* they showed.
LEMMA WantedFrom ==
    ASSUME UNCHANGED window, NEW S,
           \A t \in Elements(tags_assoc') : visible'[t] =>
              \A x \in Elements(tagged'[t]) \cap Clients : x \in S \/ Wanted(window[x])
    PROVE  \A w : Wanted(w)' => Wanted(w) \/ \E x \in S \cap Clients : window[x] = w
<1>. SUFFICES ASSUME NEW w, Wanted(w)'
              PROVE  Wanted(w) \/ \E x \in S \cap Clients : window[x] = w
  OBVIOUS
<1>1. PICK t \in Elements(tags_assoc') :
         visible'[t] /\ \E x \in Elements(tagged'[t]) \cap Clients : window[x] = w
  BY DEF Wanted, Elements
<1>. QED BY <1>1

LEMMA ShowsWanted ==
    ASSUME NEW t \in Elements(tags_assoc), visible[t]
    PROVE  \A x \in Elements(tagged[t]) \cap Clients : Wanted(window[x])
BY DEF Wanted

LEMMA ToggleWanted ==
    ASSUME TagsAssumption, TagsTypeOK, NEW t \in Tags,
           visible' = [visible EXCEPT ![t] = ~@], UNCHANGED <<tags_assoc, tagged, window>>,
           Elements(ChangeVisibility(tagged[t])) \subseteq Elements(todo')
    PROVE  \A w : Wanted(w)' => Wanted(w) \/ Coming(w)'
<1>1. visible \in [Tags -> BOOLEAN] BY DEF TagsTypeOK
<1>2. Elements(tags_assoc') = Elements(tags_assoc) BY DEF Elements
<1>3. \A u \in Elements(tags_assoc) : u \in Tags
  BY LenProperties, ElementOfSeq DEF TagsTypeOK, Elements
<1>4. \A u \in Elements(tags_assoc) : visible'[u] =>
         \A x \in Elements(tagged[u]) \cap Clients :
            x \in Elements(tagged[t]) \/ Wanted(window[x])
  <2>. SUFFICES ASSUME NEW u \in Elements(tags_assoc), visible'[u], u # t
                PROVE  \A x \in Elements(tagged[u]) \cap Clients : Wanted(window[x])
    OBVIOUS
  <2>1. visible[u] BY <1>1, <1>3
  <2>. QED BY <2>1, ShowsWanted
<1>5. \A w : Wanted(w)' =>
         Wanted(w) \/ \E x \in Elements(tagged[t]) \cap Clients : window[x] = w
  <2>1. \A u \in Elements(tags_assoc') : visible'[u] =>
           \A x \in Elements(tagged'[u]) \cap Clients :
              x \in Elements(tagged[t]) \/ Wanted(window[x])
    BY <1>2, <1>4
  <2>. QED BY <2>1, WantedFrom
<1>6. ASSUME NEW x \in Elements(tagged[t]) \cap Clients, NEW w, window[x] = w
      PROVE  Coming(w)'
  <2>1. Call("change_visibility", x) \in Elements(todo') BY VisibilityCalls
  <2>. QED BY <1>6, <2>1 DEF Coming, Elements, Call
<1>. QED BY <1>5, <1>6

\* A call of tags.scm that leaves nothing shown unseen to.
LEMMA TagCallShown ==
    ASSUME VisibleInv, status = "running", todo \in Seq(CallSet), todo # <<>>,
           NEW calls \in Seq(CallSet), Then(calls), TagCalls(calls),
           UNCHANGED <<xvars, client_list, window>>, UnmapNext',
           \A w : Managed(w) /\ Wanted(w)' => Wanted(w) \/ Coming(w)',
           Head(todo).proc \in {"map_client", "change_visibility"} =>
              \A w : w = window[Arg] /\ Wanted(w) => InPlace(w) \/ Coming(w)'
    PROVE  VisibleInv'
<1>1. ShownInv /\ UnmapNext /\ NewMappedLast /\ FocusMapped BY DEF VisibleInv
<1>2. NewMappedLast' BY <1>1, LastStays DEF TagCalls, TagProcs
<1>3. StayInPlace /\ FocusMapped' BY <1>1, SameStay
<1>4. \A w : Managed(w)' <=> Managed(w) BY DEF Managed
<1>5. ASSUME NEW w, Managed(w), Wanted(w), Coming(w) PROVE InPlace(w) \/ Coming(w)'
  <2>1. CASE Head(todo).proc \in {"map_client", "change_visibility"} /\ w = window[Arg]
    BY <1>5, <2>1
  <2>2. CASE Head(todo).proc \in {"map_client", "change_visibility"} => window[Arg] # w
    BY <1>5, <2>2, ComingStays
  <2>. QED BY <2>1, <2>2
<1>6. ShownInv' BY <1>1, <1>3, <1>4, <1>5 DEF ShownInv, StayInPlace
<1>. QED BY <1>1, <1>2, <1>3, <1>6 DEF VisibleInv

LEMMA NewTaggedShown ==
    ASSUME TagsAssumption, OnlyTagsUnmap, TagsInv, VisibleInv, tag_new_client
    PROVE  VisibleInv'
<1>0. /\ TypeOK /\ TagsTypeOK /\ todo \in Seq(CallSet)
      /\ tagged \in [Tags -> Seq(Clients \cup {Unspecified})]
  BY DEF TagsInv, TagsTypeOK, TypeOK
<1>1. /\ Arg \in Clients /\ todo # <<>> /\ status = "running"
      /\ Head(todo).proc = "tag_new_client"
      /\ UNCHANGED <<xvars, client_list, window, tags_assoc, visible>>
  BY <1>0, TagArgs DEF tag_new_client, Calls, Unchanged
<1>2. ShownInv /\ UnmapNext /\ NewMappedLast BY <1>1 DEF VisibleInv
<1>3. Elements(tags_assoc') = Elements(tags_assoc) BY <1>1 DEF Elements
<1>4. \A t \in Elements(tags_assoc) : t \in Tags /\ IsTag(t)
  BY <1>0, LenProperties, ElementOfSeq, IsTagElement DEF TagsTypeOK, Elements
<1>5. CASE Return /\ tagged' = [t \in Tags |-> IF IsTag(t) /\ visible[t]
                                               THEN Append(tagged[t], Arg) ELSE tagged[t]]
  <2>1. Then(<<>>) /\ TagCalls(<<>>) /\ <<>> \in Seq(CallSet)
    BY <1>0, <1>1, <1>5, ReturnCalls, NoTagCalls, EmptySeq
  <2>2. Elements(<<>>) = {} BY NoElements
  <2>3. UnmapNext' BY <1>0, <1>1, <1>2, <2>1, <2>2, HarmlessThen DEF Harmless
  <2>4. Call("map_client", Arg) \in Elements(todo')
    <3>1. Head(todo) \in Elements(todo) /\ todo[Len(todo)] \in Elements(todo)
      <4>1. Len(todo) \in DOMAIN todo BY <1>0, <1>1, LenProperties, EmptySeq
      <4>. QED BY <1>0, <1>1, <4>1, TailElements DEF Elements
    <3>2. todo[Len(todo)] = Call("map_client", Arg)
      BY <1>1, <1>2, <3>1 DEF NewMappedLast, Arg
    <3>3. Call("map_client", Arg) # Head(todo) BY <1>1 DEF Call
    <3>4. Call("map_client", Arg) \in Elements(Tail(todo))
      BY <1>0, <1>1, <3>1, <3>2, <3>3, TailElements
    <3>. QED BY <1>5, <3>4 DEF Return
  <2>5. \A w : w = window[Arg] => Coming(w)'
    <3>1. /\ Call("map_client", Arg).proc = "map_client"
          /\ Call("map_client", Arg).client = Arg
      BY DEF Call
    <3>2. \E e \in Elements(todo') : /\ e.proc \in {"map_client", "change_visibility"}
                                     /\ e.client \in Clients
                                     /\ window'[e.client] = window[Arg]
      BY <1>1, <2>4, <3>1
    <3>. QED BY <3>2 DEF Coming, Elements
  <2>6. \A w : Wanted(w)' => Wanted(w) \/ Coming(w)'
    <3>1. \A t \in Tags : Elements(tagged'[t]) \subseteq Elements(tagged[t]) \cup {Arg}
      <4>1. Arg \in Clients \cup {Unspecified} BY <1>1
      <4>2. \A t \in Tags : Elements(Append(tagged[t], Arg)) = Elements(tagged[t]) \cup {Arg}
        BY <1>0, <4>1, AppendElements
      <4>. QED BY <1>5, <4>2
    <3>2. \A t \in Elements(tags_assoc') : visible'[t] =>
             \A x \in Elements(tagged'[t]) \cap Clients : x \in {Arg} \/ Wanted(window[x])
      BY <1>1, <1>3, <1>4, <3>1, ShowsWanted
    <3>3. \A w : Wanted(w)' => Wanted(w) \/ \E x \in {Arg} \cap Clients : window[x] = w
      BY <1>1, <3>2, WantedFrom
    <3>. QED BY <2>5, <3>3
  <2>. QED BY <1>0, <1>1, <2>1, <2>3, <2>6, TagCallShown
<1>6. CASE Then(<<Call("unmap_client", Arg)>>)
           /\ \A i \in DOMAIN tags_assoc : ~visible[tags_assoc[i]]
  <2>. DEFINE k == Call("unmap_client", Arg)
              one == <<k>>
  <2>1. one \in Seq(CallSet) /\ TagCalls(one)
    <3>1. k \in CallSet /\ k.proc \in TagProcs
      BY <1>1, TagCallsTyped DEF Call, TagProcs
    <3>. HIDE DEF k
    <3>. QED BY <3>1, Singleton, OneTagCall
  <2>2. \A w : ~Wanted(w)' BY <1>1, <1>6 DEF Wanted, Elements
  <2>3. UnmapNext' BY <1>0, <1>1, <1>2, <1>6, <2>2, UnmapThen
  <2>4. Then(one) BY <1>6
  <2>. HIDE DEF one
  <2>. QED BY <1>0, <1>1, <2>1, <2>2, <2>3, <2>4, TagCallShown
<1>. QED BY <1>5, <1>6 DEF tag_new_client

\* A client without a visible tag may be unmapped.
LEMMA HiddenShown ==
    ASSUME TagsAssumption, TagsInv, VisibleInv, status = "running",
           todo # <<>>, Arg \in Clients, ~client_get_visibility(Arg),
           Head(todo).proc # "map_client",
           Then(<<Call("unmap_client", Arg)>>), UNCHANGED <<xvars, client_list, window, tvars>>
    PROVE  VisibleInv'
<1>. DEFINE k == Call("unmap_client", Arg)
            one == <<k>>
<1>0. todo \in Seq(CallSet) /\ UnmapNext BY DEF TagsInv, TagsTypeOK, TypeOK, VisibleInv
<1>1. one \in Seq(CallSet) /\ TagCalls(one)
  <2>1. k \in CallSet /\ k.proc \in TagProcs BY TagCallsTyped DEF Call, TagProcs
  <2>. HIDE DEF k
  <2>. QED BY <2>1, Singleton, OneTagCall
<1>2. \A w : Wanted(w)' <=> Wanted(w) BY SameWanted
<1>3. ~Wanted(window[Arg]) BY VisibleIsWanted
<1>4. ASSUME NEW c, c = Arg PROVE ~Wanted(window[c])'
  BY <1>3, <1>4 DEF Wanted, tvars, Elements
<1>5. UnmapNext'
  <2>1. ASSUME NEW c, c = Arg PROVE UnmapNext' BY <1>0, <1>4, <2>1, UnmapThen
  <2>. QED BY <2>1
<1>6. Then(one) OBVIOUS
<1>. HIDE DEF one
<1>. QED BY <1>0, <1>1, <1>2, <1>3, <1>5, <1>6, TagCallShown

\* Calls that unmap nothing, and tags that show nothing more.
LEMMA HarmlessShown ==
    ASSUME VisibleInv, status = "running", todo \in Seq(CallSet), todo # <<>>,
           NEW calls \in Seq(CallSet), Then(calls), TagCalls(calls), Harmless(calls),
           UNCHANGED <<xvars, client_list, window>>,
           \A w : Wanted(w)' => Wanted(w) \/ Coming(w)',
           Head(todo).proc \notin {"map_client", "change_visibility"}
    PROVE  VisibleInv'
<1>1. UnmapNext BY DEF VisibleInv
<1>2. UnmapNext' BY <1>1, HarmlessThen
<1>. QED BY <1>2, TagCallShown

LEMMA TagStepShown ==
    ASSUME TagsAssumption, OnlyTagsUnmap, TagsInv, VisibleInv, TagStep
    PROVE  VisibleInv'
<1>0. /\ TypeOK /\ TagsTypeOK /\ todo \in Seq(CallSet)
      /\ tagged \in [Tags -> Seq(Clients \cup {Unspecified})]
      /\ UNCHANGED <<xvars, client_list, window>>
  BY TagStepMakes DEF TagsInv, TagsTypeOK, TypeOK
<1>. USE DEF Unchanged
<1>1. CASE status' # "running" BY <1>1 DEF VisibleInv
<1>2. CASE status' = "running"
  <2>1. /\ todo # <<>> /\ status = "running"
        /\ \A p : Calls(p) <=> Head(todo).proc = p
    BY DEF TagStep, tag_new_client, untag_client, tag_remove_client, untag_client_hook,
           change_visibility, tag_switch, Calls
  <2>2. ShownInv /\ UnmapNext BY <2>1 DEF VisibleInv
  <2>3. UNCHANGED tvars => \A w : Wanted(w)' => Wanted(w) BY <1>0, SameWanted
  <2>4. Return => Then(<<>>) BY <1>0, <2>1, ReturnCalls
  <2>5. <<>> \in Seq(CallSet) /\ TagCalls(<<>>) /\ Harmless(<<>>)
    BY EmptySeq, NoTagCalls, NoElements DEF Harmless
  <2>6. CASE tag_new_client BY <2>6, NewTaggedShown
  <2>7. CASE untag_client
    <3>. DEFINE of == client_get_tag_list(Arg)
                calls == [i \in 1..Len(of) |-> TagCall("tag_remove_client", Arg, of[i])]
    <3>1. Arg \in Clients BY <1>0, <2>7, TagArgs DEF untag_client
    <3>2. /\ TagCalls(calls)
          /\ \A e \in Elements(calls) : e.proc = "tag_remove_client"
      <4>1. /\ TagCalls(calls)
            /\ Elements(calls) = {TagCall("tag_remove_client", Arg, t) :
                                    t \in {t \in Elements(tags_assoc) : HasTag(Arg, t)}}
        BY <1>0, <3>1, UntagCalls
      <4>. HIDE DEF calls
      <4>. QED BY <4>1 DEF TagCall
    <3>3. Then(calls) /\ UNCHANGED tvars BY <2>7 DEF untag_client
    <3>. HIDE DEF calls
    <3>4. calls \in Seq(CallSet) /\ Harmless(calls) BY <3>2 DEF TagCalls, Harmless
    <3>5. Head(todo).proc = "untag_client" BY <2>7 DEF untag_client, Calls
    <3>. QED BY <1>0, <2>1, <2>3, <3>2, <3>3, <3>4, <3>5, HarmlessShown
  <2>8. CASE tag_remove_client
    <3>. DEFINE t == Head(todo).tag
                k == Call("untag_client_hook", Arg)
                one == <<k>>
    <3>1. /\ Arg \in Clients /\ t \in Tags /\ ~Idle
          /\ Head(todo).proc = "tag_remove_client"
      BY <1>0, <2>8, TagArgs DEF tag_remove_client, Calls
    <3>2. tagged' = [tagged EXCEPT ![t] = Delete(Arg, tagged[t])]
          /\ UNCHANGED <<tags_assoc, visible>>
      BY <2>8 DEF tag_remove_client, TagRemove
    <3>3. one \in Seq(CallSet) /\ TagCalls(one) /\ Harmless(one)
      <4>1. k \in CallSet /\ k.proc = "untag_client_hook"
        BY <3>1, TagCallsTyped DEF Call
      <4>. HIDE DEF k
      <4>. QED BY <4>1, Singleton, OneTagCall, OneCall DEF TagProcs, Harmless
    <3>4. Then(one) \/ Then(<<>>)
      BY <2>8, <3>1 DEF tag_remove_client, TagRemove, Begin
    <3>5. \A w : Wanted(w)' => Wanted(w)
      <4>1. \A u \in Tags : Elements(tagged'[u]) \subseteq Elements(tagged[u])
        BY <1>0, <3>1, <3>2, Deleted
      <4>2. Elements(tags_assoc') = Elements(tags_assoc)
            /\ \A u \in Elements(tags_assoc) : u \in Tags
        BY <1>0, <3>2, LenProperties, ElementOfSeq DEF TagsTypeOK, Elements
      <4>3. \A u \in Elements(tags_assoc') : visible'[u] =>
               \A x \in Elements(tagged'[u]) \cap Clients : x \in {} \/ Wanted(window[x])
        BY <3>2, <4>1, <4>2, ShowsWanted
      <4>4. \A w : Wanted(w)' => Wanted(w) \/ \E x \in {} \cap Clients : window[x] = w
        BY <1>0, <4>3, WantedFrom
      <4>. QED BY <4>4
    <3>. HIDE DEF one, t
    <3>6. ASSUME NEW calls \in {one, <<>>}, Then(calls) PROVE VisibleInv'
      BY <1>0, <2>1, <2>5, <3>1, <3>3, <3>5, <3>6, HarmlessShown
    <3>. QED BY <3>4, <3>6
  <2>9. CASE untag_client_hook
    <3>1. /\ Head(todo).proc = "untag_client_hook" /\ UNCHANGED tvars
          /\ \/ Then(<<>>)
             \/ /\ Arg \in Clients /\ ~client_get_visibility(Arg)
                /\ Then(<<Call("unmap_client", Arg)>>)
      BY <1>0, <1>2, <2>4, <2>9, TagArgs DEF untag_client_hook, MappedOr, Calls
    <3>2. CASE Then(<<>>) BY <1>0, <2>1, <2>3, <2>5, <3>1, <3>2, HarmlessShown
    <3>. QED BY <1>0, <2>1, <3>1, <3>2, HiddenShown
  <2>10. CASE change_visibility
    <3>. DEFINE k == Call("map_client", Arg)
                one == <<k>>
    <3>1. /\ Arg \in Clients /\ Head(todo).proc = "change_visibility"
          /\ UNCHANGED tvars
          /\ \/ ~client_get_visibility(Arg) /\ Then(<<Call("unmap_client", Arg)>>)
             \/ ~client_get_visibility(Arg) /\ Then(<<>>)
             \/ Mapped(window[Arg]) /\ Then(<<>>)
             \/ Then(one)
      BY <1>0, <1>2, <2>10, TagArgs DEF change_visibility, MappedOr, Calls
    <3>2. CASE ~client_get_visibility(Arg) /\ Then(<<Call("unmap_client", Arg)>>)
      BY <1>0, <2>1, <3>1, <3>2, HiddenShown
    <3>3. CASE (~client_get_visibility(Arg) \/ Mapped(window[Arg])) /\ Then(<<>>)
      <4>1. Wanted(window[Arg]) => InPlace(window[Arg])
        BY <3>1, <3>3, VisibleIsWanted DEF InPlace
      <4>2. UnmapNext' BY <1>0, <2>1, <2>2, <2>5, <3>3, HarmlessThen
      <4>. QED BY <1>0, <2>1, <2>3, <2>5, <3>1, <3>3, <4>1, <4>2, TagCallShown
    <3>4. CASE Then(one)
      <4>1. k \in CallSet /\ k.proc = "map_client" /\ k.client = Arg
        BY <3>1, TagCallsTyped DEF Call
      <4>2. one \in Seq(CallSet) /\ TagCalls(one) /\ Harmless(one) /\ Elements(one) = {k}
        <5>. HIDE DEF k
        <5>. QED BY <4>1, Singleton, OneTagCall, OneCall DEF TagProcs, Harmless
      <4>. HIDE DEF one
      <4>3. UnmapNext' BY <1>0, <2>1, <2>2, <3>4, <4>2, HarmlessThen
      <4>4. k \in Elements(todo') BY <1>0, <2>1, <3>4, <4>2, ThenElements
      <4>5. \A w : w = window[Arg] => Coming(w)'
        BY <1>0, <3>1, <4>1, <4>4 DEF Coming, Elements
      <4>. QED BY <1>0, <2>1, <2>3, <3>1, <3>4, <4>2, <4>3, <4>5, TagCallShown
    <3>. QED BY <3>1, <3>2, <3>3, <3>4
  <2>11. CASE tag_switch
    <3>. DEFINE t == Head(todo).tag
                calls == ChangeVisibility(tagged[t])
    <3>1. t \in Tags /\ ~Idle /\ Head(todo).proc = "tag_switch"
      BY <1>0, <2>11, TagArgs DEF tag_switch, Calls
    <3>2. CASE Return /\ UNCHANGED visible
      <4>1. UNCHANGED tvars BY <2>11, <3>2 DEF tag_switch, tvars
      <4>. QED BY <1>0, <2>1, <2>3, <2>4, <2>5, <3>1, <3>2, <4>1, HarmlessShown
    <3>3. CASE ToggleVisibility(t)
      <4>1. TagCalls(calls) /\ Elements(calls) = {Call("change_visibility", c) :
                                                    c \in Elements(tagged[t])}
        BY <1>0, <3>1, VisibilityCalls
      <4>2. Then(calls) BY <3>1, <3>3 DEF ToggleVisibility, Begin
      <4>3. calls \in Seq(CallSet) BY <4>1 DEF TagCalls
      <4>4. Harmless(calls)
        <5>. HIDE DEF calls
        <5>. QED BY <4>1 DEF Harmless, Call
      <4>5. Elements(calls) \subseteq Elements(todo')
        <5>. HIDE DEF calls
        <5>. QED BY <1>0, <2>1, <4>2, <4>3, ThenElements
      <4>6. \A w : Wanted(w)' => Wanted(w) \/ Coming(w)'
        <5>1. UNCHANGED <<tags_assoc, tagged, window>>
              /\ visible' = [visible EXCEPT ![t] = ~@]
          BY <1>0, <2>11, <3>3 DEF tag_switch, ToggleVisibility
        <5>. QED BY <1>0, <3>1, <4>5, <5>1, ToggleWanted
      <4>. HIDE DEF calls
      <4>. QED BY <1>0, <2>1, <3>1, <4>1, <4>2, <4>3, <4>4, <4>6, HarmlessShown
    <3>. QED BY <2>11, <3>2, <3>3 DEF tag_switch
  <2>. QED BY <2>6, <2>7, <2>8, <2>9, <2>10, <2>11 DEF TagStep
<1>. QED BY <1>1, <1>2

LEMMA TagCommandShown ==
    ASSUME TagsAssumption, OnlyTagsUnmap, TagsInv, VisibleInv, TagCommand
    PROVE  VisibleInv'
<1>0. /\ TypeOK /\ TagsTypeOK /\ NoDuplicateWindow /\ NoZombieClient
      /\ tags_assoc \in Seq(Tags) /\ tagged \in [Tags -> Seq(Clients \cup {Unspecified})]
      /\ \A t \in Elements(tags_assoc) : t \in Tags
  BY LenProperties, ElementOfSeq DEF TagsInv, TagsTypeOK, IInv, Elements
<1>1. /\ Idle /\ todo = <<>> /\ UNCHANGED <<xvars, client_list, window>>
  BY <1>0, TagCommandMakes DEF Idle
<1>2. todo' \in Seq(CallSet)
  <2>1. TagsInv' BY TagMovePreserves
  <2>. QED BY <2>1 DEF TagsInv, TagsTypeOK, TypeOK
<1>3. StayInPlace /\ FocusMapped /\ FocusMapped' BY <1>1, IdleShown, SameStay
<1>4. \A w : Managed(w)' <=> Managed(w) BY <1>1 DEF Managed
<1>5. ASSUME \A w : Wanted(w)' => Wanted(w) \/ InPlace(w) \/ Coming(w)',
             \A e \in Elements(todo') : e.proc \in {"change_visibility", "tag_switch",
                                                    "untag_client_hook"}
      PROVE  VisibleInv'
  <2>1. \A w : Managed(w)' /\ Wanted(w)' => InPlace(w)' \/ Coming(w)'
    BY <1>1, <1>3, <1>4, <1>5, IdleShown DEF StayInPlace
  <2>2. Harmless(todo') /\ \A e \in Elements(todo') : e.proc # "tag_new_client"
    BY <1>5 DEF Harmless
  <2>. QED BY <1>2, <1>3, <2>1, <2>2, StartShown
<1>. USE DEF Unchanged
<1>6. ASSUME NEW t \in Tags, toggle_visibility_key(t) PROVE VisibleInv'
  <2>. DEFINE calls == ChangeVisibility(tagged[t])
  <2>1. TagCalls(calls) /\ Elements(calls) = {Call("change_visibility", c) :
                                                c \in Elements(tagged[t])}
    BY <1>0, VisibilityCalls
  <2>4. todo' = calls
    BY <1>1, <1>6 DEF toggle_visibility_key, ToggleVisibility, Begin, Start
  <2>3. UNCHANGED <<tags_assoc, tagged, window>>
        /\ visible' = [visible EXCEPT ![t] = ~@]
    BY <1>6 DEF toggle_visibility_key, ToggleVisibility
  <2>5. \A w : Wanted(w)' => Wanted(w) \/ Coming(w)'
    BY <1>0, <2>3, <2>4, ToggleWanted
  <2>6. \A e \in Elements(todo') : e.proc = "change_visibility"
    <3>. HIDE DEF calls
    <3>. QED BY <2>1, <2>4 DEF Call
  <2>. QED BY <1>5, <2>5, <2>6
<1>7. ASSUME NEW t \in Tags, toggle_client_key(t) PROVE VisibleInv'
  <2>. DEFINE f == get_focus_client
              k == Call("untag_client_hook", f)
  <2>1. /\ f \in Clients \cup {Unspecified}
        /\ f # Unspecified => Mapped(window[f])
    BY <1>0, <1>3, FocusClientMapped, FocusClientTyped, ListedTyped
  <2>2. /\ UNCHANGED <<tags_assoc, visible>>
        /\ \/ tagged' = [tagged EXCEPT ![t] = Delete(f, @)]
           \/ tagged' = [tagged EXCEPT ![t] = Append(@, f)]
    BY <1>7 DEF toggle_client_key, TagRemove
  <2>3. todo' = <<k>> \/ todo' = <<>>
    BY <1>1, <1>7 DEF toggle_client_key, TagRemove, Begin, Start
  <2>4. \A e \in Elements(todo') : e.proc = "untag_client_hook"
    <3>. DEFINE one == <<k>>
    <3>1. k \in CallSet /\ k.proc = "untag_client_hook"
      BY <2>1, TagCallsTyped DEF Call
    <3>. HIDE DEF k
    <3>2. one \in Seq(CallSet) /\ Elements(one) = {k} BY <3>1, Singleton, OneCall
    <3>. HIDE DEF one
    <3>3. todo' = one \/ todo' = <<>> BY <2>3 DEF one
    <3>. QED BY <3>1, <3>2, <3>3, NoElements
  <2>. HIDE DEF f, k
  <2>5. /\ Elements(Delete(f, tagged[t])) \subseteq Elements(tagged[t])
        /\ Elements(Append(tagged[t], f)) = Elements(tagged[t]) \cup {f}
    BY <1>0, <2>1, Deleted, AppendElements
  <2>6. \A u \in Tags : Elements(tagged'[u]) \subseteq Elements(tagged[u]) \cup {f}
    BY <1>0, <2>2, <2>5
  <2>7. Elements(tags_assoc') = Elements(tags_assoc) BY <2>2 DEF Elements
  <2>8. \A u \in Elements(tags_assoc') : visible'[u] =>
           \A x \in Elements(tagged'[u]) \cap Clients : x \in {f} \/ Wanted(window[x])
    BY <1>0, <2>2, <2>6, <2>7, ShowsWanted
  <2>9. \A w : Wanted(w)' => Wanted(w) \/ \E x \in {f} \cap Clients : window[x] = w
    BY <1>1, <2>8, WantedFrom
  <2>10. \A w : Wanted(w)' => Wanted(w) \/ InPlace(w)
    BY <2>1, <2>9, ClientsAssumption DEF ClientsAssumption, InPlace
  <2>. QED BY <1>5, <2>4, <2>10
<1>8. ASSUME NEW t \in Tags, switch_key(t) PROVE VisibleInv'
  <2>1. todo' = Switches(t) /\ UNCHANGED tvars BY <1>8 DEF switch_key, Switches, Start
  <2>2. \A w : Wanted(w)' => Wanted(w) BY <1>1, <2>1, SameWanted
  <2>. QED BY <1>0, <1>5, <2>1, <2>2, SwitchesTyped
<1>9. ASSUME NEW t \in Tags, create_tag(t) PROVE VisibleInv'
  <2>. DEFINE one == <<t>>
  <2>1. one \in Seq(Tags) /\ Elements(one) = {t} /\ tags_assoc' = one \o tags_assoc
    BY <1>9, Singleton, OneCall DEF create_tag
  <2>. HIDE DEF one
  <2>2. Elements(tags_assoc') = {t} \cup Elements(tags_assoc) BY <1>0, <2>1, ConcatElements
  <2>3. /\ UNCHANGED todo /\ tagged'[t] = <<>>
        /\ \A u \in Tags \ {t} : tagged'[u] = tagged[u] /\ visible'[u] = visible[u]
    <3>1. visible \in [Tags -> BOOLEAN] BY <1>0 DEF TagsTypeOK
    <3>. QED BY <1>0, <1>9, <3>1 DEF create_tag
  <2>4. \A u \in Elements(tags_assoc') : visible'[u] =>
           \A x \in Elements(tagged'[u]) \cap Clients : x \in {} \/ Wanted(window[x])
    BY <1>0, <2>2, <2>3, ShowsWanted, NoElements
  <2>5. \A w : Wanted(w)' => Wanted(w) \/ \E x \in {} \cap Clients : window[x] = w
    BY <1>1, <2>4, WantedFrom
  <2>6. \A e \in Elements(todo') : FALSE BY <1>1, <2>3, NoElements
  <2>. QED BY <1>5, <2>5, <2>6
<1>10. \A t \in Tags : ~destroy_tag(t) BY DEF OnlyTagsUnmap, destroy_tag, Command
<1>. QED BY <1>6, <1>7, <1>8, <1>9, <1>10 DEF TagCommand

LEMMA VisiblePreserved ==
    ASSUME ClientsAssumption, TagsAssumption, OnlyTagsUnmap, TagsInv, NoneSent,
           NoneElsewhere, TaggedInv, VisibleInv, TilesFit, [TagsNext]_tagsVars
    PROVE  VisibleInv'
<1>1. CASE ~TagStep /\ ~TagCommand /\ UNCHANGED tvars
  <2>1. CASE UNCHANGED vars
    <3>1. \A w : Wanted(w)' <=> Wanted(w) BY <1>1, <2>1, SameWanted DEF vars, nvars
    <3>2. \A w : /\ Managed(w)' <=> Managed(w)
                 /\ Coming(w)' <=> Coming(w)
                 /\ InPlace(w)' <=> InPlace(w)
      BY <2>1 DEF vars, nvars, xvars, Managed, Coming, Elements, InPlace, Mapped, Pending
    <3>3. UnmapNext => UnmapNext'
      <4>1. Wanted(window[Arg])' <=> Wanted(window[Arg])
        BY <1>1, <2>1 DEF vars, nvars, Wanted, tvars, Elements, Arg
      <4>. QED BY <2>1, <4>1 DEF vars, nvars, UnmapNext, Harmless, Elements
    <3>4. (NewMappedLast => NewMappedLast') /\ (FocusMapped => FocusMapped')
      BY <2>1 DEF vars, nvars, xvars, NewMappedLast, Elements, Call, FocusMapped, Mapped
    <3>. QED BY <2>1, <3>1, <3>2, <3>3, <3>4 DEF VisibleInv, ShownInv, vars, nvars
  <2>2. CASE AppAction BY <1>1, <2>2, AppShown
  <2>3. CASE HandleEvent BY <1>1, <2>3, EventShown
  <2>4. CASE NwmStep BY <1>1, <2>4, NwmStepShown
  <2>5. CASE RunCommand \/ auto_focus_pointer BY <1>1, <2>5, CommandShown
  <2>. QED BY <1>1, <2>1, <2>2, <2>3, <2>4, <2>5
           DEF TagsNext, ClientsAction, Next, Dead, tagsVars
<1>2. CASE TagStep BY <1>2, TagStepShown
<1>3. CASE TagCommand BY <1>3, TagCommandShown
<1>. QED BY <1>1, <1>2, <1>3 DEF TagsNext, ClientsAction, tagsVars

\* When only tags.scm unmaps windows, a managed client with a visible tag is
\* on the screen between two handlers: whatever the keys of the tags change,
\* and however the programs create, map and destroy windows between the calls
\* that a change leads to.  (A size that does not fit would leave the rest of
\* a REPL expression undone, and with it the calls that map the others.)
THEOREM VisibleTagsAreMapped ==
    ASSUME OnlyTagsUnmap, TilesFit
    PROVE  TagsSpec => []VisibleTagIsMapped
<1>. DEFINE Inv == NoneSent /\ NoneElsewhere /\ TaggedInv /\ VisibleInv
<1>1. TagsInit => Inv
  <2>. SUFFICES ASSUME TagsInit PROVE Inv OBVIOUS
  <2>1. /\ xqueue = <<>> /\ todo = <<>> /\ tagged = [t \in Tags |-> <<>>]
        /\ client_list = <<>>
    BY DEF TagsInit, Init, XInit
  <2>2. NoneSent /\ NoneElsewhere /\ TaggedInv
    BY <2>1, NoElements DEF NoneSent, NoneElsewhere, TaggedInv, NewAreListed, TagsListed
  <2>4. FocusMapped BY DEF TagsInit, Init, XInit, FocusMapped, Mapped
  <2>3. \A w : ~Managed(w) BY <2>1 DEF Managed
  <2>. QED BY <2>1, <2>2, <2>3, <2>4, NoElements
           DEF VisibleInv, ShownInv, UnmapNext, NewMappedLast
<1>2. TagsInv /\ Inv /\ [TagsNext]_tagsVars => Inv'
  <2>1. "withdraw" \notin AppMoves BY DEF OnlyTagsUnmap
  <2>. QED BY <2>1, ClientsAssumption, TagsAssumption, UnsentPreserved, TaggedPreserved,
              VisiblePreserved
<1>3. TagsInv /\ Inv => VisibleTagIsMapped
  <2>. SUFFICES ASSUME TagsInv, VisibleInv, Idle, xqueue = <<>>, NEW c \in Listed,
                       client_get_visibility(c)
                PROVE  Mapped(window[c])
    BY DEF VisibleTagIsMapped
  <2>1. c \in Clients BY ListedTyped DEF TagsInv, TagsTypeOK
  <2>2. Managed(window[c]) /\ Wanted(window[c])
    BY <2>1, VisibleIsWanted, ManagedListed
  <2>3. InPlace(window[c]) BY <2>2, IdleShown
  <2>. QED BY <2>3, NoElements, PendingElements DEF InPlace
<1>. HIDE DEF Inv
<1>. QED BY <1>1, <1>2, <1>3, TagsInvariant, PTL DEF TagsSpec
=============================================================================
