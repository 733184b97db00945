------------------------- MODULE ChatSessionProofs -------------------------
(***************************************************************************)
(* Theorems about ChatSession, for any turns, messages and tokens: however *)
(* turns overlap, fail or are cancelled, a history holds no reply without  *)
(* its question; and when turns do not overlap, the agent is asked in      *)
(* context and a branch that was edited away stays away.                   *)
(***************************************************************************)
EXTENDS ChatSession, SequenceTheorems, WellFoundedInduction, TLAPS

Entry == [turn : Turns, kind : {"question", "files", "answer", "error"},
          stepId : Steps \cup {NoStep}]
Frame == [pc : {"unused", "done", "failing", "stopping", "crashing"} \cup BeforeTry \cup InTry,
          step : Steps \cup {NoStep}, list : Turns \cup {Start}, emitted : Nat,
          raised : BOOLEAN, result : {"none", "answered", "failed", "cancelled"}]

TypeOK ==
    /\ serial \in BOOLEAN /\ agent \in BOOLEAN /\ indexing \in BOOLEAN
    /\ lists \in [Turns \cup {Start} -> Seq(Entry)]
    /\ session \in Turns \cup {Start}
    /\ memory \in Seq(Entry)
    /\ turn \in [Turns -> Frame]
    /\ shown \in [Turns -> [status : BOOLEAN, tokens : Nat]]
    /\ animation \in [Turns -> {"none", "running", "cancelling", "cancelled", "failed"}]

(* The list Start stays empty, so no handler holds it; and the list of a   *)
(* turn is not there before the turn is.                                   *)
ListsHeld ==
    /\ lists[Start] = <<>>
    /\ session \in Turns => ~At(session, "unused")
    /\ \A t \in Turns : Running(t) => turn[t].list \in Turns /\ ~At(turn[t].list, "unused")

QuestionOf(t, e) == e.turn = t /\ e.kind = "question"

(* The list of a handler that may still reply holds its question.          *)
MayReply == {"sending", "failing"} \cup InTry
QuestionsHeld ==
    \A t \in Turns : turn[t].pc \in MayReply =>
        \E q \in DOMAIN Own(t) : QuestionOf(t, Own(t)[q])

HistoryInv == TypeOK /\ ListsHeld /\ QuestionsHeld /\ RepliesHaveQuestions

OneTurn == \A t, u \in Turns : Running(t) /\ Running(u) => t = u

(* The session has the list of the running turn, unless feedback on an     *)
(* empty history replaced it: then that turn alone appended to its list.   *)
SessionHeld ==
    \A t \in Turns : Running(t) =>
        \/ session = turn[t].list
        \/ session = Start /\ \A n \in DOMAIN Own(t) : Own(t)[n].turn = t

InContext(t) ==
    \E n \in DOMAIN Own(t) : QuestionOf(t, Own(t)[n]) /\ memory = SubSeq(Own(t), 1, n - 1)

MemoryHeld ==
    \A t \in Turns :
        /\ turn[t].pc \in {"settings", "loading"} => lists[session] = Own(t)
        /\ turn[t].pc \in {"sending", "uploading", "confirming", "ensuring"} => InContext(t)

SerialInv == HistoryInv /\ (serial => OneTurn /\ SessionHeld /\ MemoryHeld)

-----------------------------------------------------------------------------
(* What the helpers of the actions do *)

LEMMA GotoEffect ==
    ASSUME TypeOK, NEW t \in Turns,
           NEW pc \in {"unused", "done", "failing", "stopping", "crashing"} \cup BeforeTry \cup InTry,
           Goto(t, pc)
    PROVE  /\ turn' \in [Turns -> Frame]
           /\ turn'[t].pc = pc /\ turn'[t].list = turn[t].list
           /\ turn'[t].step = turn[t].step
           /\ \A u \in Turns : u # t => turn'[u] = turn[u]
<1>1. turn' = [turn EXCEPT ![t] = [turn[t] EXCEPT !.pc = pc]] /\ turn[t] \in Frame
  BY DEF Goto, TypeOK
<1> DEFINE new == [turn[t] EXCEPT !.pc = pc]
<1>2. new \in Frame /\ new.pc = pc /\ new.list = turn[t].list /\ new.step = turn[t].step
  BY <1>1 DEF Frame
<1> HIDE DEF new
<1> QED BY <1>1, <1>2 DEF TypeOK, new

LEMMA FinallyEffect ==
    ASSUME TypeOK, NEW t \in Turns, NEW r \in {"none", "answered", "failed", "cancelled"},
           NEW raised \in BOOLEAN, Finally(t, r, raised)
    PROVE  /\ turn' \in [Turns -> Frame]
           /\ turn'[t].pc = "stopping" /\ turn'[t].list = turn[t].list
           /\ \A u \in Turns : u # t => turn'[u] = turn[u]
           /\ animation' \in [Turns -> {"none", "running", "cancelling", "cancelled", "failed"}]
<1> DEFINE new == [turn[t] EXCEPT !.pc = "stopping", !.result = r, !.raised = raised]
<1>1. turn' = [turn EXCEPT ![t] = new] /\ turn[t] \in Frame
  BY DEF Finally, TypeOK
<1>2. new \in Frame /\ new.pc = "stopping" /\ new.list = turn[t].list
  BY <1>1 DEF Frame
<1> HIDE DEF new
<1>3. animation' \in [Turns -> {"none", "running", "cancelling", "cancelled", "failed"}]
  BY DEF Finally, TypeOK
<1> QED BY <1>1, <1>2, <1>3 DEF TypeOK

LEMMA EndEffect ==
    ASSUME TypeOK, NEW t \in Turns, NEW s \in Turns \cup {Start}, End(t, s)
    PROVE  /\ turn' \in [Turns -> Frame]
           /\ turn'[t].pc = "done"
           /\ \A u \in Turns : u # t => turn'[u] = turn[u]
           /\ lists' \in [Turns \cup {Start} -> Seq(Entry)]
           /\ \A n \in Turns \cup {Start} : lists'[n] \in {lists[n], <<>>}
           /\ lists'[s] = lists[s]
           /\ \A u \in Turns : u # t /\ Running(u) /\ turn[u].list \in Turns \cup {Start} =>
                lists'[turn[u].list] = lists[turn[u].list]
           /\ shown' \in [Turns -> [status : BOOLEAN, tokens : Nat]]
<1> DEFINE new == [NewTurn EXCEPT !.pc = "done", !.step = turn[t].step]
<1>0. turn[t].step \in Steps \cup {NoStep}
  BY DEF TypeOK, Frame
<1>1. turn' = [turn EXCEPT ![t] = new]
  BY DEF End
<1>2. new \in Frame /\ new.pc = "done"
  BY <1>0 DEF NewTurn, Frame
<1> HIDE DEF new
<1>3. /\ turn' \in [Turns -> Frame] /\ turn'[t].pc = "done"
      /\ \A u \in Turns : u # t => turn'[u] = turn[u]
  BY <1>1, <1>2 DEF TypeOK
<1> DEFINE Kept(n) == n = s \/ \E u \in Turns \ {t} : Running(u) /\ turn[u].list = n
<1>4. lists' = [n \in Turns \cup {Start} |-> IF Kept(n) THEN lists[n] ELSE <<>>]
  BY DEF End, TypeOK
<1>5. Kept(s) /\ \A u \in Turns : u # t /\ Running(u) => Kept(turn[u].list)
  OBVIOUS
<1> HIDE DEF Kept
<1>6. \A n \in Turns \cup {Start} : lists[n] \in Seq(Entry) /\ <<>> \in Seq(Entry)
  BY DEF TypeOK
<1>7. lists' \in [Turns \cup {Start} -> Seq(Entry)]
  BY <1>4, <1>6
<1>8. \A n \in Turns \cup {Start} : lists'[n] = IF Kept(n) THEN lists[n] ELSE <<>>
  BY <1>4
<1>9. shown' \in [Turns -> [status : BOOLEAN, tokens : Nat]]
  <2>1. Blank \in [status : BOOLEAN, tokens : Nat]
    BY DEF Blank
  <2> QED BY <2>1 DEF End, TypeOK
<1> QED BY <1>3, <1>5, <1>7, <1>8, <1>9

(* An entry goes to the end of the handler's list.                         *)
LEMMA AppendEffect ==
    ASSUME TypeOK, NEW t \in Turns, NEW kind \in {"question", "files", "answer", "error"},
           AppendTo(t, kind)
    PROVE  LET l == turn[t].list
           IN  /\ lists' \in [Turns \cup {Start} -> Seq(Entry)]
               /\ \A n \in Turns \cup {Start} : n # l => lists'[n] = lists[n]
               /\ \E e \in Entry : e.turn = t /\ e.kind = kind /\ lists'[l] = Append(lists[l], e)
<1> DEFINE e == [turn |-> t, kind |-> kind,
                 stepId |-> IF kind = "question" THEN turn[t].step ELSE NoStep]
           l == turn[t].list
<1>1. lists' = [lists EXCEPT ![l] = Append(lists[l], e)]
  BY DEF AppendTo
<1>2. l \in Turns \cup {Start} /\ turn[t].step \in Steps \cup {NoStep}
  BY DEF TypeOK, Frame
<1>3. e \in Entry /\ e.turn = t /\ e.kind = kind
  BY <1>2 DEF Entry
<1> HIDE DEF e, l
<1>4. Append(lists[l], e) \in Seq(Entry)
  BY <1>2, <1>3 DEF TypeOK
<1>5. lists' \in [Turns \cup {Start} -> Seq(Entry)]
  BY <1>1, <1>4 DEF TypeOK
<1>6. lists'[l] = Append(lists[l], e) /\ \A n \in Turns \cup {Start} : n # l => lists'[n] = lists[n]
  BY <1>1, <1>2 DEF TypeOK
<1> QED BY <1>3, <1>5, <1>6 DEF l

(* Of the positions that qualify there is a first one.                     *)
LEMMA FirstPosition ==
    ASSUME NEW S \in SUBSET Nat, S # {}
    PROVE  \E n \in S : \A m \in S : n <= m
<1>1. PICK n \in S : \A m \in S : <<m, n>> \notin OpToRel(<, Nat)
  BY NatLessThanWellFounded, WFMin
<1>2. \A m \in S : ~ (m < n)
  BY <1>1 DEF OpToRel
<1> QED BY <1>2

(* Removing a branch leaves the entries before it as they are.             *)
LEMMA RemoveBranchEffect ==
    ASSUME NEW R, NEW l \in Seq(R), NEW m
    PROVE  LET kept == RemoveBranch(l, m)
           IN  /\ kept \in Seq(R) /\ Len(kept) <= Len(l)
               /\ \A n \in DOMAIN kept : n \in DOMAIN l /\ kept[n] = l[n]
<1> DEFINE cuts == {n \in DOMAIN l : l[n].stepId = m}
           cut == CHOOSE n \in cuts : \A k \in cuts : n <= k
<1>0. Len(l) \in Nat /\ DOMAIN l = 1 .. Len(l)
  OBVIOUS
<1>1. CASE cuts = {}
  <2>1. RemoveBranch(l, m) = l
    BY <1>1 DEF RemoveBranch
  <2> QED BY <1>0, <2>1
<1>2. CASE cuts # {}
  <2>1. cut \in 1 .. Len(l)
    <3>1. cuts \in SUBSET Nat /\ cuts \subseteq 1 .. Len(l)
      BY <1>0
    <3> HIDE DEF cuts
    <3>2. cut \in cuts
      BY <1>2, <3>1, FirstPosition
    <3> QED BY <3>1, <3>2
  <2>2. RemoveBranch(l, m) = SubSeq(l, 1, cut - 1)
    BY <1>2 DEF RemoveBranch
  <2> HIDE DEF cut
  <2>3. /\ SubSeq(l, 1, cut - 1) \in Seq(R) /\ Len(SubSeq(l, 1, cut - 1)) = cut - 1
        /\ \A n \in 1 .. cut - 1 : SubSeq(l, 1, cut - 1)[n] = l[n]
    BY <1>0, <2>1
  <2>4. DOMAIN SubSeq(l, 1, cut - 1) = 1 .. cut - 1
    BY <2>3
  <2> QED BY <1>0, <2>1, <2>2, <2>3, <2>4
<1> QED BY <1>1, <1>2

-----------------------------------------------------------------------------
(* However turns overlap *)

(* Handlers go on: the running ones keep their lists, no other begins, and *)
(* the session gets no list but that of a handler.                         *)
Onward ==
    /\ \A u \in Turns : Running(u)' => Running(u) /\ turn'[u].list = turn[u].list
    /\ \A u \in Turns : At(u, "unused")' => At(u, "unused")
    /\ session' \in Turns =>
         session' = session \/ \E t \in Turns : Running(t) /\ session' = turn[t].list

LEMMA OnwardLists ==
    ASSUME HistoryInv, TypeOK', Onward, lists'[Start] = <<>>
    PROVE  ListsHeld'
<1>1. \A u \in Turns : ~At(u, "unused") => ~At(u, "unused")'
  BY DEF Onward
<1>2. session' \in Turns => ~At(session, "unused")'
  BY <1>1 DEF HistoryInv, ListsHeld, Onward, At
<1>3. \A t \in Turns : Running(t)' => turn'[t].list \in Turns /\ turn'[turn'[t].list].pc # "unused"
  BY <1>1 DEF HistoryInv, ListsHeld, Onward, At
<1> QED BY <1>2, <1>3 DEF ListsHeld, At

Replying(t) == turn[t].pc \in MayReply

LEMMA ReplyingRuns ==
    ASSUME NEW t \in Turns, Replying(t)
    PROVE  Running(t)
BY DEF Replying, MayReply, InTry, Running

(* No list changes. *)
LEMMA QuietStep ==
    ASSUME HistoryInv, TypeOK', Onward, UNCHANGED lists,
           \A u \in Turns : Replying(u)' => Replying(u)
    PROVE  HistoryInv'
<1>0. ListsHeld /\ QuestionsHeld /\ RepliesHaveQuestions /\ TypeOK
  BY DEF HistoryInv
<1>1. ListsHeld'
  BY <1>0, OnwardLists DEF ListsHeld
<1>2. QuestionsHeld'
  <2> SUFFICES ASSUME NEW t \in Turns, turn'[t].pc \in MayReply
               PROVE  \E q \in DOMAIN lists'[turn'[t].list] : QuestionOf(t, lists'[turn'[t].list][q])
    BY DEF QuestionsHeld, Own, QuestionOf
  <2>1. Replying(t) /\ turn'[t].list = turn[t].list
    <3>1. turn'[t].pc \notin {"unused", "done"}
      BY DEF MayReply, InTry
    <3> QED BY <3>1 DEF Onward, Replying, Running
  <2> QED BY <1>0, <2>1 DEF QuestionsHeld, Own, Replying
<1>3. RepliesHaveQuestions'
  BY <1>0 DEF RepliesHaveQuestions, Answers
<1> QED BY <1>1, <1>2, <1>3 DEF HistoryInv

(* A handler appends, and replies only where its question is.              *)
LEMMA AppendStep ==
    ASSUME HistoryInv, TypeOK', Onward, NEW t \in Turns, Running(t),
           NEW kind \in {"question", "files", "answer", "error"}, AppendTo(t, kind),
           \A u \in Turns : Replying(u)' => Replying(u) \/ (u = t /\ kind = "question"),
           kind \in {"answer", "error"} => Replying(t)
    PROVE  HistoryInv'
<1> DEFINE l == turn[t].list
           dom == Turns \cup {Start}
<1>0. ListsHeld /\ QuestionsHeld /\ RepliesHaveQuestions /\ TypeOK
  BY DEF HistoryInv
<1>1. l \in Turns /\ lists[Start] = <<>> /\ Start \notin Turns
  BY <1>0, StartAssumption DEF ListsHeld
<1>2. \A n \in dom : n # l => lists'[n] = lists[n]
  BY <1>0, AppendEffect
<1>3. PICK e \in Entry : e.turn = t /\ e.kind = kind /\ lists'[l] = Append(lists[l], e)
  BY <1>0, AppendEffect
<1>4. \A n \in dom : lists[n] \in Seq(Entry)
  BY <1>0 DEF TypeOK
<1>5. /\ DOMAIN lists'[l] = 1 .. Len(lists[l]) + 1 /\ DOMAIN lists[l] = 1 .. Len(lists[l])
      /\ \A k \in 1 .. Len(lists[l]) : lists'[l][k] = lists[l][k]
      /\ lists'[l][Len(lists[l]) + 1] = e /\ Len(lists[l]) \in Nat
  <2>1. lists[l] \in Seq(Entry)
    BY <1>1, <1>4
  <2>2. /\ Append(lists[l], e) \in Seq(Entry) /\ Len(Append(lists[l], e)) = Len(lists[l]) + 1
        /\ \A k \in 1 .. Len(lists[l]) + 1 :
              Append(lists[l], e)[k] = IF k = Len(lists[l]) + 1 THEN e ELSE lists[l][k]
    BY <2>1, AppendProperties
  <2>3. Len(lists[l]) \in Nat /\ DOMAIN lists[l] = 1 .. Len(lists[l])
    BY <2>1
  <2>4. DOMAIN Append(lists[l], e) = 1 .. Len(lists[l]) + 1
    BY <2>2
  <2> QED BY <1>3, <2>2, <2>3, <2>4
<1> HIDE DEF l, dom
<1>6. ListsHeld'
  <2>1. lists'[Start] = <<>>
    BY <1>1, <1>2 DEF dom
  <2> QED BY <2>1, OnwardLists
<1>7. ASSUME NEW n \in dom, NEW k \in DOMAIN lists[n]
      PROVE  k \in DOMAIN lists'[n] /\ lists'[n][k] = lists[n][k]
  <2>1. CASE n = l
    BY <1>5, <2>1
  <2>2. CASE n # l
    BY <1>2, <2>2
  <2> QED BY <2>1, <2>2
<1>8. QuestionsHeld'
  <2> SUFFICES ASSUME NEW u \in Turns, turn'[u].pc \in MayReply
               PROVE  \E q \in DOMAIN lists'[turn'[u].list] : QuestionOf(u, lists'[turn'[u].list][q])
    BY DEF QuestionsHeld, Own, QuestionOf
  <2>1. turn'[u].list = turn[u].list /\ turn[u].list \in dom
    <3>1. turn'[u].pc \notin {"unused", "done"}
      BY DEF MayReply, InTry
    <3>2. turn[u] \in Frame
      BY <1>0 DEF TypeOK
    <3> QED BY <3>1, <3>2 DEF Onward, Running, Frame, dom
  <2>2. CASE Replying(u)
    <3>1. PICK q \in DOMAIN lists[turn[u].list] : QuestionOf(u, lists[turn[u].list][q])
      BY <1>0, <2>2 DEF QuestionsHeld, Own, Replying
    <3> QED BY <1>7, <2>1, <3>1
  <2>3. CASE u = t /\ kind = "question"
    <3>1. Len(lists[l]) + 1 \in DOMAIN lists'[l] /\ QuestionOf(t, lists'[l][Len(lists[l]) + 1])
      BY <1>3, <1>5, <2>3 DEF QuestionOf
    <3> QED BY <2>1, <2>3, <3>1 DEF l
  <2> QED BY <2>2, <2>3 DEF Replying
<1>9. RepliesHaveQuestions'
  <2> SUFFICES ASSUME NEW n \in dom, NEW k \in DOMAIN lists'[n],
                      lists'[n][k].kind \in {"answer", "error"}
               PROVE  \E q \in 1 .. k - 1 :
                         lists'[n][q].turn = lists'[n][k].turn /\ lists'[n][q].kind = "question"
    BY DEF RepliesHaveQuestions, Answers, TypeOK, dom
  <2>1. CASE k \in DOMAIN lists[n]
    <3>1. lists'[n][k] = lists[n][k] /\ k \in Answers(lists[n]) /\ n \in DOMAIN lists
      BY <1>0, <1>7, <2>1 DEF Answers, TypeOK, dom
    <3>2. PICK q \in 1 .. k - 1 : lists[n][q].turn = lists[n][k].turn /\ lists[n][q].kind = "question"
      BY <1>0, <3>1 DEF RepliesHaveQuestions
    <3>3. q \in DOMAIN lists[n]
      <4>1. DOMAIN lists[n] = 1 .. Len(lists[n]) /\ Len(lists[n]) \in Nat
        BY <1>4
      <4> QED BY <2>1, <4>1
    <3> QED BY <1>7, <3>1, <3>2, <3>3
  <2>2. CASE k \notin DOMAIN lists[n]
    <3>1. n = l
      BY <1>2, <2>2
    <3>2. k = Len(lists[l]) + 1 /\ lists'[l][k] = e
      BY <1>5, <2>2, <3>1
    <3>3. Replying(t)
      BY <1>3, <3>1, <3>2
    <3>4. PICK q \in DOMAIN lists[l] : QuestionOf(t, lists[l][q])
      BY <1>0, <3>3 DEF QuestionsHeld, Own, Replying, l
    <3>5. q \in 1 .. k - 1 /\ lists'[l][q] = lists[l][q]
      BY <1>5, <3>2, <3>4
    <3> QED BY <1>3, <3>1, <3>2, <3>4, <3>5 DEF QuestionOf
  <2> QED BY <2>1, <2>2
<1> QED BY <1>6, <1>8, <1>9 DEF HistoryInv

(* A handler ends, and the lists that nobody holds any more are gone.      *)
LEMMA EndStep ==
    ASSUME HistoryInv, TypeOK', NEW t \in Turns, Running(t),
           NEW s \in {session, turn[t].list}, End(t, s)
    PROVE  HistoryInv'
<1>0. ListsHeld /\ QuestionsHeld /\ RepliesHaveQuestions /\ TypeOK
  BY DEF HistoryInv
<1>1. s \in Turns \cup {Start} /\ session' = s
  BY <1>0 DEF TypeOK, Frame, End
<1>2. /\ turn'[t].pc = "done" /\ \A u \in Turns : u # t => turn'[u] = turn[u]
      /\ \A n \in Turns \cup {Start} : lists'[n] \in {lists[n], <<>>}
      /\ \A u \in Turns : u # t /\ Running(u) /\ turn[u].list \in Turns \cup {Start} =>
            lists'[turn[u].list] = lists[turn[u].list]
  BY <1>0, <1>1, EndEffect
<1>3. Onward
  BY <1>1, <1>2 DEF Onward, Running, At
<1>4. ListsHeld'
  <2>1. lists'[Start] = <<>>
    BY <1>0, <1>2 DEF ListsHeld
  <2> QED BY <1>3, <2>1, OnwardLists
<1>5. QuestionsHeld'
  <2> SUFFICES ASSUME NEW u \in Turns, turn'[u].pc \in MayReply
               PROVE  \E q \in DOMAIN lists'[turn'[u].list] : QuestionOf(u, lists'[turn'[u].list][q])
    BY DEF QuestionsHeld, Own, QuestionOf
  <2>1. u # t /\ turn'[u] = turn[u] /\ Running(u)
    BY <1>2 DEF MayReply, InTry, Running
  <2>2. turn[u].list \in Turns
    BY <1>0, <2>1 DEF ListsHeld
  <2> QED BY <1>0, <1>2, <2>1, <2>2 DEF QuestionsHeld, Own
<1>6. RepliesHaveQuestions'
  <2>1. DOMAIN lists = Turns \cup {Start} /\ DOMAIN lists' = Turns \cup {Start}
    BY <1>0 DEF TypeOK
  <2>2. \A n \in Turns \cup {Start} : lists'[n] = lists[n] \/ Answers(lists'[n]) = {}
    BY <1>2 DEF Answers
  <2> QED BY <1>0, <2>1, <2>2 DEF RepliesHaveQuestions, Answers
<1> QED BY <1>4, <1>5, <1>6 DEF HistoryInv

(* A handler begins: its list is the session's, of which it may lose a     *)
(* branch.                                                                 *)
LEMMA OnMessageEffect ==
    ASSUME HistoryInv, NEW t \in Turns, NEW m \in Steps, OnMessage(t, m)
    PROVE  /\ At(t, "unused") /\ session' \in Turns
           /\ lists' \in [Turns \cup {Start} -> Seq(Entry)]
           /\ lists'[session'] = RemoveBranch(lists[session], m)
           /\ \/ session' = session /\ session # t /\ lists' = lists
              \/ /\ session' = t
                 /\ \A n \in Turns \cup {Start} : n # t => lists'[n] = lists[n]
           /\ turn' \in [Turns -> Frame]
           /\ turn'[t].pc = "settings" /\ turn'[t].list = session'
           /\ \A u \in Turns : u # t => turn'[u] = turn[u]
<1> DEFINE kept == RemoveBranch(lists[session], m)
           same == kept # <<>> /\ kept = lists[session]
           new == [NewTurn EXCEPT !.pc = "settings", !.step = m, !.list = session']
<1>0. TypeOK /\ ListsHeld /\ Start \notin Turns
  BY StartAssumption DEF HistoryInv
<1>1. /\ At(t, "unused")
      /\ lists' = IF same THEN lists ELSE [lists EXCEPT ![t] = kept]
      /\ session' = IF same THEN session ELSE t
      /\ turn' = [turn EXCEPT ![t] = new]
  BY DEF OnMessage, EnsureSettings
<1>2. lists[session] \in Seq(Entry)
  BY <1>0 DEF TypeOK
<1>3. kept \in Seq(Entry)
  BY <1>2, RemoveBranchEffect
<1> HIDE DEF kept
<1>4. session' \in Turns /\ (same => session # t)
  <2>1. CASE same
    <3>1. session # Start
      BY <1>0, <2>1 DEF ListsHeld
    <3>2. session \in Turns
      BY <1>0, <3>1 DEF TypeOK
    <3>3. session # t
      BY <1>0, <1>1, <3>2 DEF ListsHeld
    <3> QED BY <1>1, <2>1, <3>2, <3>3
  <2>2. CASE ~same
    BY <1>1, <2>2
  <2> QED BY <2>1, <2>2
<1>5. new \in Frame /\ new.pc = "settings" /\ new.list = session'
  <2>1. session' \in Turns \cup {Start}
    BY <1>4
  <2> QED BY <2>1 DEF NewTurn, Frame, BeforeTry
<1> HIDE DEF new
<1>6. /\ turn' \in [Turns -> Frame] /\ turn'[t] = new
      /\ \A u \in Turns : u # t => turn'[u] = turn[u]
  BY <1>0, <1>1, <1>5 DEF TypeOK
<1>7. CASE same
  BY <1>0, <1>1, <1>4, <1>5, <1>6, <1>7 DEF TypeOK, kept
<1>8. CASE ~same
  <2>1. lists' = [lists EXCEPT ![t] = kept] /\ session' = t
    BY <1>1, <1>8
  <2>2. /\ lists' \in [Turns \cup {Start} -> Seq(Entry)] /\ lists'[t] = kept
        /\ \A n \in Turns \cup {Start} : n # t => lists'[n] = lists[n]
    BY <1>0, <1>3, <2>1 DEF TypeOK
  <2> QED BY <1>1, <1>4, <1>5, <1>6, <2>1, <2>2 DEF kept
<1> QED BY <1>7, <1>8

LEMMA BeginStep ==
    ASSUME HistoryInv, TypeOK', NEW t \in Turns, NEW m \in Steps, OnMessage(t, m)
    PROVE  HistoryInv'
<1> DEFINE kept == RemoveBranch(lists[session], m)
           dom == Turns \cup {Start}
<1>0. ListsHeld /\ QuestionsHeld /\ RepliesHaveQuestions /\ TypeOK /\ Start \notin Turns
  BY StartAssumption DEF HistoryInv
<1>1. /\ At(t, "unused") /\ session' \in Turns
      /\ lists' \in [dom -> Seq(Entry)]
      /\ lists'[session'] = kept
      /\ \/ session' = session /\ session # t /\ lists' = lists
         \/ session' = t /\ \A n \in dom : n # t => lists'[n] = lists[n]
      /\ turn'[t].pc = "settings" /\ turn'[t].list = session'
      /\ \A u \in Turns : u # t => turn'[u] = turn[u]
  BY OnMessageEffect
<1>2. /\ lists[session] \in Seq(Entry)
      /\ \A n \in DOMAIN kept : n \in DOMAIN lists[session] /\ kept[n] = lists[session][n]
      /\ kept \in Seq(Entry)
  <2>1. lists[session] \in Seq(Entry)
    BY <1>0 DEF TypeOK
  <2> QED BY <2>1, RemoveBranchEffect
<1>3. session \in dom /\ t \in dom
  BY <1>0 DEF TypeOK
<1> HIDE DEF kept, dom
<1>4. \A u \in Turns : ~At(u, "unused") => turn'[u].pc # "unused"
  BY <1>1 DEF At
<1>5. \A u \in Turns : Running(u) => u # t /\ turn[u].list \in Turns /\ turn[u].list # t
  BY <1>0, <1>1 DEF ListsHeld, Running, At
<1>6. ListsHeld'
  <2>1. lists'[Start] = <<>>
    <3>1. Start # t /\ Start \in dom
      BY <1>0 DEF dom
    <3> QED BY <1>0, <1>1, <3>1 DEF ListsHeld
  <2>2. turn'[session'].pc # "unused"
    BY <1>0, <1>1, <1>4 DEF ListsHeld
  <2>3. ASSUME NEW u \in Turns, u # t, turn'[u].pc \notin {"unused", "done"}
        PROVE  turn'[u].list \in Turns /\ turn'[turn'[u].list].pc # "unused"
    <3>1. turn'[u] = turn[u] /\ Running(u)
      BY <1>1, <2>3 DEF Running
    <3>2. turn[u].list \in Turns /\ ~At(turn[u].list, "unused")
      BY <1>0, <3>1 DEF ListsHeld
    <3> QED BY <1>4, <3>1, <3>2
  <2> QED BY <1>1, <2>1, <2>2, <2>3 DEF ListsHeld, Running, At
<1>7. QuestionsHeld'
  <2> SUFFICES ASSUME NEW u \in Turns, turn'[u].pc \in MayReply
               PROVE  \E q \in DOMAIN lists'[turn'[u].list] : QuestionOf(u, lists'[turn'[u].list][q])
    BY DEF QuestionsHeld, Own, QuestionOf
  <2>1. u # t
    BY <1>1 DEF MayReply, InTry
  <2>2. turn'[u] = turn[u] /\ Running(u)
    BY <1>1, <2>1 DEF MayReply, InTry, Running
  <2>3. turn[u].list \in dom /\ lists'[turn[u].list] = lists[turn[u].list]
    BY <1>1, <1>5, <2>2 DEF dom
  <2> QED BY <1>0, <2>2, <2>3 DEF QuestionsHeld, Own
<1>8. RepliesHaveQuestions'
  <2> SUFFICES ASSUME NEW n \in dom, NEW k \in DOMAIN lists'[n],
                      lists'[n][k].kind \in {"answer", "error"}
               PROVE  \E q \in 1 .. k - 1 :
                         lists'[n][q].turn = lists'[n][k].turn /\ lists'[n][q].kind = "question"
    BY <1>1 DEF RepliesHaveQuestions, Answers
  <2>0. \A i \in dom : \A j \in DOMAIN lists[i] : lists[i][j].kind \in {"answer", "error"} =>
           \E q \in 1 .. j - 1 : lists[i][q].turn = lists[i][j].turn /\ lists[i][q].kind = "question"
    BY <1>0 DEF RepliesHaveQuestions, Answers, TypeOK, dom
  <2>1. CASE lists'[n] = lists[n]
    BY <2>0, <2>1
  <2>2. CASE lists'[n] # lists[n]
    <3>1. lists'[n] = kept
      BY <1>1, <2>2
    <3>2. PICK q \in 1 .. k - 1 : /\ lists[session][q].turn = lists[session][k].turn
                                  /\ lists[session][q].kind = "question"
      BY <1>2, <1>3, <2>0, <3>1
    <3>3. q \in DOMAIN kept
      <4>1. DOMAIN kept = 1 .. Len(kept) /\ Len(kept) \in Nat
        BY <1>2
      <4> QED BY <3>1, <4>1
    <3> QED BY <1>2, <3>1, <3>2, <3>3
  <2> QED BY <2>1, <2>2
<1> QED BY <1>6, <1>7, <1>8 DEF HistoryInv

-----------------------------------------------------------------------------
(* What a step of the session is *)

(* What a handler awaits before and after its question is in its list.     *)
Preparing == {"settings", "loading"}
Asking == {"sending", "uploading", "confirming", "ensuring"}

Advances(t, pc) ==
    /\ turn'[t].pc = pc /\ turn'[t].list = turn[t].list
    /\ \A u \in Turns : u # t => turn'[u] = turn[u]

(* A handler does something on its own list and goes on.                   *)
Works(t) ==
    /\ Running(t) /\ turn'[t].pc # "unused" /\ turn'[t].list = turn[t].list
    /\ \A u \in Turns : u # t => turn'[u] = turn[u]
    /\ session' \in {session, turn[t].list}
    /\ \/ lists' = lists /\ (Replying(t)' => Replying(t))
       \/ \E kind \in {"question", "files", "answer", "error"} :
            /\ AppendTo(t, kind)
            /\ Replying(t)' => Replying(t) \/ kind = "question"
            /\ kind \in {"answer", "error"} => Replying(t)
    /\ turn'[t].pc \in Preparing =>
         turn[t].pc \in Preparing /\ UNCHANGED <<lists, session>>
    /\ turn'[t].pc \in Asking =>
         \/ turn[t].pc \in Asking /\ UNCHANGED memory
         \/ turn[t].pc \in Preparing /\ memory' = lists[session] /\ AppendTo(t, "question")

Ends(t) == Running(t) /\ \E s \in {session, turn[t].list} : End(t, s)

Begins(t) == \E m \in Steps : OnMessage(t, m)

(* No handler and no history is touched. *)
Idles ==
    /\ UNCHANGED <<lists, session, turn>>
    /\ serial => UNCHANGED memory \/ \A t \in Turns : ~Running(t)

LEMMA GotoWorks ==
    ASSUME TypeOK, NEW t \in Turns,
           LoadContext(t) \/ TakeEmptyPrompt(t) \/ Sent(t) \/ Uploaded(t) \/ Ask(t)
             \/ Answered(t) \/ Raises(t) \/ StoppedWithError(t) \/ RaisesEarly(t)
    PROVE  Works(t) /\ turn' \in [Turns -> Frame]
<1>1. ASSUME NEW pc \in {"failing", "crashing"} \cup BeforeTry \cup InTry, Goto(t, pc),
             turn[t].pc \notin {"unused", "done"}, UNCHANGED <<lists, session>>,
             pc \in MayReply => turn[t].pc \in MayReply,
             pc \in Preparing => turn[t].pc \in Preparing,
             pc \in Asking => turn[t].pc \in Asking /\ UNCHANGED memory
      PROVE  Works(t) /\ turn' \in [Turns -> Frame]
  <2>0. pc \in {"unused", "done", "failing", "stopping", "crashing"} \cup BeforeTry \cup InTry
    OBVIOUS
  <2>1. turn' \in [Turns -> Frame] /\ Advances(t, pc)
    BY <1>1, <2>0, GotoEffect DEF Advances
  <2>2. pc # "unused"
    BY DEF BeforeTry, InTry
  <2> QED BY <1>1, <2>1, <2>2 DEF Advances, Works, Running, Replying
<1>2. CASE LoadContext(t)
  BY <1>1, <1>2 DEF LoadContext, At, BeforeTry, MayReply, InTry, Preparing, Asking
<1>3. CASE TakeEmptyPrompt(t)
  BY <1>1, <1>3 DEF TakeEmptyPrompt, EnsureAgent, BuildAgent, ApplyAgentSettings, At,
                    BeforeTry, MayReply, InTry, Preparing, Asking
<1>4. CASE Sent(t)
  BY <1>1, <1>4 DEF Sent, At, BeforeTry, MayReply, InTry, Preparing, Asking
<1>5. CASE Uploaded(t)
  BY <1>1, <1>5 DEF Uploaded, At, BeforeTry, MayReply, InTry, Preparing, Asking
<1>6. CASE Ask(t)
  BY <1>1, <1>6 DEF Ask, At, BeforeTry, MayReply, InTry, Preparing, Asking
<1>7. CASE Answered(t)
  BY <1>1, <1>7 DEF Answered, At, BeforeTry, MayReply, InTry, Preparing, Asking
<1>8. CASE Raises(t)
  BY <1>1, <1>8 DEF Raises, BeforeTry, MayReply, InTry, Preparing, Asking
<1>9. CASE StoppedWithError(t)
  BY <1>1, <1>9 DEF StoppedWithError, At, BeforeTry, MayReply, InTry, Preparing, Asking
<1>10. CASE RaisesEarly(t)
  BY <1>1, <1>10 DEF RaisesEarly, BeforeTry, MayReply, InTry, Preparing, Asking
<1> QED BY <1>2, <1>3, <1>4, <1>5, <1>6, <1>7, <1>8, <1>9, <1>10

LEMMA FinallyWorks ==
    ASSUME TypeOK, NEW t \in Turns, NEW r \in {"answered", "failed", "cancelled"},
           NEW raised \in BOOLEAN, Finally(t, r, raised),
           Running(t), session' \in {session, turn[t].list},
           \/ lists' = lists
           \/ \E kind \in {"answer", "error"} : AppendTo(t, kind) /\ Replying(t)
    PROVE  /\ Works(t) /\ turn' \in [Turns -> Frame]
           /\ animation' \in [Turns -> {"none", "running", "cancelling", "cancelled", "failed"}]
<1>0. r \in {"none", "answered", "failed", "cancelled"}
  OBVIOUS
<1>1. /\ turn' \in [Turns -> Frame] /\ Advances(t, "stopping")
      /\ animation' \in [Turns -> {"none", "running", "cancelling", "cancelled", "failed"}]
  BY <1>0, FinallyEffect DEF Advances
<1>2. ~Replying(t)' /\ turn'[t].pc \notin Preparing \cup Asking /\ turn'[t].pc # "unused"
  BY <1>1 DEF Advances, Replying, MayReply, InTry, Preparing, Asking
<1> QED BY <1>1, <1>2 DEF Advances, Works

LEMMA ProceedKinds ==
    ASSUME TypeOK, NEW t \in Turns, Proceed(t)
    PROVE  Works(t) \/ Ends(t)
<1>1. CASE LoadContext(t) \/ TakeEmptyPrompt(t) \/ Sent(t) \/ Uploaded(t) \/ Ask(t)
             \/ Answered(t) \/ Raises(t) \/ StoppedWithError(t) \/ RaisesEarly(t)
  BY <1>1, GotoWorks
<1>2. ASSUME NEW pc \in InTry \cup {"sending"}, NEW kind \in {"question", "files", "answer"},
             Goto(t, pc), AppendTo(t, kind), turn[t].pc \notin {"unused", "done"}, session' = session,
             Replying(t) \/ kind = "question",
             pc \in Asking => \/ turn[t].pc \in Asking /\ UNCHANGED memory
                              \/ /\ turn[t].pc \in Preparing /\ memory' = lists[session]
                                 /\ kind = "question"
      PROVE  Works(t)
  <2>0. pc \in {"unused", "done", "failing", "stopping", "crashing"} \cup BeforeTry \cup InTry
    BY DEF BeforeTry
  <2>1. Advances(t, pc)
    BY <1>2, <2>0, GotoEffect DEF Advances
  <2>2. pc # "unused" /\ pc \notin Preparing /\ kind \in {"question", "files", "answer", "error"}
    BY DEF InTry, Preparing
  <2> QED BY <1>2, <2>1, <2>2 DEF Advances, Works, Running
<1>3. CASE TakeQuestion(t)
  <2>1. turn[t].pc \in Preparing /\ memory' = lists[session]
    BY <1>3 DEF TakeQuestion, EnsureAgent, BuildAgent, ApplyAgentSettings,
                SetConversationThread, At, Preparing
  <2>2. Goto(t, "sending") /\ AppendTo(t, "question") /\ session' = session
    BY <1>3 DEF TakeQuestion
  <2> QED BY <1>2, <2>1, <2>2 DEF Preparing
<1>4. CASE Confirmed(t)
  <2>1. "ensuring" \in InTry /\ "ensuring" \in Asking
    BY DEF InTry, Asking
  <2>2. turn[t].pc = "confirming" /\ Replying(t) /\ turn[t].pc \in Asking
    BY <1>4 DEF Confirmed, At, Replying, MayReply, InTry, Asking
  <2> QED BY <1>2, <1>4, <2>1, <2>2 DEF Confirmed
<1>5. CASE StoreAnswerAndTitle(t)
  <2>1. "titling" \in InTry /\ "titling" \notin Asking
    BY DEF InTry, Asking
  <2>2. turn[t].pc = "streaming" /\ Replying(t)
    BY <1>5 DEF StoreAnswerAndTitle, Streamed, At, Replying, MayReply, InTry
  <2> QED BY <1>2, <1>5, <2>1, <2>2 DEF StoreAnswerAndTitle
<1>6. CASE StreamToken(t)
  <2>1. /\ turn[t].pc = "streaming" /\ lists' = lists /\ session' = session
        /\ turn' = [turn EXCEPT ![t] = [turn[t] EXCEPT !.emitted = turn[t].emitted + 1]]
    BY <1>6 DEF StreamToken, At
  <2>2. turn'[t] = [turn[t] EXCEPT !.emitted = turn[t].emitted + 1]
    BY <2>1 DEF TypeOK
  <2>3. Advances(t, "streaming")
    BY <2>1, <2>2 DEF Advances, TypeOK, Frame
  <2>4. "streaming" \notin Preparing \cup Asking /\ Running(t)
    BY <2>1 DEF Preparing, Asking, Running
  <2> QED BY <2>1, <2>3, <2>4 DEF Advances, Works, Replying
<1>7. CASE StoreAnswer(t)
  <2>1. Finally(t, "answered", FALSE) /\ AppendTo(t, "answer") /\ session' = turn[t].list
    BY <1>7 DEF StoreAnswer
  <2>2. Running(t) /\ Replying(t)
    BY <1>7 DEF StoreAnswer, Streamed, At, Running, Replying, MayReply, InTry
  <2> QED BY <2>1, <2>2, FinallyWorks
<1>8. CASE Titled(t)
  <2>1. Finally(t, "answered", FALSE) /\ lists' = lists /\ session' = turn[t].list /\ Running(t)
    BY <1>8 DEF Titled, At, Running
  <2> QED BY <2>1, FinallyWorks
<1>9. CASE Reported(t)
  <2>1. Finally(t, "failed", FALSE) /\ AppendTo(t, "error") /\ session' = turn[t].list
    BY <1>9 DEF Reported
  <2>2. Running(t) /\ Replying(t)
    BY <1>9 DEF Reported, At, Running, Replying, MayReply
  <2> QED BY <2>1, <2>2, FinallyWorks
<1>10. CASE ReportRaises(t)
  <2>1. Finally(t, "failed", TRUE) /\ lists' = lists /\ session' = session /\ Running(t)
    BY <1>10 DEF ReportRaises, At, Running
  <2> QED BY <2>1, FinallyWorks
<1>11. CASE Declined(t) \/ Stopped(t) \/ Crashed(t) \/ CrashRaises(t)
  BY <1>11 DEF Declined, Stopped, Crashed, CrashRaises, Ends, Running, At
<1> QED BY <1>1, <1>3, <1>4, <1>5, <1>6, <1>7, <1>8, <1>9, <1>10, <1>11 DEF Proceed

LEMMA CancelKinds ==
    ASSUME TypeOK, NEW t \in Turns, Cancel(t)
    PROVE  Works(t) \/ Ends(t)
<1>1. CASE turn[t].pc \in InTry \cup {"failing"} /\ Finally(t, "cancelled", FALSE)
             /\ UNCHANGED <<lists, session>>
  <2>1. Running(t) /\ lists' = lists /\ session' = session
    BY <1>1 DEF InTry, Running
  <2> QED BY <1>1, <2>1, FinallyWorks
<1>2. CASE turn[t].pc \in BeforeTry \cup {"crashing"} /\ End(t, session)
  BY <1>2 DEF BeforeTry, Running, Ends
<1> QED BY <1>1, <1>2 DEF Cancel

LEMMA StepKinds ==
    ASSUME TypeOK, [Next]_vars
    PROVE  \/ \E t \in Turns : Works(t) \/ Ends(t) \/ Begins(t)
           \/ Idles
           \/ Feedback
<1>1. ASSUME NEW t \in Turns, NextTurn(t), NEW m \in NextSteps, OnMessage(t, m)
      PROVE  Begins(t)
  BY <1>1 DEF NextSteps, Begins
<1>2. ASSUME NEW t \in Turns, Tick(t) \/ TickRaises(t) \/ AnimationCancelled(t)
      PROVE  Idles
  BY <1>2 DEF Tick, TickRaises, AnimationCancelled, Idles
<1>3. CASE CheckStatus \/ Resume
  BY <1>3 DEF CheckStatus, Resume, Idles
<1>4. CASE UNCHANGED vars
  BY <1>4 DEF vars, Idles
<1> QED BY <1>1, <1>2, <1>3, <1>4, ProceedKinds, CancelKinds DEF Next

-----------------------------------------------------------------------------
(* Types *)

LEMMA TypeInit ==
    ASSUME Init
    PROVE  TypeOK
<1>1. NewTurn \in Frame /\ Blank \in [status : BOOLEAN, tokens : Nat]
  BY DEF NewTurn, Frame, Blank
<1>2. <<>> \in Seq(Entry)
  OBVIOUS
<1> QED BY <1>1, <1>2 DEF Init, TypeOK

LEMMA TypeStep ==
    ASSUME HistoryInv, [Next]_vars
    PROVE  TypeOK'
<1> DEFINE dom == Turns \cup {Start}
           Animations == {"none", "running", "cancelling", "cancelled", "failed"}
           Content == [status : BOOLEAN, tokens : Nat]
<1>0. TypeOK
  BY DEF HistoryInv
<1>1. serial' \in BOOLEAN
  BY <1>0 DEF TypeOK, Next, vars
<1>2. /\ agent \in BOOLEAN /\ indexing \in BOOLEAN /\ lists \in [dom -> Seq(Entry)]
      /\ session \in dom /\ memory \in Seq(Entry) /\ turn \in [Turns -> Frame]
      /\ shown \in [Turns -> Content] /\ animation \in [Turns -> Animations]
      /\ \A t \in Turns : turn[t].list \in dom
      /\ lists[session] \in Seq(Entry)
  BY <1>0 DEF TypeOK, Frame
<1>3. [status |-> TRUE, tokens |-> 0] \in Content /\ Blank \in Content
  BY DEF Blank
<1> HIDE DEF Animations, Content, dom
<1> SUFFICES /\ agent' \in BOOLEAN /\ indexing' \in BOOLEAN /\ lists' \in [dom -> Seq(Entry)]
             /\ session' \in dom /\ memory' \in Seq(Entry) /\ turn' \in [Turns -> Frame]
             /\ shown' \in [Turns -> Content] /\ animation' \in [Turns -> Animations]
  BY <1>1 DEF TypeOK, dom, Content, Animations
<1>4. ASSUME NEW t \in Turns, NEW m \in Steps, OnMessage(t, m)
      PROVE  /\ lists' \in [dom -> Seq(Entry)] /\ session' \in dom /\ turn' \in [Turns -> Frame]
             /\ UNCHANGED <<agent, indexing, memory, shown, animation>>
  BY <1>4, OnMessageEffect DEF OnMessage, dom
<1>5. ASSUME NEW t \in Turns, Proceed(t)
      PROVE  /\ agent' \in BOOLEAN /\ indexing' \in BOOLEAN /\ lists' \in [dom -> Seq(Entry)]
             /\ session' \in dom /\ memory' \in Seq(Entry) /\ turn' \in [Turns -> Frame]
             /\ shown' \in [Turns -> Content] /\ animation' \in [Turns -> Animations]
  <2>1. ASSUME NEW pc, Goto(t, pc), pc \in BeforeTry \cup InTry
        PROVE  turn' \in [Turns -> Frame]
    BY <1>0, <2>1, GotoEffect
  <2>2. ASSUME NEW r \in {"answered", "failed", "cancelled"}, NEW raised \in BOOLEAN,
               Finally(t, r, raised)
        PROVE  turn' \in [Turns -> Frame] /\ animation' \in [Turns -> Animations]
    BY <1>0, <2>2, FinallyEffect DEF Animations
  <2>3. ASSUME NEW kind \in {"question", "files", "answer", "error"}, AppendTo(t, kind)
        PROVE  lists' \in [dom -> Seq(Entry)]
    BY <1>0, <2>3, AppendEffect DEF dom
  <2>4. ASSUME NEW s \in dom, End(t, s)
        PROVE  /\ lists' \in [dom -> Seq(Entry)] /\ session' = s
               /\ turn' \in [Turns -> Frame] /\ shown' \in [Turns -> Content]
    <3>1. session' = s
      BY <2>4 DEF End
    <3> QED BY <1>0, <2>4, <3>1, EndEffect DEF dom, Content
  <2>5. CASE LoadContext(t) \/ TakeEmptyPrompt(t) \/ Uploaded(t) \/ Ask(t)
               \/ Raises(t) \/ RaisesEarly(t)
    <3>1. turn' \in [Turns -> Frame]
      BY <1>0, <2>5, GotoWorks
    <3>2. UNCHANGED <<lists, session, shown, animation>>
      BY <2>5 DEF LoadContext, TakeEmptyPrompt, Uploaded, Ask, Raises, RaisesEarly
    <3>3. agent' \in BOOLEAN /\ indexing' \in BOOLEAN /\ memory' \in {memory, lists[session]}
      BY <1>2, <2>5 DEF LoadContext, TakeEmptyPrompt, Uploaded, Ask, Raises, RaisesEarly, EnsureAgent,
                 BuildAgent, ApplyAgentSettings, SetConversationThread, RememberIndexingTask
    <3> QED BY <1>2, <3>1, <3>2, <3>3
  <2>6. CASE Sent(t) \/ Answered(t) \/ StoppedWithError(t)
    <3>1. turn' \in [Turns -> Frame]
      BY <1>0, <2>6, GotoWorks
    <3>2. UNCHANGED <<lists, session, agent, indexing, memory>>
      BY <2>6 DEF Sent, Answered, StoppedWithError
    <3>3. shown' \in [Turns -> Content]
      <4>1. CASE Sent(t)
        BY <1>2, <1>3, <4>1 DEF Sent
      <4>2. CASE Answered(t) \/ StoppedWithError(t)
        BY <1>2, <1>3, <4>2 DEF Answered, StoppedWithError
      <4> QED BY <2>6, <4>1, <4>2
    <3>4. animation' \in [Turns -> Animations]
      BY <1>2, <2>6 DEF Sent, Answered, StoppedWithError, Animations
    <3> QED BY <1>2, <3>1, <3>2, <3>3, <3>4
  <2>7. CASE TakeQuestion(t)
    <3>1. turn' \in [Turns -> Frame] /\ lists' \in [dom -> Seq(Entry)]
      BY <2>1, <2>3, <2>7 DEF TakeQuestion, BeforeTry
    <3> QED BY <1>2, <2>7, <3>1 DEF TakeQuestion, EnsureAgent, BuildAgent, ApplyAgentSettings,
                                    SetConversationThread
  <2>8. CASE Confirmed(t) \/ StoreAnswerAndTitle(t)
    <3>1. turn' \in [Turns -> Frame] /\ lists' \in [dom -> Seq(Entry)]
      BY <2>1, <2>3, <2>8 DEF Confirmed, StoreAnswerAndTitle, InTry
    <3> QED BY <1>2, <2>8, <3>1 DEF Confirmed, StoreAnswerAndTitle
  <2>9. CASE StreamToken(t)
    <3>1. turn[t] \in Frame /\ shown[t] \in Content
      BY <1>2
    <3>2. /\ turn' = [turn EXCEPT ![t] = [turn[t] EXCEPT !.emitted = turn[t].emitted + 1]]
          /\ shown' = [shown EXCEPT ![t] = [shown[t] EXCEPT !.tokens = shown[t].tokens + 1]]
          /\ UNCHANGED <<lists, session, agent, indexing, memory, animation>>
      BY <2>9 DEF StreamToken
    <3>3. [turn[t] EXCEPT !.emitted = turn[t].emitted + 1] \in Frame
      BY <3>1 DEF Frame
    <3>4. [shown[t] EXCEPT !.tokens = shown[t].tokens + 1] \in Content
      BY <3>1 DEF Content
    <3> QED BY <1>2, <3>2, <3>3, <3>4
  <2>10. CASE StoreAnswer(t) \/ Titled(t)
    <3>1. turn' \in [Turns -> Frame] /\ animation' \in [Turns -> Animations]
      BY <2>2, <2>10 DEF StoreAnswer, Titled
    <3>2. lists' \in [dom -> Seq(Entry)]
      BY <1>2, <2>3, <2>10 DEF StoreAnswer, Titled
    <3> QED BY <1>2, <2>10, <3>1, <3>2 DEF StoreAnswer, Titled
  <2>11. CASE Reported(t) \/ ReportRaises(t)
    <3>1. turn' \in [Turns -> Frame] /\ animation' \in [Turns -> Animations]
      BY <2>2, <2>11 DEF Reported, ReportRaises
    <3>2. lists' \in [dom -> Seq(Entry)]
      BY <1>2, <2>3, <2>11 DEF Reported, ReportRaises
    <3> QED BY <1>2, <2>11, <3>1, <3>2 DEF Reported, ReportRaises
  <2>12. CASE Declined(t) \/ Crashed(t) \/ CrashRaises(t) \/ Stopped(t)
    <3>1. \E s \in dom : End(t, s)
      BY <1>2, <2>12 DEF Declined, Crashed, CrashRaises, Stopped
    <3>2. UNCHANGED <<agent, indexing, memory>> /\ animation' \in [Turns -> Animations]
      BY <1>2, <2>12 DEF Declined, Crashed, CrashRaises, Stopped, Animations
    <3> QED BY <1>2, <2>4, <3>1, <3>2
  <2> QED BY <1>5, <2>5, <2>6, <2>7, <2>8, <2>9, <2>10, <2>11, <2>12 DEF Proceed
<1>6. ASSUME NEW t \in Turns, Cancel(t)
      PROVE  /\ lists' \in [dom -> Seq(Entry)] /\ session' \in dom /\ turn' \in [Turns -> Frame]
             /\ shown' \in [Turns -> Content] /\ animation' \in [Turns -> Animations]
             /\ UNCHANGED <<agent, indexing, memory>>
  <2>1. CASE Finally(t, "cancelled", FALSE) /\ UNCHANGED <<lists, session, agent, indexing, memory, shown>>
    BY <1>0, <1>2, <2>1, FinallyEffect DEF Animations
  <2>2. CASE End(t, session) /\ UNCHANGED <<agent, indexing, memory, animation>>
    <3>1. session' = session
      BY <2>2 DEF End
    <3> QED BY <1>0, <1>2, <2>2, <3>1, EndEffect DEF dom, Content
  <2> QED BY <1>6, <2>1, <2>2 DEF Cancel
<1>7. ASSUME NEW t \in Turns, Tick(t) \/ TickRaises(t) \/ AnimationCancelled(t)
      PROVE  /\ shown' \in [Turns -> Content] /\ animation' \in [Turns -> Animations]
             /\ UNCHANGED <<lists, session, agent, indexing, memory, turn>>
  <2>1. CASE Tick(t)
    BY <1>2, <1>3, <2>1 DEF Tick
  <2>2. CASE TickRaises(t) \/ AnimationCancelled(t)
    BY <1>2, <2>2 DEF TickRaises, AnimationCancelled, Animations
  <2> QED BY <1>7, <2>1, <2>2
<1>8. ASSUME CheckStatus \/ Feedback \/ Resume
      PROVE  /\ agent' \in BOOLEAN /\ session' \in dom /\ memory' \in Seq(Entry)
             /\ UNCHANGED <<lists, indexing, turn, shown, animation>>
  <2>1. <<>> \in Seq(Entry)
    OBVIOUS
  <2> QED BY <1>2, <1>8, <2>1 DEF CheckStatus, Feedback, Resume, SetConversationThread, dom
<1>9. CASE UNCHANGED vars
  BY <1>2, <1>9 DEF vars
<1>10. NextSteps \subseteq Steps
  BY DEF NextSteps
<1>11. CASE Next
  <2>1. CASE CheckStatus \/ Feedback \/ Resume
    BY <1>2, <1>8, <2>1
  <2>2. ASSUME NEW t \in Turns, Cancel(t) \/ Tick(t) \/ TickRaises(t) \/ AnimationCancelled(t)
        PROVE  /\ agent' \in BOOLEAN /\ indexing' \in BOOLEAN /\ lists' \in [dom -> Seq(Entry)]
               /\ session' \in dom /\ memory' \in Seq(Entry) /\ turn' \in [Turns -> Frame]
               /\ shown' \in [Turns -> Content] /\ animation' \in [Turns -> Animations]
    BY <1>2, <1>6, <1>7, <2>2
  <2>3. ASSUME NEW t \in Turns, NEW m \in NextSteps, OnMessage(t, m)
        PROVE  /\ agent' \in BOOLEAN /\ indexing' \in BOOLEAN /\ lists' \in [dom -> Seq(Entry)]
               /\ session' \in dom /\ memory' \in Seq(Entry) /\ turn' \in [Turns -> Frame]
               /\ shown' \in [Turns -> Content] /\ animation' \in [Turns -> Animations]
    BY <1>2, <1>4, <1>10, <2>3
  <2> QED BY <1>5, <1>11, <2>1, <2>2, <2>3 DEF Next
<1> QED BY <1>9, <1>11

-----------------------------------------------------------------------------
(* Every reply has its question *)

LEMMA HistoryInit ==
    ASSUME Init
    PROVE  HistoryInv
<1>1. TypeOK
  BY TypeInit
<1>2. \A t \in Turns : turn[t].pc = "unused" /\ turn[t] = NewTurn
  BY DEF Init, NewTurn
<1>3. \A n \in DOMAIN lists : Answers(lists[n]) = {}
  BY DEF Init, Answers
<1>4. ListsHeld
  BY <1>2, StartAssumption DEF Init, ListsHeld, Running
<1>5. QuestionsHeld
  BY <1>2 DEF QuestionsHeld, MayReply, InTry
<1>6. RepliesHaveQuestions
  BY <1>3 DEF RepliesHaveQuestions
<1> QED BY <1>1, <1>4, <1>5, <1>6 DEF HistoryInv

LEMMA WorkOnward ==
    ASSUME NEW t \in Turns, Works(t)
    PROVE  Onward
<1>1. \A u \in Turns : Running(u)' => Running(u) /\ turn'[u].list = turn[u].list
  BY DEF Works, Running
<1>2. \A u \in Turns : At(u, "unused")' => At(u, "unused")
  BY DEF Works, At
<1>3. session' = session \/ session' = turn[t].list
  BY DEF Works
<1> QED BY <1>1, <1>2, <1>3 DEF Onward, Works

LEMMA HistoryStep ==
    ASSUME HistoryInv, [Next]_vars
    PROVE  HistoryInv'
<1>0. TypeOK /\ TypeOK'
  BY TypeStep DEF HistoryInv
<1>1. ASSUME NEW t \in Turns, Works(t)
      PROVE  HistoryInv'
  <2>1. Onward /\ Running(t)
    BY <1>1, WorkOnward DEF Works
  <2>2. \A u \in Turns : u # t => (Replying(u)' => Replying(u))
    BY <1>1 DEF Works, Replying
  <2>3. CASE lists' = lists /\ (Replying(t)' => Replying(t))
    BY <1>0, <2>1, <2>2, <2>3, QuietStep
  <2>4. ASSUME NEW kind \in {"question", "files", "answer", "error"}, AppendTo(t, kind),
               Replying(t)' => Replying(t) \/ kind = "question",
               kind \in {"answer", "error"} => Replying(t)
        PROVE  HistoryInv'
    BY <1>0, <2>1, <2>2, <2>4, AppendStep
  <2> QED BY <1>1, <2>3, <2>4 DEF Works
<1>2. ASSUME NEW t \in Turns, Ends(t)
      PROVE  HistoryInv'
  BY <1>0, <1>2, EndStep DEF Ends
<1>3. ASSUME NEW t \in Turns, Begins(t)
      PROVE  HistoryInv'
  BY <1>0, <1>3, BeginStep DEF Begins
<1>4. CASE Idles \/ Feedback
  <2>1. lists' = lists /\ turn' = turn /\ session' \in {session, Start}
    BY <1>4 DEF Idles, Feedback
  <2>2. Onward
    BY <2>1, StartAssumption DEF Onward, Running, At
  <2>3. \A u \in Turns : Replying(u)' => Replying(u)
    BY <2>1 DEF Replying
  <2> QED BY <1>0, <2>1, <2>2, <2>3, QuietStep
<1> QED BY <1>0, <1>1, <1>2, <1>3, <1>4, StepKinds

(* The state of the session keeps its types: handlers, their lists, their  *)
(* messages and their animations.                                          *)
THEOREM TypeCorrect == Spec => []TypeOK
<1>1. HistoryInv /\ [Next]_vars => HistoryInv'
  BY HistoryStep
<1>2. Init => HistoryInv
  BY HistoryInit
<1>3. HistoryInv => TypeOK
  BY DEF HistoryInv
<1> QED BY <1>1, <1>2, <1>3, PTL DEF Spec

(* However turns overlap, are stopped or fail, whatever messages are       *)
(* edited meanwhile, no history holds an answer or an error of on_message  *)
(* without the question it replies to.                                     *)
THEOREM RepliesAreAsked == Spec => []RepliesHaveQuestions
<1>1. HistoryInv /\ [Next]_vars => HistoryInv'
  BY HistoryStep
<1>2. Init => HistoryInv
  BY HistoryInit
<1>3. HistoryInv => RepliesHaveQuestions
  BY DEF HistoryInv
<1> QED BY <1>1, <1>2, <1>3, PTL DEF Spec

-----------------------------------------------------------------------------
(* When turns do not overlap *)

SerialPart == OneTurn /\ SessionHeld /\ MemoryHeld

(* One turn works: its question goes after what the agent was given.       *)
LEMMA SerialWork ==
    ASSUME SerialInv, HistoryInv', serial, NEW t \in Turns, Works(t)
    PROVE  SerialPart'
<1> DEFINE l == turn[t].list
           dom == Turns \cup {Start}
<1>0. TypeOK /\ ListsHeld /\ OneTurn /\ SessionHeld /\ MemoryHeld
  BY DEF SerialInv, HistoryInv
<1>1. /\ Running(t) /\ turn'[t].list = l /\ session' \in {session, l}
      /\ \A u \in Turns : u # t => ~Running(u) /\ turn'[u] = turn[u]
  BY <1>0 DEF Works, OneTurn
<1>2. \A u \in Turns : Running(u)' => u = t
  BY <1>1 DEF Running
<1>3. /\ l \in Turns /\ lists[l] \in Seq(Entry) /\ Len(lists[l]) \in Nat
      /\ DOMAIN lists[l] = 1 .. Len(lists[l])
  <2>1. l \in Turns
    BY <1>0, <1>1 DEF ListsHeld
  <2>2. lists[l] \in Seq(Entry)
    BY <1>0, <2>1 DEF TypeOK
  <2> QED BY <2>1, <2>2
<1>4. \/ lists' = lists
      \/ \E e \in Entry : e.turn = t /\ lists'[l] = Append(lists[l], e)
  BY <1>0, AppendEffect DEF Works
<1> HIDE DEF l
<1>5. ASSUME NEW e \in Entry, lists'[l] = Append(lists[l], e)
      PROVE  /\ DOMAIN lists'[l] = 1 .. Len(lists[l]) + 1
             /\ \A k \in 1 .. Len(lists[l]) : lists'[l][k] = lists[l][k]
             /\ lists'[l][Len(lists[l]) + 1] = e
             /\ \A n \in 1 .. Len(lists[l]) + 1 : SubSeq(lists'[l], 1, n - 1) = SubSeq(lists[l], 1, n - 1)
  <2>1. /\ Append(lists[l], e) \in Seq(Entry) /\ Len(Append(lists[l], e)) = Len(lists[l]) + 1
        /\ \A k \in 1 .. Len(lists[l]) + 1 :
              Append(lists[l], e)[k] = IF k = Len(lists[l]) + 1 THEN e ELSE lists[l][k]
    BY <1>3, AppendProperties
  <2>2. DOMAIN Append(lists[l], e) = 1 .. Len(lists[l]) + 1
    BY <2>1
  <2>3. ASSUME NEW n \in 1 .. Len(lists[l]) + 1
        PROVE  SubSeq(lists'[l], 1, n - 1) = SubSeq(lists[l], 1, n - 1)
    <3> DEFINE m == n - 1
               long == SubSeq(lists'[l], 1, m)
               short == SubSeq(lists[l], 1, m)
    <3>1. m \in 0 .. Len(lists[l]) /\ lists'[l] \in Seq(Entry) /\ Len(lists'[l]) = Len(lists[l]) + 1
      BY <1>3, <1>5, <2>1
    <3> HIDE DEF m
    <3>2. long \in Seq(Entry) /\ Len(long) = m /\ \A k \in 1 .. m : long[k] = lists'[l][k]
      BY <1>3, <3>1
    <3>3. short \in Seq(Entry) /\ Len(short) = m /\ \A k \in 1 .. m : short[k] = lists[l][k]
      BY <1>3, <3>1
    <3>4. \A k \in 1 .. m : lists'[l][k] = lists[l][k]
      BY <1>3, <1>5, <2>1, <3>1
    <3> HIDE DEF long, short
    <3>5. \A k \in 1 .. m : long[k] = short[k]
      BY <3>2, <3>3, <3>4
    <3>6. long = short
      BY <3>2, <3>3, <3>5, SeqEqual
    <3> QED BY <3>6 DEF long, short, m
  <2> QED BY <1>3, <1>5, <2>1, <2>2, <2>3
<1>6. OneTurn'
  BY <1>2 DEF OneTurn
<1>7. SessionHeld'
  <2>1. CASE session' = l
    BY <1>1, <1>2, <2>1 DEF SessionHeld
  <2>2. CASE session' # l
    <3>1. session' = Start /\ \A n \in DOMAIN lists[l] : lists[l][n].turn = t
      BY <1>0, <1>1, <2>2 DEF SessionHeld, Own, l
    <3>2. \A n \in DOMAIN lists'[l] : lists'[l][n].turn = t
      <4>1. CASE lists' = lists
        BY <3>1, <4>1
      <4>2. ASSUME NEW e \in Entry, e.turn = t, lists'[l] = Append(lists[l], e)
            PROVE  \A n \in DOMAIN lists'[l] : lists'[l][n].turn = t
        BY <1>3, <1>5, <3>1, <4>2
      <4> QED BY <1>4, <4>1, <4>2
    <3> QED BY <1>1, <1>2, <3>1, <3>2 DEF SessionHeld, Own
  <2> QED BY <2>1, <2>2
<1>8. MemoryHeld'
  <2>1. ASSUME turn'[t].pc \in Preparing
        PROVE  lists'[session'] = lists'[turn'[t].list]
    <3>1. turn[t].pc \in Preparing /\ lists' = lists /\ session' = session
      BY <2>1 DEF Works
    <3> QED BY <1>0, <1>1, <3>1 DEF MemoryHeld, Preparing, Own, l
  <2>2. ASSUME turn'[t].pc \in Asking
        PROVE  \E n \in DOMAIN lists'[l] :
                  QuestionOf(t, lists'[l][n]) /\ memory' = SubSeq(lists'[l], 1, n - 1)
    <3>1. CASE turn[t].pc \in Asking /\ UNCHANGED memory
      <4>1. PICK n \in DOMAIN lists[l] : QuestionOf(t, lists[l][n]) /\ memory = SubSeq(lists[l], 1, n - 1)
        BY <1>0, <3>1 DEF MemoryHeld, Asking, InContext, Own, l
      <4>2. CASE lists' = lists
        BY <3>1, <4>1, <4>2
      <4>3. ASSUME NEW e \in Entry, lists'[l] = Append(lists[l], e)
            PROVE  /\ n \in DOMAIN lists'[l] /\ lists'[l][n] = lists[l][n]
                   /\ SubSeq(lists'[l], 1, n - 1) = SubSeq(lists[l], 1, n - 1)
        BY <1>3, <1>5, <4>1, <4>3
      <4> QED BY <1>4, <3>1, <4>1, <4>2, <4>3
    <3>2. CASE turn[t].pc \in Preparing /\ memory' = lists[session] /\ AppendTo(t, "question")
      <4>1. memory' = lists[l]
        BY <1>0, <3>2 DEF MemoryHeld, Preparing, Own, l
      <4>2. PICK e \in Entry : e.turn = t /\ e.kind = "question" /\ lists'[l] = Append(lists[l], e)
        BY <1>0, <3>2, AppendEffect DEF l
      <4> DEFINE n == Len(lists[l]) + 1
      <4>3. n \in DOMAIN lists'[l] /\ lists'[l][n] = e
            /\ SubSeq(lists'[l], 1, n - 1) = SubSeq(lists[l], 1, n - 1)
        BY <1>3, <1>5, <4>2
      <4>4. SubSeq(lists[l], 1, n - 1) = lists[l]
        BY <1>3
      <4> QED BY <4>1, <4>2, <4>3, <4>4 DEF QuestionOf
    <3> QED BY <2>2, <3>1, <3>2 DEF Works
  <2>3. \A u \in Turns : u # t => turn'[u].pc \notin Preparing \cup Asking
    BY <1>1 DEF Running, Preparing, Asking
  <2> QED BY <1>1, <2>1, <2>2, <2>3 DEF MemoryHeld, InContext, Own, Preparing, Asking, QuestionOf
<1> QED BY <1>6, <1>7, <1>8 DEF SerialPart

LEMMA SerialStep ==
    ASSUME SerialInv, [Next]_vars
    PROVE  SerialInv'
<1>0. HistoryInv /\ TypeOK /\ HistoryInv' /\ TypeOK' /\ ListsHeld /\ serial' = serial
  BY HistoryStep DEF SerialInv, HistoryInv, Next, vars
<1> SUFFICES ASSUME serial
             PROVE  SerialPart'
  BY <1>0 DEF SerialInv, SerialPart
<1>1. OneTurn /\ SessionHeld /\ MemoryHeld
  BY DEF SerialInv
<1>2. ASSUME NEW t \in Turns, Works(t)
      PROVE  SerialPart'
  BY <1>0, <1>2, SerialWork
<1>3. ASSUME NEW t \in Turns, Ends(t)
      PROVE  SerialPart'
  <2>1. PICK s \in {session, turn[t].list} : End(t, s)
    BY <1>3 DEF Ends
  <2>2. s \in Turns \cup {Start}
    BY <1>0 DEF TypeOK, Frame
  <2>3. turn'[t].pc = "done" /\ \A u \in Turns : u # t => turn'[u] = turn[u]
    BY <1>0, <2>1, <2>2, EndEffect
  <2>4. \A u \in Turns : turn'[u].pc \in {"unused", "done"}
    BY <1>1, <1>3, <2>3 DEF Ends, OneTurn, Running
  <2> QED BY <2>4 DEF SerialPart, OneTurn, SessionHeld, MemoryHeld, Running
<1>4. ASSUME NEW t \in Turns, Begins(t)
      PROVE  SerialPart'
  <2>1. PICK m \in Steps : OnMessage(t, m)
    BY <1>4 DEF Begins
  <2>2. \A u \in Turns : turn[u].pc \in {"unused", "done"}
    BY <2>1 DEF OnMessage, Running
  <2>3. /\ turn'[t].pc = "settings" /\ turn'[t].list = session'
        /\ \A u \in Turns : u # t => turn'[u] = turn[u]
    BY <1>0, <2>1, OnMessageEffect
  <2> QED BY <2>2, <2>3 DEF SerialPart, OneTurn, SessionHeld, MemoryHeld, Running, Own
<1>5. CASE Idles
  <2>1. CASE UNCHANGED memory
    BY <1>1, <1>5, <2>1 DEF Idles, SerialPart, OneTurn, SessionHeld, MemoryHeld, Running, Own, InContext
  <2>2. CASE \A t \in Turns : ~Running(t)
    BY <1>5, <2>2 DEF Idles, SerialPart, OneTurn, SessionHeld, MemoryHeld, Running
  <2> QED BY <1>5, <2>1, <2>2 DEF Idles
<1>6. CASE Feedback
  <2>1. /\ lists[session] = <<>> /\ session' = Start /\ lists[Start] = <<>>
        /\ UNCHANGED <<lists, memory, turn>>
    BY <1>0, <1>6 DEF Feedback, ListsHeld
  <2>2. SessionHeld'
    BY <1>1, <2>1 DEF SessionHeld, Running, Own
  <2>3. OneTurn' /\ MemoryHeld'
    BY <1>1, <2>1 DEF OneTurn, MemoryHeld, Running, Own, InContext
  <2> QED BY <2>2, <2>3 DEF SerialPart
<1> QED BY <1>0, <1>2, <1>3, <1>4, <1>5, <1>6, StepKinds

LEMMA SerialInit ==
    ASSUME Init
    PROVE  SerialInv
<1>1. \A t \in Turns : turn[t].pc = "unused"
  BY DEF Init, NewTurn
<1> QED BY <1>1, HistoryInit DEF SerialInv, OneTurn, SessionHeld, MemoryHeld, Running

(* A turn that overlaps no other is answered with the history before its   *)
(* question, all of it and nothing else, when handlers before it were      *)
(* stopped, failed or edited the history, and feedback replaced it.        *)
THEOREM QuestionsAreAskedInContext == Spec => AskedInContext
<1> DEFINE Asked == serial => \A t \in Turns :
             At(t, "ensuring") /\ turn'[t].pc = "asking"
               => \E n \in DOMAIN Own(t) :
                    /\ Own(t)[n].turn = t /\ Own(t)[n].kind = "question"
                    /\ memory = SubSeq(Own(t), 1, n - 1)
<1>1. SerialInv /\ [Next]_vars => SerialInv'
  BY SerialStep
<1>2. Init => SerialInv
  BY SerialInit
<1>3. SerialInv /\ [Next]_vars => Asked
  BY DEF SerialInv, MemoryHeld, InContext, QuestionOf, At
<1> QED BY <1>1, <1>2, <1>3, PTL DEF Spec, AskedInContext

(* Without overlap, what enters the session's history is what the handler  *)
(* that runs appended to it: a handler that was stopped or failed brings   *)
(* no list back with the branch that an edit has removed.                  *)
THEOREM BranchesStayRemoved == Spec => RemovedStaysRemoved
<1> DEFINE Fresh(e) == e \in {lists[session][n] : n \in DOMAIN lists[session]} \/ Running(e.turn)
           Removed == serial => \A k \in DOMAIN lists'[session'] : Fresh(lists'[session'][k])
<1>1. SerialInv /\ [Next]_vars => SerialInv'
  BY SerialStep
<1>2. Init => SerialInv
  BY SerialInit
<1>3. SerialInv /\ [Next]_vars => Removed
  <2> SUFFICES ASSUME SerialInv, [Next]_vars, serial
               PROVE  \A k \in DOMAIN lists'[session'] : Fresh(lists'[session'][k])
    OBVIOUS
  <2>0. /\ HistoryInv /\ TypeOK /\ ListsHeld /\ SessionHeld /\ lists'[Start] = <<>>
        /\ session \in Turns \cup {Start}
    BY SerialStep DEF SerialInv, HistoryInv, ListsHeld, TypeOK
  <2>1. \A k \in DOMAIN lists[session] : Fresh(lists[session][k])
    OBVIOUS
  <2>2. ASSUME NEW t \in Turns, Running(t), session = Start, session' = turn[t].list,
               \A n \in DOMAIN Own(t) : Own(t)[n].turn = t
        PROVE  \A k \in DOMAIN lists[session'] : Fresh(lists[session'][k])
    BY <2>2 DEF Own
  <2>3. ASSUME NEW t \in Turns, Running(t), session' \in {session, turn[t].list}
        PROVE  \/ session' = Start
               \/ \A k \in DOMAIN lists[session'] : Fresh(lists[session'][k])
    BY <2>0, <2>1, <2>2, <2>3 DEF SessionHeld
  <2>4. ASSUME NEW t \in Turns, Works(t)
        PROVE  \A k \in DOMAIN lists'[session'] : Fresh(lists'[session'][k])
    <3>1. /\ Running(t) /\ session' \in {session, turn[t].list}
          /\ turn[t].list \in Turns \cup {Start} /\ session' \in Turns \cup {Start}
      BY <2>0, <2>4 DEF Works, ListsHeld
    <3>2. CASE session' = Start
      BY <2>0, <3>2
    <3>3. CASE lists'[session'] = lists[session'] /\ session' # Start
      BY <2>3, <3>1, <3>3
    <3>4. ASSUME NEW e \in Entry, e.turn = t, session' # Start,
                 lists'[session'] = Append(lists[session'], e)
          PROVE  \A k \in DOMAIN lists'[session'] : Fresh(lists'[session'][k])
      <4>1. lists[session'] \in Seq(Entry)
        BY <2>0, <3>1 DEF TypeOK
      <4>2. /\ Append(lists[session'], e) \in Seq(Entry)
            /\ Len(Append(lists[session'], e)) = Len(lists[session']) + 1
            /\ \A k \in 1 .. Len(lists[session']) + 1 :
                  Append(lists[session'], e)[k] = IF k = Len(lists[session']) + 1 THEN e ELSE lists[session'][k]
        BY <4>1, AppendProperties
      <4>3. DOMAIN Append(lists[session'], e) = 1 .. Len(lists[session']) + 1
            /\ DOMAIN lists[session'] = 1 .. Len(lists[session']) /\ Len(lists[session']) \in Nat
        BY <4>1, <4>2
      <4>4. Fresh(e)
        BY <3>1, <3>4
      <4>5. \A k \in DOMAIN lists[session'] : Fresh(lists[session'][k])
        BY <2>3, <3>1, <3>4
      <4> HIDE DEF Fresh
      <4> QED BY <3>4, <4>2, <4>3, <4>4, <4>5
    <3>5. \/ lists' = lists
          \/ /\ \A n \in Turns \cup {Start} : n # turn[t].list => lists'[n] = lists[n]
             /\ \E e \in Entry : e.turn = t /\ lists'[turn[t].list] = Append(lists[turn[t].list], e)
      <4>1. ASSUME NEW kind \in {"question", "files", "answer", "error"}, AppendTo(t, kind)
            PROVE  /\ \A n \in Turns \cup {Start} : n # turn[t].list => lists'[n] = lists[n]
                   /\ \E e \in Entry : e.turn = t /\ lists'[turn[t].list] = Append(lists[turn[t].list], e)
        BY <2>0, <4>1, AppendEffect
      <4> QED BY <2>4, <4>1 DEF Works
    <3> HIDE DEF Fresh
    <3> QED BY <3>1, <3>2, <3>3, <3>4, <3>5
  <2>5. ASSUME NEW t \in Turns, Ends(t)
        PROVE  \A k \in DOMAIN lists'[session'] : Fresh(lists'[session'][k])
    <3>1. PICK s \in {session, turn[t].list} : End(t, s)
      BY <2>5 DEF Ends
    <3>2. Running(t) /\ session' = s /\ s \in Turns \cup {Start}
      BY <2>0, <2>5, <3>1 DEF Ends, End, ListsHeld
    <3>3. lists'[s] = lists[s]
      BY <2>0, <3>1, <3>2, EndEffect
    <3> HIDE DEF Fresh
    <3> QED BY <2>0, <2>3, <3>1, <3>2, <3>3
  <2>6. ASSUME NEW t \in Turns, Begins(t)
        PROVE  \A k \in DOMAIN lists'[session'] : Fresh(lists'[session'][k])
    <3>1. PICK m \in Steps : OnMessage(t, m)
      BY <2>6 DEF Begins
    <3>2. lists'[session'] = RemoveBranch(lists[session], m)
      BY <2>0, <3>1, OnMessageEffect
    <3>3. lists[session] \in Seq(Entry)
      BY <2>0 DEF TypeOK
    <3>4. \A k \in DOMAIN lists'[session'] :
             k \in DOMAIN lists[session] /\ lists'[session'][k] = lists[session][k]
      BY <3>2, <3>3, RemoveBranchEffect
    <3> HIDE DEF Fresh
    <3> QED BY <2>1, <3>4
  <2>7. CASE Idles \/ Feedback
    <3>1. lists' = lists /\ session' \in {session, Start}
      BY <2>7 DEF Idles, Feedback
    <3> HIDE DEF Fresh
    <3> QED BY <2>0, <2>1, <3>1
  <2> HIDE DEF Fresh
  <2> QED BY <2>0, <2>4, <2>5, <2>6, <2>7, StepKinds
<1> QED BY <1>1, <1>2, <1>3, PTL DEF Spec, RemovedStaysRemoved
=============================================================================
