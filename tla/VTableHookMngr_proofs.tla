------------------------ MODULE VTableHookMngr_proofs ------------------------
(***************************************************************************)
(* Proofs about the hooks on virtual functions, for any classes, values of *)
(* the parameter, numbers of functions and depth of nesting.  The          *)
(* inductive invariant IInv gives each call under way its place in the     *)
(* stacks of its hook: above what superceded calls have left there and     *)
(* what the calls around it own.  What a superceded call leaves behind     *)
(* shifts the places of the calls around it, and only those.               *)
(***************************************************************************)
EXTENDS VTableHookMngr, FiniteSetTheorems, SequenceTheorems, WellFoundedInduction, TLAPS

----------------------------------------------------------------------------
(* Counting the calls of a function on a stack.                            *)

\* The pairs of numbers of which the first is smaller.
Below == {p \in Nat \X Nat : p[1] < p[2]}

\* Every set of numbers that is not empty has a smallest one.
LEMMA SmallestNumber ==
  ASSUME NEW T, T \subseteq Nat, T # {}
  PROVE  \E x \in T : \A y \in T : x <= y
<1>1. IsWellFoundedOn(Below, Nat)
  BY NatLessThanWellFounded DEF OpToRel, Below
<1>2. PICK x \in T : \A y \in T : ~(<<y, x>> \in Below)
  BY <1>1, WFMin
<1>3. \A y \in T : ~(y < x)
  BY <1>2 DEF Below
<1>4. QED
  BY <1>3

\* Some numbers of 1..n have a largest one.
LEMMA LargestNumber ==
  ASSUME NEW n \in Nat, NEW T, T \subseteq 1..n, T # {}
  PROVE  \E x \in T : \A y \in T : y <= x
<1> DEFINE D == {n - x : x \in T}
<1>1. D \subseteq Nat /\ D # {}
  <2>1. \A x \in T : x \in Int /\ x <= n
    OBVIOUS
  <2>2. \A x \in T : n - x \in Nat
    BY <2>1
  <2>3. QED
    BY <2>2
<1>2. PICK d \in D : \A e \in D : d <= e
  <2> HIDE DEF D
  <2>1. QED
    BY <1>1, SmallestNumber
<1>3. PICK x \in T : d = n - x
  OBVIOUS
<1>4. \A y \in T : n - x <= n - y
  BY <1>2, <1>3
<1>5. QED
  BY <1>3, <1>4

\* A stack has finitely many calls.
LEMMA CountType ==
  ASSUME NEW stack, NEW v, NEW k \in Nat
  PROVE  CountIn(stack, v, k) \in Nat /\ IsFiniteSet({i \in 1..k : stack[i].vfunc = v})
<1>1. IsFiniteSet(1..k)
  BY FS_Interval
<1>2. {i \in 1..k : stack[i].vfunc = v} \in SUBSET (1..k)
  OBVIOUS
<1>3. QED
  BY <1>1, <1>2, FS_Subset, FS_CardinalityType DEF CountIn

\* One more call counts if it is of the function.
LEMMA CountNext ==
  ASSUME NEW stack, NEW v, NEW k \in Nat
  PROVE  CountIn(stack, v, k+1) = CountIn(stack, v, k) + IF stack[k+1].vfunc = v THEN 1 ELSE 0
<1> DEFINE S == {i \in 1..k : stack[i].vfunc = v}
           T == {i \in 1..k+1 : stack[i].vfunc = v}
<1>1. IsFiniteSet(S) /\ Cardinality(S) \in Nat
  BY CountType, FS_CardinalityType
<1>2. k+1 \notin S
  OBVIOUS
<1>3. CASE stack[k+1].vfunc = v
  <2>1. T = S \cup {k+1}
    BY <1>3
  <2>2. Cardinality(S \cup {k+1}) = Cardinality(S) + 1
    <3> HIDE DEF S
    <3>1. QED
      BY <1>1, <1>2, FS_AddElement
  <2>3. QED
    BY <1>3, <2>1, <2>2 DEF CountIn
<1>4. CASE stack[k+1].vfunc # v
  <2>1. T = S
    BY <1>4
  <2>2. Cardinality(T) = Cardinality(S) + 0
    <3> HIDE DEF S, T
    <3>1. QED
      BY <1>1, <2>1
  <2>3. QED
    BY <1>4, <2>2 DEF CountIn
<1>5. QED
  BY <1>3, <1>4

\* A longer part of a stack has at least as many calls of a function, and more
\* if its last one is of the function.
LEMMA CountGrows ==
  ASSUME NEW stack, NEW v, NEW j \in Nat, NEW k \in Nat, j <= k
  PROVE  /\ CountIn(stack, v, j) <= CountIn(stack, v, k)
         /\ j < k /\ stack[k].vfunc = v => CountIn(stack, v, j) < CountIn(stack, v, k)
<1> DEFINE S == {i \in 1..j : stack[i].vfunc = v}
           T == {i \in 1..k : stack[i].vfunc = v}
<1>1. IsFiniteSet(S) /\ IsFiniteSet(T) /\ Cardinality(S) \in Nat /\ Cardinality(T) \in Nat
  BY CountType, FS_CardinalityType
<1>2. S \in SUBSET T
  OBVIOUS
<1>3. j < k /\ stack[k].vfunc = v => S # T
  <2> SUFFICES ASSUME j < k, stack[k].vfunc = v PROVE k \in T /\ k \notin S
    OBVIOUS
  <2>1. QED
    OBVIOUS
<1>4. Cardinality(S) <= Cardinality(T) /\ (S # T => Cardinality(S) # Cardinality(T))
  <2> HIDE DEF S, T
  <2>1. QED
    BY <1>1, <1>2, FS_Subset
<1>5. QED
  BY <1>1, <1>3, <1>4 DEF CountIn

\* Only the functions of the calls count.
LEMMA CountSame ==
  ASSUME NEW stack, NEW other, NEW v, NEW k \in Nat,
         \A i \in 1..k : stack[i].vfunc = other[i].vfunc
  PROVE  CountIn(stack, v, k) = CountIn(other, v, k)
<1>1. {i \in 1..k : stack[i].vfunc = v} = {i \in 1..k : other[i].vfunc = v}
  OBVIOUS
<1>2. QED
  BY <1>1 DEF CountIn

\* The empty stack has no calls.
LEMMA CountNone == \A stack, v : CountIn(stack, v, 0) = 0
<1> SUFFICES ASSUME NEW stack, NEW v PROVE CountIn(stack, v, 0) = 0
  OBVIOUS
<1>1. {i \in 1..0 : stack[i].vfunc = v} = {}
  OBVIOUS
<1>2. QED
  BY <1>1, FS_EmptySet DEF CountIn

\* The innermost call of a function is its last one on the stack.
LEMMA InnermostIs ==
  ASSUME TypeOK, NEW v, \E k \in DOMAIN calls : calls[k].vfunc = v
  PROVE  /\ Innermost(v) \in DOMAIN calls /\ calls[Innermost(v)].vfunc = v
         /\ \A n \in DOMAIN calls : calls[n].vfunc = v => n <= Innermost(v)
         /\ CountIn(calls, v, Innermost(v)) = CountIn(calls, v, Len(calls))
<1>1. DOMAIN calls = 1..Len(calls) /\ Len(calls) \in Nat
  BY DEF TypeOK
<1> DEFINE T == {k \in 1..Len(calls) : calls[k].vfunc = v}
<1>2. T \subseteq 1..Len(calls) /\ T # {}
  BY <1>1
<1>3. \E x \in T : \A y \in T : y <= x
  <2> HIDE DEF T
  <2>1. QED
    BY <1>1, <1>2, LargestNumber
<1>4. /\ Innermost(v) \in DOMAIN calls /\ calls[Innermost(v)].vfunc = v
      /\ \A n \in DOMAIN calls : calls[n].vfunc = v => n <= Innermost(v)
  <2>1. \E k \in DOMAIN calls :
          calls[k].vfunc = v /\ \A n \in DOMAIN calls : calls[n].vfunc = v => n <= k
    BY <1>1, <1>3
  <2>2. QED
    BY <2>1 DEF Innermost
<1>5. {i \in 1..Innermost(v) : calls[i].vfunc = v} = T
  BY <1>1, <1>4
<1>6. QED
  BY <1>4, <1>5 DEF CountIn

----------------------------------------------------------------------------
(* Places in the stacks.                                                   *)

\* The half of the state that registering and clearing hooks changes.
HooksOK ==
  /\ hooked \in [Vfunc -> Class \cup {None}] /\ entries \subseteq Vfunc \X Class
  /\ before \in [Vfunc -> 0..MaxFunctions] /\ after \in [Vfunc -> 0..MaxFunctions]
  /\ entries = {<<v, hooked[v]>> : v \in {u \in Vfunc : hooked[u] # None}}

\* The half that calls change.
CallsOK ==
  /\ stacks \in [Vfunc -> Seq(Entry)]
  /\ \A v \in Vfunc : Len(stacks[v]) <= MaxStack
  /\ \A v \in Vfunc : \A i \in DOMAIN stacks[v] : stacks[v][i].param \in Float(v)
  /\ calls \in Seq(Call) /\ Len(calls) <= MaxNesting
  /\ lost \in [Vfunc -> 0..MaxStack]

\* The inductive invariant in two halves.
LEMMA Halves == IInv <=> HooksOK /\ CallsOK /\ StacksAreCounted /\ OwnParams /\ SpoiledBelow
BY DEF IInv, EntriesLeadToHooks, TypeOK, HooksOK, CallsOK

\* Calls that touch no hook.
LEMMA HooksStay == HooksOK /\ UNCHANGED hookVars => HooksOK'
BY DEF HooksOK, hookVars

\* The calls under way are calls of functions that can be hooked.
LEMMA CallOfStack ==
  ASSUME NEW stack \in Seq(Call), NEW k \in DOMAIN stack
  PROVE  stack[k] \in Call /\ stack[k].vfunc \in Vfunc
<1>1. stack[k] \in Call
  OBVIOUS
<1>2. QED
  BY <1>1 DEF Call

\* The place of a call is one that its hook has.
LEMMA OwnPlaceIs ==
  ASSUME CallsOK, StacksAreCounted, NEW k \in DOMAIN calls
  PROVE  /\ OwnPlace(k) \in DOMAIN stacks[calls[k].vfunc]
         /\ OwnPlace(k) \in 1..Len(stacks[calls[k].vfunc])
<1> DEFINE v == calls[k].vfunc
<1>1. v \in Vfunc /\ k \in Nat /\ k >= 1 /\ k <= Len(calls) /\ Len(calls) \in Nat
  BY CallOfStack DEF CallsOK
<1>2. lost[v] \in Nat /\ stacks[v] \in Seq(Entry) /\ Len(stacks[v]) = CountIn(calls, v, Len(calls)) + lost[v]
  BY <1>1, VTableBounds DEF CallsOK, StacksAreCounted
<1>3. /\ CountIn(calls, v, 0) < CountIn(calls, v, k)
      /\ CountIn(calls, v, k) <= CountIn(calls, v, Len(calls))
  BY <1>1, CountGrows
<1>4. /\ CountIn(calls, v, 0) \in Nat /\ CountIn(calls, v, k) \in Nat
      /\ CountIn(calls, v, Len(calls)) \in Nat
  BY <1>1, CountType
<1>5. OwnPlace(k) = CountIn(calls, v, k) + lost[v]
  BY DEF OwnPlace
<1> HIDE DEF v
<1>6. OwnPlace(k) \in 1..Len(stacks[v])
  BY <1>2, <1>3, <1>4, <1>5
<1>7. QED
  BY <1>2, <1>6 DEF v

\* Calls keep their places while nobody adds or removes any, and their
\* parameters when nobody changes one.
LEMMA SameCallsKeepIInv ==
  ASSUME IInv, UNCHANGED <<hookVars, lost>>, calls' \in Seq(Call), Len(calls') = Len(calls),
         \A k \in DOMAIN calls : /\ calls'[k].vfunc = calls[k].vfunc
                                 /\ calls'[k].mine = calls[k].mine
                                 /\ calls'[k].spoiled = calls[k].spoiled,
         stacks' \in [Vfunc -> Seq(Entry)],
         \A v \in Vfunc : Len(stacks'[v]) = Len(stacks[v]),
         \A v \in Vfunc : \A i \in DOMAIN stacks[v] : stacks'[v][i].param = stacks[v][i].param
  PROVE  IInv'
<1>1. HooksOK /\ CallsOK /\ StacksAreCounted /\ OwnParams /\ SpoiledBelow
  BY Halves
<1>2. HooksOK'
  BY <1>1, HooksStay
<1>3. DOMAIN calls' = DOMAIN calls /\ DOMAIN calls = 1..Len(calls) /\ Len(calls) \in Nat
  BY <1>1 DEF CallsOK
<1>4. \A v \in Vfunc : DOMAIN stacks'[v] = DOMAIN stacks[v]
  BY <1>1 DEF CallsOK
<1>5. CallsOK'
  <2>1. \A v \in Vfunc : Len(stacks'[v]) <= MaxStack
    BY <1>1 DEF CallsOK
  <2>2. \A v \in Vfunc : \A i \in DOMAIN stacks'[v] : stacks'[v][i].param \in Float(v)
    BY <1>1, <1>4 DEF CallsOK
  <2>3. QED
    BY <1>1, <2>1, <2>2 DEF CallsOK
<1>6. \A v : \A k \in 0..Len(calls) : CountIn(calls', v, k) = CountIn(calls, v, k)
  <2> SUFFICES ASSUME NEW v, NEW k \in 0..Len(calls)
               PROVE  CountIn(calls', v, k) = CountIn(calls, v, k)
    OBVIOUS
  <2>1. k \in Nat /\ \A i \in 1..k : calls'[i].vfunc = calls[i].vfunc
    BY <1>3
  <2>2. QED
    BY <2>1, CountSame
<1>7. StacksAreCounted'
  BY <1>1, <1>3, <1>6 DEF StacksAreCounted
<1>8. \A k \in DOMAIN calls : OwnPlace(k)' = OwnPlace(k) /\ calls[k].vfunc \in Vfunc
  BY <1>1, <1>3, <1>6, CallOfStack DEF OwnPlace, CallsOK
<1>9. OwnParams'
  <2> SUFFICES ASSUME NEW k \in DOMAIN calls', ~calls'[k].spoiled
               PROVE  stacks'[calls'[k].vfunc][OwnPlace(k)'].param = calls'[k].mine
    BY DEF OwnParams
  <2>1. stacks[calls[k].vfunc][OwnPlace(k)].param = calls[k].mine
    BY <1>1, <1>3 DEF OwnParams
  <2>2. OwnPlace(k) \in DOMAIN stacks[calls[k].vfunc]
    BY <1>1, <1>3, OwnPlaceIs
  <2>3. QED
    BY <1>3, <1>8, <2>1, <2>2
<1>10. SpoiledBelow'
  BY <1>1, <1>3 DEF SpoiledBelow
<1>11. QED
  BY <1>2, <1>5, <1>7, <1>9, <1>10, Halves, PTL

\* The innermost call.
LEMMA TopType ==
  ASSUME CallsOK, calls # <<>>
  PROVE  /\ Top \in Call /\ Len(calls) \in DOMAIN calls /\ Top = calls[Len(calls)]
         /\ Len(calls) \in Nat /\ Top.vfunc \in Vfunc
<1>1. Top \in Call /\ Len(calls) \in DOMAIN calls /\ Top = calls[Len(calls)] /\ Len(calls) \in Nat
  BY DEF CallsOK, Top
<1>2. QED
  BY <1>1 DEF Call

\* Replacing the innermost call.
LEMMA OnTopEffect ==
  ASSUME CallsOK, calls # <<>>, NEW frame \in Call, calls' = OnTop(frame)
  PROVE  /\ calls' \in Seq(Call) /\ Len(calls') = Len(calls) /\ calls' # <<>> /\ Top' = frame
         /\ \A k \in DOMAIN calls : calls'[k] = IF k = Len(calls) THEN frame ELSE calls[k]
<1>1. Len(calls) \in DOMAIN calls /\ calls \in Seq(Call)
  BY DEF CallsOK
<1>2. calls' = [calls EXCEPT ![Len(calls)] = frame]
  BY DEF OnTop
<1>3. calls' \in Seq(Call) /\ Len(calls') = Len(calls) /\ calls' # <<>>
  BY <1>1, <1>2
<1>4. QED
  BY <1>1, <1>2, <1>3 DEF Top

\* A stack without its last element.
LEMMA FrontEffect ==
  ASSUME NEW S, NEW s \in Seq(S), s # <<>>
  PROVE  /\ Front(s) \in Seq(S) /\ Len(Front(s)) = Len(s) - 1 /\ Len(s) \in Nat \ {0}
         /\ \A k \in 1..Len(s) - 1 : Front(s)[k] = s[k]
<1>1. Len(s) \in Nat \ {0} /\ Len(s) - 1 \in Nat
  OBVIOUS
<1>2. Front(s) = SubSeq(s, 1, Len(s) - 1)
  BY DEF Front
<1>3. ASSUME NEW n \in Nat, n = Len(s) - 1
      PROVE  Len(SubSeq(s, 1, n)) = n
  BY <1>1, <1>3
<1>4. Front(s) \in Seq(S) /\ Len(Front(s)) = Len(s) - 1
  <2>1. SubSeq(s, 1, Len(s) - 1) \in Seq(S)
    BY <1>1
  <2>2. QED
    BY <1>1, <1>2, <1>3, <2>1
<1>5. \A k \in 1..Len(s) - 1 : Front(s)[k] = s[k]
  BY <1>1, <1>2
<1>6. QED
  BY <1>1, <1>4, <1>5

\* Replacing what a hook keeps of the last call in its stacks.
LEMMA SetTopEffect ==
  ASSUME CallsOK, NEW v \in Vfunc, stacks[v] # <<>>, NEW entry \in Entry
  PROVE  /\ SetTop(v, entry) \in [Vfunc -> Seq(Entry)]
         /\ \A u \in Vfunc : u # v => SetTop(v, entry)[u] = stacks[u]
         /\ Len(SetTop(v, entry)[v]) = Len(stacks[v])
         /\ \A i \in DOMAIN stacks[v] :
              SetTop(v, entry)[v][i] = IF i = Len(stacks[v]) THEN entry ELSE stacks[v][i]
<1> DEFINE s == stacks[v]
           new == Front(s) \o <<entry>>
<1>1. s \in Seq(Entry) /\ s # <<>>
  BY DEF CallsOK
<1>2. /\ Front(s) \in Seq(Entry) /\ Len(Front(s)) = Len(s) - 1 /\ Len(s) \in Nat \ {0}
      /\ \A k \in 1..Len(s) - 1 : Front(s)[k] = s[k]
  <2> HIDE DEF s
  <2>1. QED
    BY <1>1, FrontEffect
<1>3. <<entry>> \in Seq(Entry) /\ Len(<<entry>>) = 1 /\ <<entry>>[1] = entry
  OBVIOUS
<1>4. /\ new \in Seq(Entry) /\ Len(new) = Len(s)
      /\ \A i \in 1..Len(s) : new[i] = IF i = Len(s) THEN entry ELSE s[i]
  <2> DEFINE f == Front(s)
             e == <<entry>>
  <2>1. f \in Seq(Entry) /\ e \in Seq(Entry) /\ Len(f) = Len(s) - 1 /\ Len(e) = 1 /\ e[1] = entry
    BY <1>2, <1>3
  <2> HIDE DEF f, e
  <2>2. /\ f \o e \in Seq(Entry) /\ Len(f \o e) = Len(f) + Len(e)
        /\ \A i \in 1..Len(f) + Len(e) : (f \o e)[i] = IF i <= Len(f) THEN f[i] ELSE e[i - Len(f)]
    BY <2>1, ConcatProperties
  <2>3. f = Front(s) /\ new = f \o e
    BY DEF f, e
  <2> HIDE DEF s, new
  <2>4. \A i \in 1..Len(s) : new[i] = IF i = Len(s) THEN entry ELSE s[i]
    BY <1>2, <2>1, <2>2, <2>3
  <2>5. QED
    BY <1>2, <2>1, <2>2, <2>3, <2>4
<1>5. SetTop(v, entry) = [stacks EXCEPT ![v] = new]
  BY DEF SetTop
<1>6. stacks \in [Vfunc -> Seq(Entry)] /\ DOMAIN s = 1..Len(s)
  BY <1>1 DEF CallsOK
<1>7. QED
  <2> HIDE DEF new
  <2>1. QED
    BY <1>4, <1>5, <1>6

----------------------------------------------------------------------------
(* Every action keeps the inductive invariant.                             *)

\* No hook, no call.
LEMMA InitIInv == Init => IInv
<1> SUFFICES ASSUME Init PROVE IInv
  OBVIOUS
<1>1. HooksOK
  BY VTableBounds DEF Init, HooksOK
<1>2. calls = <<>> /\ Len(<<>>) = 0 /\ DOMAIN calls = {} /\ <<>> \in Seq(Call) /\ <<>> \in Seq(Entry)
  BY DEF Init
<1>3. CallsOK
  BY <1>2, VTableBounds DEF Init, CallsOK
<1>4. StacksAreCounted
  BY <1>2, CountNone DEF Init, StacksAreCounted
<1>5. OwnParams /\ SpoiledBelow
  BY <1>2 DEF OwnParams, SpoiledBelow
<1>6. QED
  BY <1>1, <1>3, <1>4, <1>5, Halves

\* A class joins m_hooks and its entry the patched ones, both or neither.
LEMMA RegisterHookKeepsIInv ==
  ASSUME IInv, NEW v \in Vfunc, NEW c \in Class, RegisterHook(v, c)
  PROVE  IInv'
<1>1. HooksOK
  BY Halves
<1>2. UNCHANGED <<stacks, calls, lost>>
  BY DEF RegisterHook
<1>3. before' \in [Vfunc -> 0..MaxFunctions] /\ after' \in [Vfunc -> 0..MaxFunctions]
  <2>1. CASE before[v] < MaxFunctions /\ before' = [before EXCEPT ![v] = @ + 1] /\ UNCHANGED after
    <3>1. before[v] + 1 \in 0..MaxFunctions
      BY <1>1, <2>1, VTableBounds DEF HooksOK
    <3>2. QED
      BY <1>1, <2>1, <3>1 DEF HooksOK
  <2>2. CASE after[v] < MaxFunctions /\ after' = [after EXCEPT ![v] = @ + 1] /\ UNCHANGED before
    <3>1. after[v] + 1 \in 0..MaxFunctions
      BY <1>1, <2>2, VTableBounds DEF HooksOK
    <3>2. QED
      BY <1>1, <2>2, <3>1 DEF HooksOK
  <2>3. QED
    BY <2>1, <2>2 DEF RegisterHook
<1>4. hooked' \in [Vfunc -> Class \cup {None}] /\ entries' \subseteq Vfunc \X Class
  BY <1>1 DEF RegisterHook, HooksOK, Patched
<1>5. /\ hooked'[v] = IF hooked[v] = None THEN c ELSE hooked[v]
      /\ \A u \in Vfunc : u # v => hooked'[u] = hooked[u]
      /\ c # None
  BY <1>1, NoDamage DEF RegisterHook, HooksOK
<1>6. entries' = {<<u, hooked'[u]>> : u \in {w \in Vfunc : hooked'[w] # None}}
  <2>1. CASE hooked[v] = None
    <3>1. entries' = entries \cup {<<v, c>>}
      BY <2>1 DEF RegisterHook, Patched
    <3>2. {w \in Vfunc : hooked'[w] # None} = {w \in Vfunc : hooked[w] # None} \cup {v}
      BY <1>5, <2>1
    <3>3. QED
      BY <1>1, <1>5, <2>1, <3>1, <3>2 DEF HooksOK
  <2>2. CASE hooked[v] # None
    <3>1. entries' = entries /\ hooked' = hooked
      BY <1>1, <2>2 DEF RegisterHook, Patched, HooksOK
    <3>2. QED
      BY <1>1, <3>1 DEF HooksOK
  <2>3. QED
    BY <2>1, <2>2
<1>7. EntriesLeadToHooks'
  BY <1>2, <1>3, <1>4, <1>6 DEF EntriesLeadToHooks, TypeOK, IInv
<1>8. StacksAreCounted' /\ OwnParams' /\ SpoiledBelow'
  BY <1>2 DEF IInv, StacksAreCounted, OwnParams, SpoiledBelow, OwnPlace, CountIn
<1>9. QED
  BY <1>7, <1>8 DEF IInv

\* clearHooks() gives back every entry that was patched.
LEMMA ServerDeactivatePostKeepsIInv == IInv /\ ServerDeactivatePost => IInv'
<1> SUFFICES ASSUME IInv, ServerDeactivatePost PROVE IInv'
  OBVIOUS
<1> USE DEF ServerDeactivatePost
<1>1. HooksOK
  BY Halves
<1>2. entries' = {}
  BY <1>1 DEF HooksOK
<1>3. calls' = <<>> /\ Len(<<>>) = 0 /\ DOMAIN calls' = {} /\ <<>> \in Seq(Call) /\ <<>> \in Seq(Entry)
  OBVIOUS
<1>4. TypeOK'
  BY <1>2, <1>3, VTableBounds DEF TypeOK
<1>5. EntriesLeadToHooks'
  BY <1>2, <1>4 DEF EntriesLeadToHooks
<1>6. StacksAreCounted'
  BY <1>3, CountNone DEF StacksAreCounted
<1>7. OwnParams' /\ SpoiledBelow'
  BY <1>3 DEF OwnParams, SpoiledBelow
<1>8. QED
  BY <1>5, <1>6, <1>7 DEF IInv

\* A call that begins gets the next place of its hook; the others keep theirs.
LEMMA GameCallsKeepsIInv ==
  ASSUME IInv, NEW v \in Vfunc, NEW c \in Class, NEW d \in Float(v), GameCalls(v, c, d)
  PROVE  IInv'
<1> DEFINE entry == [param |-> d, ret |-> FALSE, original |-> FALSE]
           call == [vfunc |-> v, given |-> d, step |-> "pre", told |-> 0, result |-> Ignored,
                    mine |-> d, ran |-> None, spoiled |-> FALSE]
           n == Len(calls)
<1>1. HooksOK /\ CallsOK /\ StacksAreCounted /\ OwnParams /\ SpoiledBelow
  BY Halves
<1>2. /\ stacks' = [stacks EXCEPT ![v] = Append(@, entry)] /\ calls' = Append(calls, call)
      /\ Len(calls) < MaxNesting /\ Len(stacks[v]) < MaxStack /\ UNCHANGED <<hookVars, lost>>
  BY DEF GameCalls
<1>3. /\ entry \in Entry /\ entry.param = d
      /\ call \in Call /\ call.vfunc = v /\ call.mine = d /\ ~call.spoiled
  BY VTableBounds DEF Entry, Call, Float, Return, Ignored, Supercede
<1> HIDE DEF entry, call
<1>4. /\ calls' \in Seq(Call) /\ Len(calls') = n + 1 /\ n \in Nat
      /\ calls'[n + 1] = call /\ \A k \in 1..n : calls'[k] = calls[k]
      /\ DOMAIN calls = 1..n /\ DOMAIN calls' = 1..n + 1
  BY <1>1, <1>2, <1>3, AppendProperties DEF CallsOK
<1>5. stacks[v] \in Seq(Entry)
  BY <1>1 DEF CallsOK
<1>6. /\ stacks'[v] \in Seq(Entry) /\ Len(stacks'[v]) = Len(stacks[v]) + 1 /\ Len(stacks[v]) \in Nat
      /\ stacks'[v][Len(stacks[v]) + 1] = entry
      /\ \A i \in 1..Len(stacks[v]) : stacks'[v][i] = stacks[v][i]
      /\ \A u \in Vfunc : u # v => stacks'[u] = stacks[u]
      /\ DOMAIN stacks'[v] = 1..Len(stacks[v]) + 1
  <2>1. stacks'[v] = Append(stacks[v], entry) /\ \A u \in Vfunc : u # v => stacks'[u] = stacks[u]
    BY <1>1, <1>2 DEF CallsOK
  <2>2. QED
    BY <1>3, <1>5, <2>1, AppendProperties
<1>7. HooksOK'
  BY <1>1, <1>2, HooksStay
<1>8. CallsOK'
  <2>1. stacks' \in [Vfunc -> Seq(Entry)]
    BY <1>1, <1>2, <1>6 DEF CallsOK
  <2>2. \A u \in Vfunc : Len(stacks'[u]) <= MaxStack
    BY <1>1, <1>2, <1>6, VTableBounds DEF CallsOK
  <2>3. \A u \in Vfunc : \A i \in DOMAIN stacks'[u] : stacks'[u][i].param \in Float(u)
    <3> SUFFICES ASSUME NEW u \in Vfunc, NEW i \in DOMAIN stacks'[u]
                 PROVE  stacks'[u][i].param \in Float(u)
      OBVIOUS
    <3>1. CASE u # v
      BY <1>1, <1>6, <3>1 DEF CallsOK
    <3>2. CASE u = v /\ i = Len(stacks[v]) + 1
      BY <1>3, <1>6, <3>2
    <3>3. CASE u = v /\ i \in 1..Len(stacks[v])
      BY <1>1, <1>5, <1>6, <3>3 DEF CallsOK
    <3>4. QED
      BY <1>6, <3>1, <3>2, <3>3
  <2>4. Len(calls') <= MaxNesting
    BY <1>2, <1>4, VTableBounds
  <2>5. QED
    BY <1>1, <1>2, <1>4, <2>1, <2>2, <2>3, <2>4 DEF CallsOK
<1>9. \A u : \A k \in 0..n : CountIn(calls', u, k) = CountIn(calls, u, k)
  <2> SUFFICES ASSUME NEW u, NEW k \in 0..n
               PROVE  CountIn(calls', u, k) = CountIn(calls, u, k)
    OBVIOUS
  <2>1. k \in Nat /\ \A i \in 1..k : calls'[i].vfunc = calls[i].vfunc
    BY <1>4
  <2>2. QED
    BY <2>1, CountSame
<1>10. \A u : CountIn(calls', u, n + 1) = CountIn(calls, u, n) + IF u = v THEN 1 ELSE 0
  <2> SUFFICES ASSUME NEW u
               PROVE  CountIn(calls', u, n + 1) = CountIn(calls, u, n) + IF u = v THEN 1 ELSE 0
    OBVIOUS
  <2>1. CountIn(calls', u, n + 1) = CountIn(calls', u, n) + IF calls'[n+1].vfunc = u THEN 1 ELSE 0
    BY <1>4, CountNext
  <2>2. n \in 0..n /\ (calls'[n+1].vfunc = u <=> u = v)
    BY <1>3, <1>4
  <2>3. CountIn(calls', u, n) = CountIn(calls, u, n)
    BY <1>9, <2>2
  <2>4. QED
    BY <2>1, <2>2, <2>3
<1>11. \A u \in Vfunc : CountIn(calls, u, n) \in Nat /\ lost[u] \in Nat
  <2>1. \A u : CountIn(calls, u, n) \in Nat
    BY <1>4, CountType
  <2>2. \A u \in Vfunc : lost[u] \in 0..MaxStack
    BY <1>1 DEF CallsOK
  <2>3. QED
    BY <2>1, <2>2, VTableBounds
<1>12. StacksAreCounted'
  <2> SUFFICES ASSUME NEW u \in Vfunc
               PROVE  Len(stacks'[u]) = CountIn(calls', u, Len(calls')) + lost'[u]
    BY DEF StacksAreCounted
  <2>1. Len(stacks[u]) = CountIn(calls, u, n) + lost[u] /\ lost'[u] = lost[u]
    BY <1>1, <1>2 DEF StacksAreCounted
  <2>2. Len(stacks'[u]) = Len(stacks[u]) + IF u = v THEN 1 ELSE 0
    <3>1. CASE u = v
      BY <1>6, <3>1
    <3>2. CASE u # v
      BY <1>1, <1>6, <3>2 DEF CallsOK
    <3>3. QED
      BY <3>1, <3>2
  <2>3. CountIn(calls', u, Len(calls')) = CountIn(calls, u, n) + IF u = v THEN 1 ELSE 0
    BY <1>4, <1>10
  <2>4. CountIn(calls, u, n) \in Nat /\ lost[u] \in Nat
    BY <1>11
  <2>5. QED
    BY <2>1, <2>2, <2>3, <2>4
<1>13. OwnParams'
  <2> SUFFICES ASSUME NEW k \in 1..n + 1, ~calls'[k].spoiled
               PROVE  stacks'[calls'[k].vfunc][OwnPlace(k)'].param = calls'[k].mine
    BY <1>4 DEF OwnParams
  <2>1. CASE k = n + 1
    <3>1. OwnPlace(k)' = CountIn(calls, v, n) + 1 + lost[v]
      BY <1>2, <1>3, <1>4, <1>10, <2>1 DEF OwnPlace
    <3>2. Len(stacks[v]) = CountIn(calls, v, n) + lost[v]
      BY <1>1 DEF StacksAreCounted
    <3>3. OwnPlace(k)' = Len(stacks[v]) + 1
      <4> DEFINE own == CountIn(calls, v, n)
                 gone == lost[v]
      <4>1. own \in Nat /\ gone \in Nat
        BY <1>11
      <4>2. OwnPlace(k)' = own + 1 + gone /\ Len(stacks[v]) = own + gone
        BY <3>1, <3>2
      <4> HIDE DEF own, gone
      <4>3. QED
        BY <4>1, <4>2
    <3>4. QED
      BY <1>3, <1>4, <1>6, <2>1, <3>3
  <2>2. CASE k \in 1..n
    <3>1. calls'[k] = calls[k] /\ calls[k].vfunc \in Vfunc /\ k \in 0..n
      BY <1>1, <1>4, <2>2, CallOfStack DEF CallsOK
    <3>2. OwnPlace(k)' = OwnPlace(k)
      BY <1>2, <1>9, <3>1 DEF OwnPlace
    <3>3. /\ stacks[calls[k].vfunc][OwnPlace(k)].param = calls[k].mine
          /\ OwnPlace(k) \in 1..Len(stacks[calls[k].vfunc])
      BY <1>1, <1>4, <2>2, <3>1, OwnPlaceIs DEF OwnParams
    <3>4. stacks'[calls[k].vfunc][OwnPlace(k)] = stacks[calls[k].vfunc][OwnPlace(k)]
      BY <1>6, <3>1, <3>3
    <3>5. QED
      BY <3>1, <3>2, <3>3, <3>4
  <2>3. QED
    BY <1>4, <2>1, <2>2
<1>14. SpoiledBelow'
  <2> SUFFICES ASSUME NEW i \in 1..n + 1, NEW k \in 1..n + 1, i < k,
                      calls'[i].vfunc = calls'[k].vfunc, calls'[k].spoiled
               PROVE  calls'[i].spoiled
    BY <1>4 DEF SpoiledBelow
  <2>1. k # n + 1
    BY <1>3, <1>4
  <2>2. k \in 1..n /\ i \in 1..n
    BY <1>4, <2>1
  <2>3. QED
    BY <1>1, <1>4, <2>2 DEF SpoiledBelow
<1>15. QED
  BY <1>7, <1>8, <1>12, <1>13, <1>14, Halves, PTL

\* A step of the innermost call that keeps its function, its parameter and its
\* place.
LEMMA OnTopKeepsIInv ==
  ASSUME IInv, calls # <<>>, NEW frame \in Call, calls' = OnTop(frame),
         frame.vfunc = Top.vfunc, frame.mine = Top.mine, frame.spoiled = Top.spoiled,
         UNCHANGED <<hookVars, lost>>,
         \/ UNCHANGED stacks
         \/ \E entry \in Entry : /\ stacks[Top.vfunc] # <<>> /\ entry.param = TopOf(Top.vfunc).param
                                 /\ stacks' = SetTop(Top.vfunc, entry)
  PROVE  IInv'
<1>1. CallsOK
  BY Halves
<1>2. /\ calls' \in Seq(Call) /\ Len(calls') = Len(calls)
      /\ \A k \in DOMAIN calls : calls'[k] = IF k = Len(calls) THEN frame ELSE calls[k]
  BY <1>1, OnTopEffect
<1>3. \A k \in DOMAIN calls : /\ calls'[k].vfunc = calls[k].vfunc
                              /\ calls'[k].mine = calls[k].mine
                              /\ calls'[k].spoiled = calls[k].spoiled
  BY <1>1, <1>2, TopType
<1>4. /\ stacks' \in [Vfunc -> Seq(Entry)]
      /\ \A v \in Vfunc : Len(stacks'[v]) = Len(stacks[v])
      /\ \A v \in Vfunc : \A i \in DOMAIN stacks[v] : stacks'[v][i].param = stacks[v][i].param
  <2>1. CASE UNCHANGED stacks
    BY <1>1, <2>1 DEF CallsOK
  <2>2. CASE \E entry \in Entry : /\ stacks[Top.vfunc] # <<>> /\ entry.param = TopOf(Top.vfunc).param
                                  /\ stacks' = SetTop(Top.vfunc, entry)
    <3> DEFINE v == Top.vfunc
    <3>1. PICK entry \in Entry : stacks[v] # <<>> /\ entry.param = TopOf(v).param
                                 /\ stacks' = SetTop(v, entry)
      BY <2>2
    <3>2. v \in Vfunc
      BY <1>1, TopType
    <3> HIDE DEF v
    <3>3. /\ stacks' \in [Vfunc -> Seq(Entry)]
          /\ \A u \in Vfunc : u # v => stacks'[u] = stacks[u]
          /\ Len(stacks'[v]) = Len(stacks[v])
          /\ \A i \in DOMAIN stacks[v] :
               stacks'[v][i] = IF i = Len(stacks[v]) THEN entry ELSE stacks[v][i]
      BY <1>1, <3>1, <3>2, SetTopEffect
    <3>4. QED
      BY <3>1, <3>3 DEF TopOf
  <2>3. QED
    BY <2>1, <2>2
<1>5. QED
  BY <1>2, <1>3, <1>4, SameCallsKeepIInv

\* A function of a plugin answers.
LEMMA FunctionAnswersKeepsIInv ==
  ASSUME IInv, NEW r \in Return, FunctionAnswers(r)
  PROVE  IInv'
<1>1. HooksOK /\ CallsOK /\ calls # <<>> /\ Top.told < ToTell
  BY Halves DEF FunctionAnswers, Telling
<1>2. Top \in Call /\ Top.vfunc \in Vfunc
  BY <1>1, TopType
<1>3. ToTell \in 0..MaxFunctions
  BY <1>1, <1>2 DEF ToTell, HooksOK
<1> DEFINE frame == [Top EXCEPT !.told = IF r = Supercede THEN ToTell ELSE @ + 1, !.result = Larger(@, r)]
<1>4. (IF r = Supercede THEN ToTell ELSE Top.told + 1) \in 0..MaxFunctions
  BY <1>1, <1>2, <1>3, VTableBounds DEF Call
<1>5. Larger(Top.result, r) \in Return
  BY <1>2 DEF Larger, Call
<1>6. /\ frame \in Call /\ frame.vfunc = Top.vfunc /\ frame.mine = Top.mine
      /\ frame.spoiled = Top.spoiled
  BY <1>2, <1>4, <1>5 DEF Call
<1>7. calls' = OnTop(frame) /\ UNCHANGED <<hookVars, stacks, lost>>
  BY DEF FunctionAnswers
<1> HIDE DEF frame
<1>8. QED
  BY <1>1, <1>6, <1>7, OnTopKeepsIInv

\* The steps of a handler change neither its function nor its parameter.
LEMMA StepOfCall ==
  ASSUME NEW x \in Call, NEW s \in {"pre", "original", "post"}, NEW r \in Damage \cup {None}
  PROVE  LET done == [x EXCEPT !.step = s, !.told = 0, !.result = Ignored]
             runs == [x EXCEPT !.step = s, !.ran = r]
             over == [x EXCEPT !.step = s, !.told = 0, !.result = Ignored, !.ran = r]
         IN  \A y \in {done, runs, over} :
               y \in Call /\ y.vfunc = x.vfunc /\ y.mine = x.mine /\ y.spoiled = x.spoiled
<1> DEFINE Like(y) == y \in Call /\ y.vfunc = x.vfunc /\ y.mine = x.mine /\ y.spoiled = x.spoiled
           a == [x EXCEPT !.step = s]
           b == [a EXCEPT !.told = 0]
           c == [b EXCEPT !.result = Ignored]
           d == [c EXCEPT !.ran = r]
           e == [a EXCEPT !.ran = r]
<1>1. Like(a)
  BY DEF Call
<1>2. Like(e)
  <2> HIDE DEF a
  <2>1. QED
    BY <1>1 DEF Call
<1>3. Like(b)
  <2> HIDE DEF a
  <2>1. QED
    BY <1>1, VTableBounds DEF Call
<1>4. Like(c)
  <2> HIDE DEF b
  <2>1. QED
    BY <1>3 DEF Call, Return, Ignored, Supercede
<1>5. Like(d)
  <2> HIDE DEF c
  <2>1. QED
    BY <1>4 DEF Call
<1>6. QED
  BY <1>2, <1>4, <1>5, Zenon

\* The call at the top of the stack has the last place of its hook.
LEMMA TopHasPlace ==
  ASSUME IInv, calls # <<>>
  PROVE  /\ stacks[Top.vfunc] # <<>> /\ TopOf(Top.vfunc) \in Entry
         /\ TopOf(Top.vfunc).param \in Damage \cup {None}
         /\ OwnPlace(Len(calls)) = Len(stacks[Top.vfunc])
<1> DEFINE v == Top.vfunc
<1>1. CallsOK /\ StacksAreCounted /\ v \in Vfunc /\ Top = calls[Len(calls)] /\ Len(calls) \in DOMAIN calls
  BY Halves, TopType
<1>2. OwnPlace(Len(calls)) \in 1..Len(stacks[v])
  BY <1>1, OwnPlaceIs
<1>3. OwnPlace(Len(calls)) = Len(stacks[v])
  BY <1>1 DEF OwnPlace, StacksAreCounted
<1>4. stacks[v] \in Seq(Entry)
  BY <1>1 DEF CallsOK
<1> HIDE DEF v
<1>5. stacks[v] # <<>> /\ Len(stacks[v]) \in 1..Len(stacks[v])
  BY <1>2, <1>3, <1>4
<1>6. TopOf(v) \in Entry
  BY <1>4, <1>5, ElementOfSeq DEF TopOf
<1>7. QED
  BY <1>3, <1>5, <1>6 DEF Entry, v

\* The functions before the original are done.
LEMMA PreEndsKeepsIInv ==
  ASSUME IInv, NEW sets \in BOOLEAN, PreEnds(sets)
  PROVE  IInv'
<1>1. CallsOK /\ calls # <<>>
  BY Halves DEF PreEnds, Telling
<1>2. Top \in Call /\ Top.vfunc \in Vfunc
  BY <1>1, TopType
<1>3. /\ stacks[Top.vfunc] # <<>> /\ TopOf(Top.vfunc) \in Entry
      /\ TopOf(Top.vfunc).param \in Damage \cup {None}
  BY <1>1, TopHasPlace
<1>4. OriginalTakes(Top.result) \in Damage \cup {None}
  BY <1>2, <1>3 DEF OriginalTakes, Call
<1> DEFINE frame == IF Top.result = Supercede
                    THEN [Top EXCEPT !.step = "post", !.told = 0, !.result = Ignored]
                    ELSE [Top EXCEPT !.step = "original", !.ran = OriginalTakes(Top.result)]
           entry == [TopOf(Top.vfunc) EXCEPT !.ret = TRUE]
<1>5. /\ frame \in Call /\ frame.vfunc = Top.vfunc /\ frame.mine = Top.mine
      /\ frame.spoiled = Top.spoiled
  BY <1>2, <1>4, StepOfCall
<1>6. entry \in Entry /\ entry.param = TopOf(Top.vfunc).param
  BY <1>3 DEF Entry
<1>7. /\ calls' = OnTop(frame) /\ UNCHANGED <<hookVars, lost>>
      /\ stacks' = IF sets /\ stacks[Top.vfunc] # <<>> THEN SetTop(Top.vfunc, entry) ELSE stacks
  BY DEF PreEnds
<1> HIDE DEF frame, entry
<1>8. UNCHANGED stacks \/ stacks' = SetTop(Top.vfunc, entry)
  BY <1>7
<1>9. QED
  BY <1>1, <1>3, <1>5, <1>6, <1>7, <1>8, OnTopKeepsIInv

\* The original is done.
LEMMA OriginalReturnsKeepsIInv == IInv /\ OriginalReturns => IInv'
<1> SUFFICES ASSUME IInv, OriginalReturns PROVE IInv'
  OBVIOUS
<1>1. CallsOK /\ calls # <<>>
  BY Halves DEF OriginalReturns
<1>2. Top \in Call /\ Top.vfunc \in Vfunc
  BY <1>1, TopType
<1>3. stacks[Top.vfunc] # <<>> /\ TopOf(Top.vfunc) \in Entry
  BY <1>1, TopHasPlace
<1> DEFINE frame == [Top EXCEPT !.step = "post", !.told = 0, !.result = Ignored, !.ran = None]
           entry == [TopOf(Top.vfunc) EXCEPT !.original = TRUE]
<1>5. /\ frame \in Call /\ frame.vfunc = Top.vfunc /\ frame.mine = Top.mine
      /\ frame.spoiled = Top.spoiled
  BY <1>2, StepOfCall
<1>6. entry \in Entry /\ entry.param = TopOf(Top.vfunc).param
  BY <1>3 DEF Entry
<1>7. /\ calls' = OnTop(frame) /\ UNCHANGED <<hookVars, lost>>
      /\ UNCHANGED stacks \/ stacks' = SetTop(Top.vfunc, entry)
  BY DEF OriginalReturns
<1> HIDE DEF frame, entry
<1>8. QED
  BY <1>1, <1>3, <1>5, <1>6, <1>7, OnTopKeepsIInv

\* VTHook.SetFloat(): the innermost call of the hook has the last place, unless
\* it is spoiled, and the places of the others are below it.
LEMMA SetFloatKeepsIInv ==
  ASSUME IInv, NEW v \in Vfunc, NEW d \in Damage, SetFloat(v, d)
  PROVE  IInv'
<1> DEFINE m == Innermost(v)
           entry == [TopOf(v) EXCEPT !.param = d]
           n == Len(stacks[v])
<1>1. HooksOK /\ CallsOK /\ StacksAreCounted /\ OwnParams /\ SpoiledBelow /\ TypeOK
  BY Halves DEF IInv, EntriesLeadToHooks
<1>2. /\ stacks' = SetTop(v, entry) /\ UNCHANGED <<hookVars, lost>>
      /\ calls' = IF \E k \in DOMAIN calls : calls[k].vfunc = v
                  THEN [calls EXCEPT ![m] = [@ EXCEPT !.mine = d]] ELSE calls
      /\ stacks[v] # <<>> /\ TopOf(v).param # None
  BY DEF SetFloat, Settable
<1>3. stacks[v] \in Seq(Entry) /\ n \in 1..n /\ n \in DOMAIN stacks[v] /\ DOMAIN stacks[v] = 1..n /\ n \in Nat
  BY <1>1, <1>2 DEF CallsOK
<1>4. TopOf(v) \in Entry /\ TopOf(v).param \in Float(v)
  BY <1>1, <1>3, ElementOfSeq DEF TopOf, CallsOK
<1>5. d \in Float(v) /\ entry \in Entry /\ entry.param = d
  BY <1>2, <1>4 DEF Entry, Float
<1> HIDE DEF entry
<1>6. /\ stacks' \in [Vfunc -> Seq(Entry)]
      /\ \A u \in Vfunc : u # v => stacks'[u] = stacks[u]
      /\ Len(stacks'[v]) = n
      /\ \A i \in DOMAIN stacks[v] : stacks'[v][i] = IF i = n THEN entry ELSE stacks[v][i]
  BY <1>1, <1>2, <1>5, SetTopEffect
<1>7. DOMAIN stacks'[v] = 1..n /\ DOMAIN calls = 1..Len(calls) /\ Len(calls) \in Nat
  BY <1>1, <1>3, <1>6 DEF CallsOK
<1>8. /\ calls' \in Seq(Call) /\ Len(calls') = Len(calls) /\ DOMAIN calls' = DOMAIN calls
      /\ \A k \in DOMAIN calls :
           /\ calls'[k].vfunc = calls[k].vfunc /\ calls'[k].spoiled = calls[k].spoiled
           /\ calls'[k].mine = IF calls[k].vfunc = v /\ k = m THEN d ELSE calls[k].mine
  <2>1. CASE \E k \in DOMAIN calls : calls[k].vfunc = v
    <3>1. m \in DOMAIN calls /\ calls[m].vfunc = v
      BY <1>1, <2>1, InnermostIs
    <3> HIDE DEF m
    <3>2. calls[m] \in Call /\ calls \in Seq(Call)
      BY <1>1, <3>1, CallOfStack DEF CallsOK
    <3> DEFINE frame == [calls[m] EXCEPT !.mine = d]
    <3>3. /\ frame \in Call /\ frame.vfunc = calls[m].vfunc /\ frame.spoiled = calls[m].spoiled
          /\ frame.mine = d
      BY <3>2 DEF Call
    <3>4. calls' = [calls EXCEPT ![m] = frame]
      BY <1>2, <2>1
    <3> HIDE DEF frame
    <3>5. calls' \in Seq(Call) /\ Len(calls') = Len(calls) /\ DOMAIN calls' = DOMAIN calls
      BY <3>1, <3>2, <3>3, <3>4
    <3>6. QED
      BY <3>1, <3>3, <3>4, <3>5
  <2>2. CASE ~\E k \in DOMAIN calls : calls[k].vfunc = v
    BY <1>1, <1>2, <2>2 DEF CallsOK
  <2>3. QED
    BY <2>1, <2>2
<1>9. HooksOK'
  BY <1>1, <1>2, HooksStay
<1>10. CallsOK'
  <2>1. \A u \in Vfunc : Len(stacks'[u]) <= MaxStack
    BY <1>1, <1>6 DEF CallsOK
  <2>2. \A u \in Vfunc : \A i \in DOMAIN stacks'[u] : stacks'[u][i].param \in Float(u)
    BY <1>1, <1>3, <1>5, <1>6, <1>7 DEF CallsOK
  <2>3. QED
    BY <1>1, <1>2, <1>6, <1>8, <2>1, <2>2 DEF CallsOK
<1>11. \A u : \A k \in 0..Len(calls) : CountIn(calls', u, k) = CountIn(calls, u, k)
  <2> SUFFICES ASSUME NEW u, NEW k \in 0..Len(calls)
               PROVE  CountIn(calls', u, k) = CountIn(calls, u, k)
    OBVIOUS
  <2>1. k \in Nat /\ \A i \in 1..k : calls'[i].vfunc = calls[i].vfunc
    BY <1>7, <1>8
  <2>2. QED
    BY <2>1, CountSame
<1>12. StacksAreCounted'
  <2> SUFFICES ASSUME NEW u \in Vfunc
               PROVE  Len(stacks'[u]) = CountIn(calls', u, Len(calls')) + lost'[u]
    BY DEF StacksAreCounted
  <2>1. Len(stacks'[u]) = Len(stacks[u]) /\ lost' = lost /\ Len(calls') = Len(calls)
    BY <1>2, <1>6, <1>8
  <2>2. CountIn(calls', u, Len(calls)) = CountIn(calls, u, Len(calls))
    BY <1>7, <1>11
  <2>3. Len(stacks[u]) = CountIn(calls, u, Len(calls)) + lost[u]
    BY <1>1 DEF StacksAreCounted
  <2>4. QED
    BY <2>1, <2>2, <2>3
<1>13. OwnParams'
  <2> SUFFICES ASSUME NEW k \in DOMAIN calls', ~calls'[k].spoiled
               PROVE  stacks'[calls'[k].vfunc][OwnPlace(k)'].param = calls'[k].mine
    BY DEF OwnParams
  <2>1. k \in DOMAIN calls /\ ~calls[k].spoiled /\ calls'[k].vfunc = calls[k].vfunc /\ k \in 0..Len(calls)
    BY <1>7, <1>8
  <2>2. calls[k].vfunc \in Vfunc
    BY <1>1, <2>1, CallOfStack DEF CallsOK
  <2>3. OwnPlace(k)' = OwnPlace(k)
    BY <1>2, <1>11, <2>1 DEF OwnPlace
  <2>4. /\ OwnPlace(k) \in 1..Len(stacks[calls[k].vfunc])
        /\ stacks[calls[k].vfunc][OwnPlace(k)].param = calls[k].mine
    BY <1>1, <2>1, OwnPlaceIs DEF OwnParams
  <2>5. CASE calls[k].vfunc # v
    BY <1>6, <1>8, <2>1, <2>2, <2>3, <2>4, <2>5
  <2>6. CASE calls[k].vfunc = v
    <3>1. /\ m \in DOMAIN calls /\ calls[m].vfunc = v /\ k <= m
          /\ CountIn(calls, v, m) = CountIn(calls, v, Len(calls))
      BY <1>1, <2>1, <2>6, InnermostIs
    <3>2. n = CountIn(calls, v, m) + lost[v]
      BY <1>1, <3>1 DEF StacksAreCounted
    <3>3. OwnPlace(k) = CountIn(calls, v, k) + lost[v]
      BY <2>6 DEF OwnPlace
    <3>4. /\ CountIn(calls, v, k) \in Nat /\ CountIn(calls, v, m) \in Nat /\ lost[v] \in Nat
          /\ k < m => CountIn(calls, v, k) < CountIn(calls, v, m)
      <4>1. lost[v] \in 0..MaxStack /\ k \in Nat /\ m \in Nat
        BY <1>1, <1>7, <2>1, <3>1 DEF CallsOK
      <4> HIDE DEF m
      <4>2. lost[v] \in Nat
        BY <4>1, VTableBounds
      <4>3. CountIn(calls, v, k) \in Nat /\ CountIn(calls, v, m) \in Nat
        BY <4>1, CountType
      <4>4. k < m => CountIn(calls, v, k) < CountIn(calls, v, m)
        BY <3>1, <4>1, CountGrows
      <4>5. QED
        BY <4>2, <4>3, <4>4
    <3>5. CASE k = m
      <4>1. OwnPlace(k) = n /\ calls'[k].mine = d
        BY <1>8, <2>1, <2>6, <3>2, <3>3, <3>5
      <4>2. QED
        BY <1>3, <1>5, <1>6, <2>1, <2>3, <2>6, <4>1
    <3>6. CASE k # m
      <4>1. k < m
        BY <1>7, <2>1, <3>1, <3>6
      <4>2. OwnPlace(k) # n /\ calls'[k].mine = calls[k].mine
        <5> HIDE DEF m, n
        <5>1. QED
          BY <1>8, <2>1, <3>2, <3>3, <3>4, <3>6, <4>1
      <4>3. OwnPlace(k) \in DOMAIN stacks[v]
        BY <1>3, <2>4, <2>6
      <4>4. stacks'[v][OwnPlace(k)] = stacks[v][OwnPlace(k)]
        BY <1>6, <4>2, <4>3
      <4>5. QED
        BY <2>1, <2>3, <2>4, <2>6, <4>2, <4>4
    <3>7. QED
      BY <3>5, <3>6
  <2>7. QED
    BY <2>5, <2>6
<1>14. SpoiledBelow'
  BY <1>1, <1>8 DEF SpoiledBelow
<1>15. QED
  BY <1>9, <1>10, <1>12, <1>13, <1>14, Halves, PTL

\* What a superceded call leaves behind only touches the calls of its function.
LEMMA SpoilEffect ==
  ASSUME NEW v, NEW outer \in Seq(Call)
  PROVE  /\ Spoil(v, outer) \in Seq(Call) /\ Len(Spoil(v, outer)) = Len(outer)
         /\ \A k \in DOMAIN outer :
              /\ Spoil(v, outer)[k].vfunc = outer[k].vfunc
              /\ Spoil(v, outer)[k].mine = outer[k].mine
              /\ Spoil(v, outer)[k].spoiled = (outer[k].spoiled \/ outer[k].vfunc = v)
<1> DEFINE new == Spoil(v, outer)
<1>1. new = [k \in 1..Len(outer) |->
               IF outer[k].vfunc = v THEN [outer[k] EXCEPT !.spoiled = TRUE] ELSE outer[k]]
  BY DEF Spoil
<1>2. \A x \in Call : /\ [x EXCEPT !.spoiled = TRUE] \in Call
                      /\ [x EXCEPT !.spoiled = TRUE].vfunc = x.vfunc
                      /\ [x EXCEPT !.spoiled = TRUE].mine = x.mine
                      /\ [x EXCEPT !.spoiled = TRUE].spoiled = TRUE
                      /\ x.spoiled \in BOOLEAN
  BY DEF Call
<1>3. \A k \in 1..Len(outer) : outer[k] \in Call
  OBVIOUS
<1>4. \A k \in 1..Len(outer) :
        /\ new[k] \in Call /\ new[k].vfunc = outer[k].vfunc /\ new[k].mine = outer[k].mine
        /\ new[k].spoiled = (outer[k].spoiled \/ outer[k].vfunc = v)
  <2> SUFFICES ASSUME NEW k \in 1..Len(outer)
               PROVE  /\ new[k] \in Call /\ new[k].vfunc = outer[k].vfunc /\ new[k].mine = outer[k].mine
                      /\ new[k].spoiled = (outer[k].spoiled \/ outer[k].vfunc = v)
    OBVIOUS
  <2>1. outer[k] \in Call /\ outer[k].spoiled \in BOOLEAN
    BY <1>2, <1>3
  <2>2. CASE outer[k].vfunc = v
    <3>1. new[k] = [outer[k] EXCEPT !.spoiled = TRUE]
      BY <1>1, <2>2
    <3>2. new[k].spoiled = TRUE
      BY <1>2, <2>1, <3>1
    <3> HIDE DEF new
    <3>3. new[k] \in Call /\ new[k].vfunc = outer[k].vfunc /\ new[k].mine = outer[k].mine
      BY <1>2, <2>1, <3>1
    <3>4. (outer[k].spoiled \/ outer[k].vfunc = v) = TRUE
      BY <2>2, Zenon
    <3>5. QED
      BY <3>2, <3>3, <3>4, Zenon
  <2>3. CASE outer[k].vfunc # v
    <3>1. new[k] = outer[k]
      BY <1>1, <2>3
    <3> HIDE DEF new
    <3>2. QED
      BY <2>1, <2>3, <3>1
  <2>4. QED
    BY <2>2, <2>3
<1>5. new \in [1..Len(outer) -> Call]
  BY <1>1, <1>4
<1>6. new \in Seq(Call) /\ Len(new) = Len(outer)
  <2> HIDE DEF new
  <2>1. QED
    BY <1>5
<1>7. QED
  BY <1>4, <1>6

\* The calls around one that ends keep their places; those of its function are
\* spoiled by what it leaves behind if it was superceded.
LEMMA PostEndsKeepsIInv == IInv /\ PostEnds => IInv'
<1> SUFFICES ASSUME IInv, PostEnds PROVE IInv'
  OBVIOUS
<1> DEFINE v == Top.vfunc
           n == Len(calls) - 1
           outer == Front(calls)
           kept == ~HasReturn(Top.result)
<1>1. HooksOK /\ CallsOK /\ StacksAreCounted /\ OwnParams /\ SpoiledBelow /\ calls # <<>>
  BY Halves DEF PostEnds, Telling
<1>2. v \in Vfunc /\ calls[n + 1] = Top /\ n + 1 = Len(calls) /\ n \in Nat
  <2>1. Len(calls) \in DOMAIN calls /\ DOMAIN calls = 1..Len(calls) /\ Len(calls) \in Nat
    BY <1>1, TopType DEF CallsOK
  <2>2. QED
    BY <1>1, <2>1, TopType
<1>3. /\ UNCHANGED hookVars /\ stacks[v] # <<>>
      /\ stacks' = IF kept THEN stacks ELSE [stacks EXCEPT ![v] = Front(@)]
      /\ calls' = IF kept THEN Spoil(v, outer) ELSE outer
      /\ lost' = IF kept THEN [lost EXCEPT ![v] = @ + 1] ELSE lost
  BY DEF PostEnds, CleansUp
<1>4. /\ outer \in Seq(Call) /\ Len(outer) = n
      /\ \A k \in 1..n : outer[k] = calls[k]
  BY <1>1, FrontEffect DEF CallsOK
<1> HIDE DEF kept, outer, v
<1>5. /\ calls' \in Seq(Call) /\ Len(calls') = n /\ DOMAIN calls' = 1..n
      /\ \A k \in 1..n : /\ calls'[k].vfunc = calls[k].vfunc /\ calls'[k].mine = calls[k].mine
                         /\ calls'[k].spoiled = (calls[k].spoiled \/ (kept /\ calls[k].vfunc = v))
  <2>1. CASE kept
    <3>1. calls' = Spoil(v, outer) /\ DOMAIN outer = 1..n
      BY <1>3, <1>4, <2>1
    <3>2. calls' \in Seq(Call) /\ Len(calls') = n /\ DOMAIN calls' = 1..n
      BY <1>4, <3>1, SpoilEffect
    <3>3. \A k \in 1..n : /\ calls'[k].vfunc = outer[k].vfunc /\ calls'[k].mine = outer[k].mine
                          /\ calls'[k].spoiled = (outer[k].spoiled \/ outer[k].vfunc = v)
      BY <1>4, <3>1, SpoilEffect
    <3>4. QED
      BY <1>4, <2>1, <3>2, <3>3
  <2>2. CASE ~kept
    <3>1. calls' = outer /\ DOMAIN outer = 1..n
      BY <1>3, <1>4, <2>2
    <3>2. \A k \in 1..n : calls[k] \in Call /\ calls[k].spoiled \in BOOLEAN
      <4>1. \A k \in 1..n : k \in DOMAIN calls
        BY <1>1, <1>2 DEF CallsOK
      <4>2. QED
        BY <1>1, <4>1, CallOfStack DEF CallsOK, Call
    <3>3. QED
      BY <1>4, <2>2, <3>1, <3>2
  <2>3. QED
    BY <2>1, <2>2
<1>6. \A k \in 1..n : k \in DOMAIN calls /\ k \in Nat /\ k <= n /\ calls[k].vfunc \in Vfunc
  <2>1. \A k \in 1..n : k \in DOMAIN calls
    BY <1>1, <1>2 DEF CallsOK
  <2>2. QED
    BY <1>1, <2>1, CallOfStack DEF CallsOK
<1>7. \A u : \A k \in 0..n : CountIn(calls', u, k) = CountIn(calls, u, k)
  <2> SUFFICES ASSUME NEW u, NEW k \in 0..n
               PROVE  CountIn(calls', u, k) = CountIn(calls, u, k)
    OBVIOUS
  <2>1. k \in Nat /\ \A i \in 1..k : calls'[i].vfunc = calls[i].vfunc
    BY <1>2, <1>5
  <2>2. QED
    BY <2>1, CountSame
<1>8. \A u \in Vfunc :
        /\ CountIn(calls, u, n) \in Nat /\ lost[u] \in Nat
        /\ Len(stacks[u]) = CountIn(calls, u, n) + (IF u = v THEN 1 ELSE 0) + lost[u]
  <2> SUFFICES ASSUME NEW u \in Vfunc
               PROVE  /\ CountIn(calls, u, n) \in Nat /\ lost[u] \in Nat
                      /\ Len(stacks[u]) = CountIn(calls, u, n) + (IF u = v THEN 1 ELSE 0) + lost[u]
    OBVIOUS
  <2>1. lost[u] \in 0..MaxStack
    BY <1>1 DEF CallsOK
  <2>2. lost[u] \in Nat
    BY <2>1, VTableBounds
  <2>3. CountIn(calls, u, n + 1) = CountIn(calls, u, n) + (IF Top.vfunc = u THEN 1 ELSE 0)
    BY <1>2, CountNext
  <2>4. Len(stacks[u]) = CountIn(calls, u, n + 1) + lost[u]
    BY <1>1, <1>2 DEF StacksAreCounted
  <2>5. QED
    BY <1>2, <2>2, <2>3, <2>4, CountType DEF v
<1>9. /\ stacks' \in [Vfunc -> Seq(Entry)]
      /\ \A u \in Vfunc : Len(stacks'[u]) = Len(stacks[u]) - (IF u = v /\ ~kept THEN 1 ELSE 0)
      /\ \A u \in Vfunc : \A i \in 1..Len(stacks'[u]) :
           i \in DOMAIN stacks[u] /\ i \in 1..Len(stacks[u]) /\ stacks'[u][i] = stacks[u][i]
  <2>1. stacks \in [Vfunc -> Seq(Entry)] /\ \A u \in Vfunc : Len(stacks[u]) \in Nat /\ DOMAIN stacks[u] = 1..Len(stacks[u])
    BY <1>1 DEF CallsOK
  <2>2. CASE kept
    BY <1>3, <2>1, <2>2
  <2>3. CASE ~kept
    <3> DEFINE f == Front(stacks[v])
    <3>1. /\ f \in Seq(Entry) /\ Len(f) = Len(stacks[v]) - 1
          /\ \A i \in 1..Len(stacks[v]) - 1 : f[i] = stacks[v][i]
      BY <1>2, <1>3, <2>1, FrontEffect
    <3>2. stacks' = [stacks EXCEPT ![v] = f]
      BY <1>3, <2>3
    <3> HIDE DEF f
    <3>3. /\ stacks' \in [Vfunc -> Seq(Entry)] /\ stacks'[v] = f
          /\ \A u \in Vfunc : u # v => stacks'[u] = stacks[u]
      BY <1>2, <2>1, <3>1, <3>2
    <3>4. \A u \in Vfunc : u # v => stacks'[u] = stacks[u] /\ DOMAIN stacks[u] = 1..Len(stacks[u])
      BY <2>1, <3>3
    <3>5. /\ Len(stacks'[v]) = Len(stacks[v]) - 1 /\ DOMAIN stacks[v] = 1..Len(stacks[v])
          /\ Len(stacks[v]) \in Nat
      BY <1>2, <2>1, <3>1, <3>3
    <3>6. \A i \in 1..Len(stacks'[v]) : i \in 1..Len(stacks[v]) /\ stacks'[v][i] = stacks[v][i]
      BY <3>1, <3>3, <3>5
    <3>7. ASSUME NEW u \in Vfunc
          PROVE  Len(stacks'[u]) = Len(stacks[u]) - (IF u = v THEN 1 ELSE 0)
      <4>1. CASE u = v
        BY <3>5, <4>1
      <4>2. CASE u # v
        <5>1. stacks'[u] = stacks[u] /\ Len(stacks[u]) \in Nat
          BY <2>1, <3>4, <4>2
        <5>2. QED
          BY <4>2, <5>1
      <4>3. QED
        BY <4>1, <4>2
    <3>8. QED
      BY <2>3, <3>3, <3>4, <3>5, <3>6, <3>7
  <2>4. QED
    BY <2>2, <2>3
<1>10. /\ lost' \in [Vfunc -> 0..MaxStack]
       /\ \A u \in Vfunc : lost'[u] = lost[u] + (IF u = v /\ kept THEN 1 ELSE 0)
  <2>1. lost \in [Vfunc -> 0..MaxStack] /\ Len(stacks[v]) <= MaxStack
    BY <1>1, <1>2 DEF CallsOK
  <2>2. lost[v] + 1 \in 0..MaxStack
    BY <1>2, <1>8, <2>1, VTableBounds
  <2>3. \A u \in Vfunc : lost[u] \in Nat
    BY <1>8
  <2>4. CASE kept
    BY <1>2, <1>3, <2>1, <2>2, <2>3, <2>4
  <2>5. CASE ~kept
    BY <1>2, <1>3, <2>1, <2>3, <2>5
  <2>6. QED
    BY <2>4, <2>5
<1>11. HooksOK'
  BY <1>1, <1>3, HooksStay
<1>12. CallsOK'
  <2>1. \A u \in Vfunc : Len(stacks'[u]) <= MaxStack
    <3>1. \A u \in Vfunc : Len(stacks[u]) <= MaxStack /\ Len(stacks[u]) \in Nat
      BY <1>1 DEF CallsOK
    <3>2. QED
      BY <1>9, <3>1, VTableBounds
  <2>2. \A u \in Vfunc : \A i \in DOMAIN stacks'[u] : stacks'[u][i].param \in Float(u)
    <3>1. \A u \in Vfunc : DOMAIN stacks'[u] = 1..Len(stacks'[u])
      BY <1>9
    <3>2. QED
      BY <1>1, <1>9, <3>1 DEF CallsOK
  <2>3. Len(calls') <= MaxNesting
    BY <1>1, <1>2, <1>5, VTableBounds DEF CallsOK
  <2>4. QED
    BY <1>5, <1>9, <1>10, <2>1, <2>2, <2>3 DEF CallsOK
<1>13. \A u \in Vfunc : Len(stacks'[u]) = CountIn(calls, u, n) + lost'[u]
  <2> SUFFICES ASSUME NEW u \in Vfunc PROVE Len(stacks'[u]) = CountIn(calls, u, n) + lost'[u]
    OBVIOUS
  <2>1. /\ CountIn(calls, u, n) \in Nat /\ lost[u] \in Nat
        /\ Len(stacks[u]) = CountIn(calls, u, n) + (IF u = v THEN 1 ELSE 0) + lost[u]
    BY <1>8
  <2>2. Len(stacks'[u]) = Len(stacks[u]) - (IF u = v /\ ~kept THEN 1 ELSE 0)
    BY <1>9
  <2>3. lost'[u] = lost[u] + (IF u = v /\ kept THEN 1 ELSE 0)
    BY <1>10
  <2>4. CASE u = v
    BY <2>1, <2>2, <2>3, <2>4
  <2>5. CASE u # v
    BY <2>1, <2>2, <2>3, <2>5
  <2>6. QED
    BY <2>4, <2>5
<1>14. StacksAreCounted'
  <2>1. \A u \in Vfunc : CountIn(calls', u, Len(calls')) = CountIn(calls, u, n)
    BY <1>2, <1>5, <1>7
  <2>2. QED
    BY <1>13, <2>1 DEF StacksAreCounted
<1>15. OwnParams'
  <2> SUFFICES ASSUME NEW k \in 1..n, ~calls'[k].spoiled
               PROVE  stacks'[calls'[k].vfunc][OwnPlace(k)'].param = calls'[k].mine
    BY <1>5 DEF OwnParams
  <2> DEFINE u == calls[k].vfunc
  <2>1. /\ calls'[k].vfunc = u /\ calls'[k].mine = calls[k].mine /\ ~calls[k].spoiled
        /\ ~(kept /\ u = v) /\ u \in Vfunc /\ k \in DOMAIN calls /\ k \in 0..n
    <3>1. calls'[k].spoiled = (calls[k].spoiled \/ (kept /\ u = v))
      BY <1>5
    <3>2. ~calls[k].spoiled /\ ~(kept /\ u = v)
      BY <3>1, Zenon
    <3>3. k \in 0..n
      BY <1>2
    <3>4. QED
      BY <1>5, <1>6, <3>2, <3>3
  <2>2. OwnPlace(k)' = CountIn(calls, u, k) + lost'[u] /\ OwnPlace(k) = CountIn(calls, u, k) + lost[u]
    BY <1>7, <2>1 DEF OwnPlace
  <2>3. lost'[u] = lost[u] /\ lost[u] \in Nat
    BY <1>8, <1>10, <2>1
  <2>4. stacks[u][OwnPlace(k)].param = calls[k].mine /\ OwnPlace(k) \in 1..Len(stacks[u])
    BY <1>1, <2>1, OwnPlaceIs DEF OwnParams
  <2>5. CountIn(calls, u, k) <= CountIn(calls, u, n) /\ CountIn(calls, u, k) \in Nat
    BY <1>2, <1>6, CountGrows, CountType
  <2> HIDE DEF u
  <2>6. OwnPlace(k) \in 1..Len(stacks'[u])
    BY <1>8, <1>13, <2>1, <2>2, <2>3, <2>4, <2>5
  <2>7. stacks'[u][OwnPlace(k)] = stacks[u][OwnPlace(k)]
    BY <1>9, <2>1, <2>6
  <2>8. QED
    BY <2>1, <2>2, <2>3, <2>4, <2>7
<1>16. SpoiledBelow'
  <2> SUFFICES ASSUME NEW i \in 1..n, NEW k \in 1..n, i < k, calls'[i].vfunc = calls'[k].vfunc,
                      calls'[k].spoiled
               PROVE  calls'[i].spoiled
    BY <1>5 DEF SpoiledBelow
  <2>1. calls[i].vfunc = calls[k].vfunc /\ (calls[k].spoiled \/ (kept /\ calls[k].vfunc = v))
    BY <1>5
  <2>2. calls[k].spoiled => calls[i].spoiled
    BY <1>1, <1>6, <2>1 DEF SpoiledBelow
  <2>3. calls'[i].spoiled = (calls[i].spoiled \/ (kept /\ calls[i].vfunc = v))
    BY <1>5
  <2>4. QED
    BY <2>1, <2>2, <2>3
<1>17. QED
  BY <1>11, <1>12, <1>14, <1>15, <1>16, Halves, PTL

\* Every step keeps the inductive invariant.
LEMMA StepKeepsIInv == IInv /\ [Next]_vars => IInv'
<1> SUFFICES ASSUME IInv, [Next]_vars PROVE IInv'
  OBVIOUS
<1>1. ASSUME NEW v \in Vfunc, NEW c \in Class, RegisterHook(v, c) PROVE IInv'
  BY <1>1, RegisterHookKeepsIInv
<1>2. ASSUME NEW v \in Vfunc, NEW c \in Class, NEW d \in Float(v), GameCalls(v, c, d) PROVE IInv'
  BY <1>2, GameCallsKeepsIInv
<1>3. ASSUME NEW v \in Vfunc, NEW d \in Damage, SetFloat(v, d) PROVE IInv'
  BY <1>3, SetFloatKeepsIInv
<1>4. ASSUME NEW r \in Return, FunctionAnswers(r) PROVE IInv'
  BY <1>4, FunctionAnswersKeepsIInv
<1>5. ASSUME NEW sets \in BOOLEAN, PreEnds(sets) PROVE IInv'
  BY <1>5, PreEndsKeepsIInv
<1>6. CASE OriginalReturns \/ PostEnds
  BY <1>6, OriginalReturnsKeepsIInv, PostEndsKeepsIInv
<1>7. CASE ServerDeactivatePost
  BY <1>7, ServerDeactivatePostKeepsIInv
<1>8. CASE UNCHANGED vars
  <2>1. EntriesLeadToHooks'
    BY <1>8 DEF vars, IInv, EntriesLeadToHooks, TypeOK
  <2>2. StacksAreCounted' /\ OwnParams' /\ SpoiledBelow'
    BY <1>8 DEF vars, IInv, StacksAreCounted, OwnParams, SpoiledBelow, OwnPlace, CountIn
  <2>3. QED
    BY <2>1, <2>2 DEF IInv
<1>9. QED
  BY <1>1, <1>2, <1>3, <1>4, <1>5, <1>6, <1>7, <1>8 DEF Next

----------------------------------------------------------------------------
\* Tables, hooks, calls and stacks agree in every behaviour.
THEOREM InductiveInvariant == Spec => []IInv
<1>1. QED
  BY InitIInv, StepKeepsIInv, PTL DEF Spec

\* The game never calls a handler for a class that getHook() cannot find, and
\* never an entry that a hook which is gone has left behind.
THEOREM EntriesLeadToTheirHooks == Spec => []EntriesLeadToHooks
<1>1. IInv => EntriesLeadToHooks
  BY DEF IInv
<1>2. QED
  BY <1>1, InductiveInvariant, PTL

\* However calls nest, each hook shows the parameter of its innermost call,
\* unless a superceded call inside that one left its own.
THEOREM ParamsAreOfTheInnermost == Spec => []ParamsAreMine
<1>1. ASSUME IInv PROVE ParamsAreMine
  <2>1. CallsOK /\ StacksAreCounted /\ OwnParams /\ TypeOK
    BY <1>1, Halves DEF IInv, EntriesLeadToHooks
  <2>2. DOMAIN calls = 1..Len(calls)
    BY <2>1 DEF CallsOK
  <2> SUFFICES ASSUME NEW v \in Vfunc
               PROVE  LET open == {k \in DOMAIN calls : calls[k].vfunc = v} IN
                      /\ Len(stacks[v]) = Cardinality(open) + lost[v]
                      /\ open # {} /\ ~calls[Innermost(v)].spoiled =>
                           TopOf(v).param = calls[Innermost(v)].mine
    BY DEF ParamsAreMine
  <2> DEFINE open == {k \in DOMAIN calls : calls[k].vfunc = v}
  <2>3. Len(stacks[v]) = Cardinality(open) + lost[v]
    BY <2>1, <2>2 DEF StacksAreCounted, CountIn
  <2>4. ASSUME open # {}, ~calls[Innermost(v)].spoiled
        PROVE  TopOf(v).param = calls[Innermost(v)].mine
    <3>1. /\ Innermost(v) \in DOMAIN calls /\ calls[Innermost(v)].vfunc = v
          /\ CountIn(calls, v, Innermost(v)) = CountIn(calls, v, Len(calls))
      BY <2>1, <2>4, InnermostIs
    <3>2. OwnPlace(Innermost(v)) = Len(stacks[v])
      BY <2>1, <3>1 DEF OwnPlace, StacksAreCounted
    <3>3. QED
      BY <2>1, <2>4, <3>1, <3>2 DEF OwnParams, TopOf
  <2>5. QED
    BY <2>3, <2>4
<1>2. QED
  BY <1>1, InductiveInvariant, PTL

----------------------------------------------------------------------------
(* What the original is called with.                                       *)

\* Only the end of the functions before the original leads to it.
LEMMA OriginalFollowsPreEnds ==
  ASSUME IInv, [Next]_vars, calls # <<>>, Top.step = "pre", Top'.step = "original"
  PROVE  \E sets \in BOOLEAN : PreEnds(sets)
<1>1. CallsOK /\ TypeOK
  BY Halves DEF IInv, EntriesLeadToHooks
<1>2. /\ Top \in Call /\ Len(calls) \in DOMAIN calls /\ Top = calls[Len(calls)] /\ Top.vfunc \in Vfunc
      /\ Len(calls) \in Nat
  BY <1>1, TopType
<1>3. ASSUME NEW v \in Vfunc, NEW c \in Class, NEW d \in Float(v), GameCalls(v, c, d) PROVE FALSE
  <2> DEFINE call == [vfunc |-> v, given |-> d, step |-> "pre", told |-> 0, result |-> Ignored,
                      mine |-> d, ran |-> None, spoiled |-> FALSE]
  <2>1. calls' = Append(calls, call) /\ call.step = "pre" /\ call \in Call
    BY <1>3, VTableBounds DEF GameCalls, Call, Float, Return, Ignored, Supercede
  <2> HIDE DEF call
  <2>2. Top' = call
    BY <1>1, <2>1, AppendProperties DEF Top, CallsOK
  <2>3. QED
    BY <2>1, <2>2
<1>4. ASSUME NEW r \in Return, FunctionAnswers(r) PROVE FALSE
  <2> DEFINE frame == [Top EXCEPT !.told = IF r = Supercede THEN ToTell ELSE @ + 1, !.result = Larger(@, r)]
  <2>1. calls' = OnTop(frame) /\ frame.step = "pre"
    BY <1>2, <1>4 DEF FunctionAnswers, Call
  <2> HIDE DEF frame
  <2>2. Top' = frame
    BY <1>1, <1>2, <2>1 DEF OnTop, Top, CallsOK
  <2>3. QED
    BY <2>1, <2>2
<1>5. ASSUME NEW v \in Vfunc, NEW d \in Damage, SetFloat(v, d) PROVE FALSE
  <2> DEFINE m == Innermost(v)
  <2>1. calls' = IF \E k \in DOMAIN calls : calls[k].vfunc = v
                 THEN [calls EXCEPT ![m] = [@ EXCEPT !.mine = d]] ELSE calls
    BY <1>5 DEF SetFloat
  <2>2. CASE \E k \in DOMAIN calls : calls[k].vfunc = v
    <3>1. m \in DOMAIN calls
      BY <1>1, <2>2, InnermostIs
    <3> HIDE DEF m
    <3>2. calls[m] \in Call /\ calls \in Seq(Call)
      BY <1>1, <3>1, CallOfStack DEF CallsOK
    <3> DEFINE frame == [calls[m] EXCEPT !.mine = d]
    <3>3. frame \in Call /\ frame.step = calls[m].step
      BY <3>2 DEF Call
    <3>4. calls' = [calls EXCEPT ![m] = frame]
      BY <2>1, <2>2
    <3> HIDE DEF frame
    <3>5. Len(calls') = Len(calls) /\ calls'[Len(calls)].step = calls[Len(calls)].step
      BY <1>2, <3>1, <3>2, <3>3, <3>4
    <3>6. QED
      BY <1>2, <3>5 DEF Top
  <2>3. CASE ~\E k \in DOMAIN calls : calls[k].vfunc = v
    BY <2>1, <2>3 DEF Top
  <2>4. QED
    BY <2>2, <2>3
<1>6. ~OriginalReturns /\ ~PostEnds
  BY DEF OriginalReturns, PostEnds
<1>7. (\E v \in Vfunc, c \in Class : RegisterHook(v, c)) \/ ServerDeactivatePost \/ UNCHANGED vars => FALSE
  BY DEF RegisterHook, ServerDeactivatePost, vars, Top
<1>8. QED
  BY <1>3, <1>4, <1>5, <1>6, <1>7 DEF Next

\* The original never runs after a function answered Supercede; it runs with
\* the parameter of the game when every function answered Ignored, and else
\* with the one that the functions of its own call made of it, whatever calls
\* of the same function were made, changed and answered inside them.
THEOREM OriginalRunsWithItsOwn == Spec => OriginalRunsAsAsked
<1> DEFINE Asked == calls # <<>> /\ Top.step = "pre" /\ Top'.step = "original" /\ ~Top.spoiled =>
                      /\ Top'.ran = IF Top'.result = Ignored THEN Top.given ELSE Top.mine
                      /\ Top.result # Supercede
<1>1. ASSUME IInv, [Next]_vars PROVE Asked
  <2> SUFFICES ASSUME calls # <<>>, Top.step = "pre", Top'.step = "original", ~Top.spoiled
               PROVE  /\ Top'.ran = IF Top'.result = Ignored THEN Top.given ELSE Top.mine
                      /\ Top.result # Supercede
    OBVIOUS
  <2>1. PICK sets \in BOOLEAN : PreEnds(sets)
    BY <1>1, OriginalFollowsPreEnds
  <2>2. CallsOK /\ OwnParams
    BY <1>1, Halves
  <2>3. Top \in Call /\ Len(calls) \in DOMAIN calls /\ Top = calls[Len(calls)]
    BY <2>2, TopType
  <2>4. stacks[Top.vfunc] # <<>> /\ OwnPlace(Len(calls)) = Len(stacks[Top.vfunc]) /\ TopOf(Top.vfunc).param \in Damage \cup {None}
    BY <1>1, TopHasPlace
  <2>5. TopOf(Top.vfunc).param = Top.mine
    BY <2>2, <2>3, <2>4 DEF OwnParams, TopOf
  <2> DEFINE post == [Top EXCEPT !.step = "post", !.told = 0, !.result = Ignored]
             runs == [Top EXCEPT !.step = "original", !.ran = OriginalTakes(Top.result)]
  <2>6. post.step = "post" /\ runs.step = "original" /\ runs.ran = OriginalTakes(Top.result) /\ runs.result = Top.result
    BY <2>3 DEF Call
  <2>7. calls' = OnTop(IF Top.result = Supercede THEN post ELSE runs)
    BY <2>1 DEF PreEnds
  <2> HIDE DEF post, runs
  <2>8. Top' = IF Top.result = Supercede THEN post ELSE runs
    BY <2>2, <2>3, <2>7 DEF OnTop, Top, CallsOK
  <2>9. Top.result # Supercede /\ Top' = runs
    BY <2>6, <2>8
  <2>10. QED
    BY <2>5, <2>6, <2>9 DEF OriginalTakes
<1>2. IInv /\ [Next]_vars => [Asked]_vars
  BY <1>1
<1>3. QED
  BY <1>2, InductiveInvariant, PTL DEF Spec, OriginalRunsAsAsked
=============================================================================
