------------------------- MODULE RequestScopeProofs -------------------------
(***************************************************************************)
(* Proofs about RequestScope, for any services, scopes and dependencies,   *)
(* and any tasks and threads of any requests.  The inductive invariant has *)
(* one part per concern: how frames are stacked, who is inside the lock,   *)
(* which singleton is built, whose context is whose, what a context keeps, *)
(* and what the event loop resolves in it.                                 *)
(***************************************************************************)
EXTENDS RequestScope, FiniteSetTheorems, TLAPS

\* How deep a service is in the dependencies.
Rank == CHOOSE rank \in [Service -> 1..Cardinality(Service)] :
          \A s \in Service : Needs[s] # None => rank[Needs[s]] < rank[s]

LEMMA RankLemma ==
  /\ Rank \in [Service -> Nat]
  /\ \A s \in Service : Needs[s] # None => Needs[s] \in Service /\ Rank[Needs[s]] < Rank[s]
<1>1. Cardinality(Service) \in Nat
  BY DependencyAssumption, FS_CardinalityType
<1>2. /\ Rank \in [Service -> 1..Cardinality(Service)]
      /\ \A s \in Service : Needs[s] # None => Rank[Needs[s]] < Rank[s]
  BY DependencyAssumption DEF Rank
<1> QED BY <1>1, <1>2, BindingAssumption

FrameSet == [key : Service, ctx : Nat, phase : {"find", "wait", "init"}]

Typed ==
  /\ DOMAIN stage = Request
  /\ var \in [Task -> Nat]
  /\ contexts \in Seq([Service -> Nat])
  /\ singles \in [Service -> Nat]
  /\ born \in Nat
  /\ stack \in [Task -> Seq(FrameSet)]
  /\ given \subseteq [request : Request, ctx : Nat, key : Service, inst : Nat]

\* The frames of a task.  All but the last wait for the one above, which is
\* about a service deeper in the dependencies.
Frames(t) == {stack[t][i] : i \in 1 .. Len(stack[t])}

Ordered(s) ==
  \A i \in 1 .. Len(s) :
    /\ i < Len(s) => s[i].phase = "wait"
    /\ \A j \in 1 .. Len(s) : i < j => Rank[s[j].key] < Rank[s[i].key]

Stacked == \A t \in Task : Ordered(stack[t])

\* The frame has found that there is no instance yet.
Pending(f) == f.phase \in {"wait", "init"}

-----------------------------------------------------------------------------
(***************************************************************************)
(* The stack of a step.                                                    *)
(***************************************************************************)
\* The frames that stay when the one on top is given its instance.
LEMMA GiveLemma ==
  ASSUME Typed, NEW t \in Task, stack[t] # <<>>, NEW x, Give(t, x)
  PROVE  /\ Last(stack[t]) \in Frames(t) /\ Last(stack[t]) \in FrameSet
         /\ stack' \in [Task -> Seq(FrameSet)]
         /\ \A u \in Task : u # t => stack'[u] = stack[u]
         /\ Len(stack'[t]) = Len(stack[t]) - 1
         /\ \A i \in 1 .. Len(stack'[t]) :
              /\ stack'[t][i].key = stack[t][i].key /\ stack'[t][i].ctx = stack[t][i].ctx
              /\ stack'[t][i].phase = IF i = Len(stack'[t]) THEN "init" ELSE stack[t][i].phase
<1> DEFINE s == stack[t]
           rest == Front(s)
           top == IF rest = <<>> THEN <<>> ELSE Append(Front(rest), [Last(rest) EXCEPT !.phase = "init"])
<1>1. /\ s \in Seq(FrameSet) /\ Len(s) \in Nat /\ Len(s) >= 1
      /\ Last(s) = s[Len(s)] /\ Last(s) \in FrameSet /\ Last(s) \in Frames(t)
  BY DEF Typed, Last, Frames
<1>2. stack' = [stack EXCEPT ![t] = top]
  BY DEF Give
<1>3. /\ rest \in Seq(FrameSet) /\ Len(rest) = Len(s) - 1
      /\ \A i \in 1 .. Len(rest) : rest[i] = s[i]
  BY <1>1 DEF Front
<1> HIDE DEF rest
<1>4. /\ top \in Seq(FrameSet) /\ Len(top) = Len(s) - 1
      /\ \A i \in 1 .. Len(top) :
           /\ top[i].key = s[i].key /\ top[i].ctx = s[i].ctx
           /\ top[i].phase = IF i = Len(top) THEN "init" ELSE s[i].phase
  <2>1. CASE rest = <<>>
    BY <1>1, <1>3, <2>1
  <2>2. CASE rest # <<>>
    <3> DEFINE f == [Last(rest) EXCEPT !.phase = "init"]
               low == Front(rest)
    <3>1. Len(rest) >= 1 /\ Last(rest) = rest[Len(rest)] /\ Last(rest) \in FrameSet
      BY <1>3, <2>2 DEF Last
    <3>2. /\ f \in FrameSet /\ f.key = s[Len(rest)].key /\ f.ctx = s[Len(rest)].ctx /\ f.phase = "init"
      BY <1>3, <3>1 DEF FrameSet
    <3>3. /\ low \in Seq(FrameSet) /\ Len(low) = Len(rest) - 1
          /\ \A i \in 1 .. Len(low) : low[i] = s[i]
      BY <1>3, <3>1 DEF Front
    <3> HIDE DEF f, low, top
    <3>4. top = Append(low, f) /\ Len(rest) \in Nat
      BY <1>3, <2>2 DEF f, low, top
    <3>5. /\ top \in Seq(FrameSet) /\ Len(top) = Len(rest)
          /\ top[Len(rest)] = f
          /\ \A i \in 1 .. Len(rest) : i # Len(rest) => top[i] = s[i]
      BY <3>1, <3>2, <3>3, <3>4, <1>3
    <3> QED BY <3>2, <3>5, <1>3
  <2> QED BY <2>1, <2>2
<1> HIDE DEF top
<1>5. stack'[t] = top /\ stack' \in [Task -> Seq(FrameSet)] /\ \A u \in Task : u # t => stack'[u] = stack[u]
  BY <1>2, <1>4 DEF Typed
<1> QED BY <1>1, <1>4, <1>5

\* The frames that Build leaves: the same, the last of them a step further,
\* and perhaps one more.
LEMMA BuildLemma ==
  ASSUME Typed, NEW t \in Task, Build(t)
  PROVE  LET s == stack[t]
             m == Len(stack[t])
             u == stack'[t]
         IN  /\ m >= 1 /\ m \in Nat /\ Last(s) = s[m] /\ s[m] \in FrameSet /\ s[m].phase = "find"
             /\ stack' \in [Task -> Seq(FrameSet)]
             /\ \A v \in Task : v # t => stack'[v] = stack[v]
             /\ \A i \in 1 .. m : i # m => u[i] = s[i]
             /\ u[m].key = s[m].key /\ u[m].ctx = s[m].ctx
             /\ \/ /\ Needs[s[m].key] = None
                   /\ Len(u) = m /\ u[m].phase = "init"
                \/ /\ Needs[s[m].key] # None /\ Needs[s[m].key] \in Service
                   /\ Len(u) = m + 1 /\ u[m].phase = "wait"
                   /\ u[m + 1] = Frame(Needs[s[m].key], var[t])
<1> DEFINE s == stack[t]
           m == Len(s)
           f == Last(s)
           n == Needs[f.key]
           low == Front(s)
<1>1. /\ s \in Seq(FrameSet) /\ m \in Nat /\ m >= 1 /\ s # <<>>
      /\ f = s[m] /\ f \in FrameSet /\ f.phase = "find"
  BY DEF Build, Typed, Last
<1>2. /\ low \in Seq(FrameSet) /\ Len(low) = m - 1 /\ \A i \in 1 .. Len(low) : low[i] = s[i]
  BY <1>1 DEF Front
<1>3. stack' = [stack EXCEPT ![t] =
              IF n = None THEN Append(low, [f EXCEPT !.phase = "init"])
              ELSE low \o <<[f EXCEPT !.phase = "wait"], Frame(n, var[t])>>]
  BY DEF Build
<1>4. n \in Service \cup {None}
  BY <1>1, BindingAssumption DEF FrameSet
<1>5. /\ [f EXCEPT !.phase = "init"] \in FrameSet /\ [f EXCEPT !.phase = "wait"] \in FrameSet
      /\ n # None => Frame(n, var[t]) \in FrameSet
  BY <1>1, <1>4 DEF FrameSet, Frame, Typed
<1> DEFINE fi == [f EXCEPT !.phase = "init"]
           fw == [f EXCEPT !.phase = "wait"]
           fn == Frame(n, var[t])
<1>6. /\ fi.key = f.key /\ fi.ctx = f.ctx /\ fi.phase = "init"
      /\ fw.key = f.key /\ fw.ctx = f.ctx /\ fw.phase = "wait"
  BY <1>1 DEF FrameSet
<1> HIDE DEF low, fi, fw, fn
<1>7. CASE n = None
  <2>1. stack' = [stack EXCEPT ![t] = Append(low, fi)]
    BY <1>3, <1>7 DEF fi
  <2>2. /\ Append(low, fi) \in Seq(FrameSet) /\ Len(Append(low, fi)) = m
        /\ Append(low, fi)[m] = fi
        /\ \A i \in 1 .. m : i # m => Append(low, fi)[i] = s[i]
    BY <1>1, <1>2, <1>5 DEF fi
  <2>3. stack'[t] = Append(low, fi) /\ stack' \in [Task -> Seq(FrameSet)]
        /\ \A v \in Task : v # t => stack'[v] = stack[v]
    BY <2>1, <2>2 DEF Typed
  <2> QED BY <1>1, <1>6, <1>7, <2>2, <2>3
<1>8. CASE n # None
  <2> DEFINE w == low \o <<fw, fn>>
  <2>1. stack' = [stack EXCEPT ![t] = w]
    BY <1>3, <1>8 DEF fw, fn
  <2>2. fw \in FrameSet /\ fn \in FrameSet
    BY <1>5, <1>8 DEF fw, fn
  <2>3. /\ w \in Seq(FrameSet) /\ Len(w) = m + 1
        /\ w[m] = fw /\ w[m + 1] = fn
        /\ \A i \in 1 .. m : i # m => w[i] = s[i]
    <3>1. <<fw, fn>> \in Seq(FrameSet) /\ Len(<<fw, fn>>) = 2 /\ <<fw, fn>>[1] = fw /\ <<fw, fn>>[2] = fn
      BY <2>2
    <3> QED BY <1>1, <1>2, <3>1
  <2> HIDE DEF w
  <2>4. stack'[t] = w /\ stack' \in [Task -> Seq(FrameSet)]
        /\ \A v \in Task : v # t => stack'[v] = stack[v]
    BY <2>1, <2>3 DEF Typed
  <2> QED BY <1>1, <1>4, <1>6, <1>8, <2>3, <2>4 DEF fn
<1> QED BY <1>7, <1>8

LEMMA GetLemma ==
  ASSUME Typed, NEW t \in Task, NEW s \in Service, Get(t, s)
  PROVE  /\ stack' \in [Task -> Seq(FrameSet)]
         /\ stack[t] = <<>>
         /\ \A u \in Task : u # t => stack'[u] = stack[u]
         /\ Len(stack'[t]) = 1 /\ stack'[t][1] = Frame(s, var[t])
         /\ Frames(t)' = {Frame(s, var[t])}
<1>1. Frame(s, var[t]) \in FrameSet
  BY DEF Frame, FrameSet, Typed
<1>2. stack' = [stack EXCEPT ![t] = <<Frame(s, var[t])>>] /\ stack[t] = <<>>
  BY DEF Get, Idle
<1> DEFINE f == Frame(s, var[t])
<1> HIDE DEF f
<1>3. stack'[t] = <<f>> /\ Len(<<f>>) = 1 /\ <<f>>[1] = f
  BY <1>2 DEF Typed, f
<1>4. {<<f>>[i] : i \in 1 .. Len(<<f>>)} = {f}
  BY <1>3
<1>5. Frames(t)' = {f}
  BY <1>3, <1>4 DEF Frames
<1>6. <<f>> \in Seq(FrameSet)
  BY <1>1 DEF f
<1>7. stack' \in [Task -> Seq(FrameSet)] /\ \A u \in Task : u # t => stack'[u] = stack[u]
  BY <1>2, <1>6 DEF Typed, f
<1> QED BY <1>2, <1>3, <1>5, <1>7 DEF f

\* A frame that stays under the one on top waited for it, about another service.
LEMMA GiveFrames ==
  ASSUME Typed, Stacked, NEW t \in Task, stack[t] # <<>>, NEW x, Give(t, x),
         NEW f \in Frames(t)'
  PROVE  \E g \in Frames(t) :
           /\ f.key = g.key /\ f.ctx = g.ctx /\ g.key # Last(stack[t]).key
           /\ g.phase = "wait" /\ Pending(g) /\ Holds(g)
<1>1. PICK i \in 1 .. Len(stack'[t]) : f = stack'[t][i]
  BY DEF Frames
<1> DEFINE g == stack[t][i]
           m == Len(stack[t])
<1>2. /\ stack[t] \in Seq(FrameSet) /\ m \in Nat /\ i \in 1 .. m /\ i < m /\ m \in 1 .. m
      /\ Last(stack[t]) = stack[t][m]
  BY <1>1, GiveLemma DEF Typed, Last
<1>3. f.key = g.key /\ f.ctx = g.ctx
  BY <1>1, GiveLemma
<1>4. g.phase = "wait" /\ Rank[stack[t][m].key] < Rank[g.key]
  BY <1>2 DEF Stacked, Ordered
<1>5. g.key # stack[t][m].key
  <2>1. g \in FrameSet
    BY <1>2
  <2>2. Rank[g.key] \in Nat
    BY <2>1, RankLemma DEF FrameSet
  <2> QED BY <1>4, <2>2
<1> QED BY <1>2, <1>3, <1>4, <1>5 DEF Frames, Pending, Holds

\* Build makes a frame of the one on top, and perhaps a new one.
LEMMA BuildFrames ==
  ASSUME Typed, NEW t \in Task, Build(t), NEW f \in Frames(t)'
  PROVE  LET top == Last(stack[t]) IN
         /\ top \in Frames(t)
         /\ \/ f \in Frames(t)
            \/ f.key \in Service /\ f.phase = "find" /\ f.ctx = var[t]
            \/ /\ f.key = top.key /\ f.ctx = top.ctx
               /\ Holds(f) => Scope[top.key] = "singleton" \/ Needs[top.key] # None
<1> DEFINE s == stack[t]
           m == Len(s)
           top == Last(s)
<1>1. PICK i \in 1 .. Len(stack'[t]) : f = stack'[t][i]
  BY DEF Frames
<1>2. top = s[m] /\ m \in Nat /\ m >= 1 /\ top \in Frames(t)
  BY BuildLemma DEF Frames
<1>3. CASE i \in 1 .. m /\ i # m
  BY <1>1, <1>2, <1>3, BuildLemma DEF Frames
<1>4. CASE i = m
  BY <1>1, <1>2, <1>4, BuildLemma DEF Holds
<1>5. CASE i = m + 1 /\ Len(stack'[t]) = m + 1
  <2>1. f = Frame(Needs[top.key], var[t]) /\ Needs[top.key] \in Service
    BY <1>1, <1>2, <1>5, BuildLemma
  <2> QED BY <1>2, <2>1 DEF Frame
<1>6. Len(stack'[t]) = m \/ Len(stack'[t]) = m + 1
  BY BuildLemma
<1> QED BY <1>1, <1>2, <1>3, <1>4, <1>5, <1>6

LEMMA OthersFrames ==
  ASSUME NEW t \in Task, stack'[t] = stack[t]
  PROVE  Frames(t)' = Frames(t)
BY DEF Frames

-----------------------------------------------------------------------------
(***************************************************************************)
(* Whose context is whose.  A context is in use by the request whose task  *)
(* has it in its variable, whose frame has it, or to which it gave an      *)
(* instance; a new use copies one of the same request, or has a new        *)
(* context.                                                                *)
(***************************************************************************)
InUse(c, r) ==
  \/ \E t \in Task : t[1] = r /\ var[t] = c
  \/ \E t \in Task : t[1] = r /\ \E f \in Frames(t) : f.ctx = c
  \/ \E g \in given : g.request = r /\ g.ctx = c

Owned ==
  \A c \in Nat, r \in Request :
    InUse(c, r) =>
      /\ c <= Len(contexts)
      /\ \A q \in Request : InUse(c, q) /\ c # 0 => q = r

\* A step that changes variables or contexts only.
Quiet ==
  /\ UNCHANGED <<singles, born, stack, given>>
  /\ UNCHANGED contexts \/ contexts' = Append(contexts, Empty)

LEMMA QuietLemma ==
  ASSUME [Next]_vars
  PROVE  \/ Quiet
         \/ \E t \in Task : Find(t) \/ Build(t) \/ Construct(t)
         \/ \E t \in Task, s \in Service : Get(t, s) \/ UpdateScopedContext(t, s)
<1>1. ASSUME NEW r \in Request, Live(r) PROVE Quiet
  BY <1>1 DEF Live, Open, EnterMounted, LeaveMounted, Close, Leave, NewContext, Quiet, tables
<1>2. ASSUME NEW t \in Task, Start(t) PROVE Quiet
  BY <1>2 DEF Start, Quiet, tables
<1>3. CASE UNCHANGED vars
  BY <1>3 DEF vars, tables, Quiet
<1> QED BY <1>1, <1>2, <1>3 DEF Next, Resolve

LEMMA TaskLemma ==
  /\ \A t \in Task : t[1] \in Request /\ (~IsLoop(t) => <<t[1], "thread">> \in Task)
  /\ \A r \in Request : Main(r) \in Task /\ Main(r)[1] = r
<1>1. ASSUME NEW t \in Task PROVE t[1] \in Request /\ (~IsLoop(t) => <<t[1], "thread">> \in Task)
  <2>1. PICK r \in Request, k \in {"main", "task", "thread"} : t = <<r, k>>
    BY TaskAssumption
  <2> QED BY <2>1 DEF IsLoop
<1>2. ASSUME NEW r \in Request PROVE Main(r) \in Task /\ Main(r)[1] = r
  BY TaskAssumption DEF Main
<1> QED BY <1>1, <1>2

\* The context of a frame or a variable exists.
LEMMA ContextExists ==
  ASSUME Typed, Owned
  PROVE  /\ \A t \in Task : var[t] \in 0 .. Len(contexts)
         /\ \A t \in Task : \A f \in Frames(t) : f.ctx \in 0 .. Len(contexts) /\ f \in FrameSet
         /\ Len(contexts) \in Nat
<1>1. ASSUME NEW t \in Task PROVE var[t] \in 0 .. Len(contexts)
  <2>1. var[t] \in Nat /\ InUse(var[t], t[1]) /\ t[1] \in Request
    BY TaskLemma DEF Typed, InUse
  <2> QED BY <2>1 DEF Owned, Typed
<1>2. ASSUME NEW t \in Task, NEW f \in Frames(t) PROVE f.ctx \in 0 .. Len(contexts) /\ f \in FrameSet
  <2>1. f \in FrameSet
    <3>1. stack[t] \in Seq(FrameSet)
      BY DEF Typed
    <3> QED BY <3>1 DEF Frames
  <2>2. f.ctx \in Nat /\ InUse(f.ctx, t[1]) /\ t[1] \in Request
    BY <2>1, TaskLemma DEF FrameSet, InUse
  <2> QED BY <2>1, <2>2 DEF Owned, Typed
<1> QED BY <1>1, <1>2 DEF Typed

\* The keeping of an instance in a context, seen by its entries.
Keeps(c, s, i) == contexts' = [contexts EXCEPT ![c][s] = i]

LEMMA KeepLemma ==
  ASSUME Typed, NEW c \in 1 .. Len(contexts), NEW s \in Service, NEW i \in Nat, Keeps(c, s, i)
  PROVE  /\ contexts' \in Seq([Service -> Nat]) /\ Len(contexts') = Len(contexts)
         /\ \A d \in 1 .. Len(contexts), k \in Service :
              contexts'[d][k] = IF d = c /\ k = s THEN i ELSE contexts[d][k]
<1>1. contexts \in Seq([Service -> Nat]) /\ contexts[c] \in [Service -> Nat]
  BY DEF Typed
<1> DEFINE e == [contexts[c] EXCEPT ![s] = i]
<1>2. e \in [Service -> Nat] /\ \A k \in Service : e[k] = IF k = s THEN i ELSE contexts[c][k]
  BY <1>1
<1>3. contexts' = [contexts EXCEPT ![c] = e]
  BY DEF Keeps
<1> HIDE DEF e
<1>4. /\ contexts' \in Seq([Service -> Nat]) /\ Len(contexts') = Len(contexts)
      /\ contexts'[c] = e
      /\ \A d \in 1 .. Len(contexts) : d # c => contexts'[d] = contexts[d]
  BY <1>1, <1>2, <1>3
<1> QED BY <1>2, <1>4

LEMMA NewLemma ==
  ASSUME Typed, contexts' = Append(contexts, Empty)
  PROVE  /\ contexts' \in Seq([Service -> Nat]) /\ Len(contexts') = Len(contexts) + 1
         /\ \A d \in 1 .. Len(contexts) : contexts'[d] = contexts[d]
         /\ contexts'[Len(contexts) + 1] = Empty
         /\ \A k \in Service : Empty[k] = 0
<1>1. Empty \in [Service -> Nat] /\ \A k \in Service : Empty[k] = 0
  BY DEF Empty
<1> QED BY <1>1 DEF Typed

\* What a Find gives, and what a Construct keeps and gives.
Given(t, x) ==
  LET f == Last(stack[t])
  IN  [request |-> t[1], ctx |-> f.ctx, key |-> f.key, inst |-> x]

LEMMA FindLemma ==
  ASSUME Typed, Owned, NEW t \in Task, Find(t)
  PROVE  LET f == Last(stack[t]) IN
         /\ stack[t] # <<>> /\ f \in Frames(t) /\ f \in FrameSet
         /\ f.ctx \in 0 .. Len(contexts)
         /\ Give(t, Stored(f)) /\ Stored(f) \in Nat /\ Stored(f) # 0
         /\ given' = given \cup {Given(t, Stored(f))}
         /\ UNCHANGED <<stage, var, contexts, singles, born>>
<1> DEFINE f == Last(stack[t])
<1>1. stack[t] # <<>> /\ Give(t, Stored(f)) /\ Stored(f) # 0 /\ UNCHANGED <<stage, var, contexts, singles, born>>
  BY DEF Find, request, tables
<1>2. f \in Frames(t) /\ f \in FrameSet
  BY <1>1, GiveLemma
<1>3. f.ctx \in 0 .. Len(contexts)
  BY <1>2, ContextExists
<1>4. Stored(f) \in Nat
  <2>1. f.key \in Service /\ singles[f.key] \in Nat
    BY <1>2 DEF FrameSet, Typed
  <2>2. f.ctx # 0 => contexts[f.ctx][f.key] \in Nat
    BY <1>3, <2>1 DEF Typed
  <2> QED BY <2>1, <2>2 DEF Stored
<1>5. given' = given \cup {Given(t, Stored(f))}
  BY <1>1 DEF Give, Given
<1> QED BY <1>1, <1>2, <1>3, <1>4, <1>5

LEMMA ConstructLemma ==
  ASSUME Typed, Owned, NEW t \in Task, Construct(t)
  PROVE  LET f == Last(stack[t]) IN
         /\ stack[t] # <<>> /\ f \in Frames(t) /\ f \in FrameSet /\ f.phase = "init"
         /\ f.ctx \in 0 .. Len(contexts) /\ f.key \in Service
         /\ Give(t, born + 1) /\ born \in Nat /\ born' = born + 1
         /\ given' = given \cup {Given(t, born + 1)}
         /\ UNCHANGED <<stage, var>>
         /\ singles' = IF Scope[f.key] = "singleton" THEN [singles EXCEPT ![f.key] = born + 1] ELSE singles
         /\ contexts' = IF Scope[f.key] = "request" /\ f.ctx # 0
                        THEN [contexts EXCEPT ![f.ctx][f.key] = born + 1] ELSE contexts
<1> DEFINE f == Last(stack[t])
<1>1. /\ stack[t] # <<>> /\ Give(t, born + 1) /\ born' = born + 1 /\ f.phase = "init"
      /\ UNCHANGED <<stage, var>> /\ Keep(f, born + 1)
  BY DEF Construct, request
<1>2. f \in Frames(t) /\ f \in FrameSet
  BY <1>1, GiveLemma
<1>3. f.ctx \in 0 .. Len(contexts) /\ f.key \in Service
  BY <1>2, ContextExists DEF FrameSet
<1>4. given' = given \cup {Given(t, born + 1)}
  BY <1>1 DEF Give, Given
<1> QED BY <1>1, <1>2, <1>3, <1>4 DEF Keep, Typed

\* The contexts after a Construct: one more entry in one of them, or none.
LEMMA ConstructKeeps ==
  ASSUME Typed, Owned, NEW t \in Task, Construct(t)
  PROVE  LET f == Last(stack[t]) IN
         /\ contexts' \in Seq([Service -> Nat]) /\ Len(contexts') = Len(contexts)
         /\ \A d \in 1 .. Len(contexts), k \in Service :
              contexts'[d][k] = IF Scope[k] = "request" /\ d = f.ctx /\ k = f.key
                                THEN born + 1 ELSE contexts[d][k]
<1> DEFINE f == Last(stack[t])
<1>1. /\ f.ctx \in 0 .. Len(contexts) /\ f.key \in Service /\ born \in Nat
      /\ contexts' = IF Scope[f.key] = "request" /\ f.ctx # 0
                     THEN [contexts EXCEPT ![f.ctx][f.key] = born + 1] ELSE contexts
  BY ConstructLemma
<1>2. CASE Scope[f.key] = "request" /\ f.ctx # 0
  <2>1. f.ctx \in 1 .. Len(contexts) /\ f.key \in Service /\ born + 1 \in Nat
    BY <1>1, <1>2
  <2>2. /\ contexts' \in Seq([Service -> Nat]) /\ Len(contexts') = Len(contexts)
        /\ \A d \in 1 .. Len(contexts), k \in Service :
              contexts'[d][k] = IF d = f.ctx /\ k = f.key THEN born + 1 ELSE contexts[d][k]
    <3>1. Keeps(f.ctx, f.key, born + 1)
      BY <1>1, <1>2 DEF Keeps
    <3> HIDE DEF f
    <3> QED BY <2>1, <3>1, KeepLemma
  <2> QED BY <1>2, <2>2
<1>3. CASE ~(Scope[f.key] = "request" /\ f.ctx # 0)
  BY <1>1, <1>3 DEF Typed
<1> QED BY <1>2, <1>3

LEMMA UpdateLemma ==
  ASSUME Typed, Owned, NEW t \in Task, NEW s \in Service, UpdateScopedContext(t, s)
  PROVE  /\ Scope[s] = "request" /\ Idle(t) /\ var[t] \in 1 .. Len(contexts)
         /\ born \in Nat /\ born' = born + 1
         /\ contexts' \in Seq([Service -> Nat]) /\ Len(contexts') = Len(contexts)
         /\ \A d \in 1 .. Len(contexts), k \in Service :
              contexts'[d][k] = IF d = var[t] /\ k = s THEN born + 1 ELSE contexts[d][k]
         /\ \A g \in given' : g \in given /\ ~(g.ctx = var[t] /\ g.key = s)
         /\ UNCHANGED <<stage, var, singles, stack>>
<1>1. /\ Scope[s] = "request" /\ Idle(t) /\ var[t] # 0 /\ born' = born + 1
      /\ contexts' = [contexts EXCEPT ![var[t]][s] = born + 1]
      /\ given' = {g \in given : ~(g.ctx = var[t] /\ g.key = s)}
      /\ UNCHANGED <<stage, var, singles, stack>>
  BY DEF UpdateScopedContext, request
<1>2. born \in Nat /\ born + 1 \in Nat
  BY DEF Typed
<1>3. var[t] \in 1 .. Len(contexts)
  <2>1. var[t] \in 0 .. Len(contexts) /\ Len(contexts) \in Nat
    BY ContextExists
  <2> QED BY <1>1, <2>1
<1>4. /\ contexts' \in Seq([Service -> Nat]) /\ Len(contexts') = Len(contexts)
      /\ \A d \in 1 .. Len(contexts), k \in Service :
              contexts'[d][k] = IF d = var[t] /\ k = s THEN born + 1 ELSE contexts[d][k]
  <2>1. Keeps(var[t], s, born + 1)
    BY <1>1 DEF Keeps
  <2> QED BY <1>2, <1>3, <2>1, KeepLemma
<1>5. \A g \in given' : g \in given /\ ~(g.ctx = var[t] /\ g.key = s)
  BY <1>1
<1> QED BY <1>1, <1>2, <1>3, <1>4, <1>5

-----------------------------------------------------------------------------
LEMMA TypedInit == Init => Typed /\ Owned
<1> SUFFICES ASSUME Init PROVE Typed /\ Owned
  OBVIOUS
<1>1. Typed
  BY DEF Init, Typed, Empty
<1>2. \A t \in Task : Frames(t) = {}
  BY DEF Init, Frames
<1>3. Owned
  BY <1>2 DEF Init, Owned, InUse
<1> QED BY <1>1, <1>3

\* The variables keep their types.
LEMMA TypedNext == Typed /\ Owned /\ [Next]_vars => Typed'
<1> SUFFICES ASSUME Typed, Owned, [Next]_vars PROVE Typed'
  OBVIOUS
<1>1. CASE Quiet
  <2>1. contexts' \in Seq([Service -> Nat])
    BY <1>1, NewLemma DEF Quiet, Typed
  <2>2. var' \in [Task -> Nat] /\ DOMAIN stage' = Request
    <3>1. Len(contexts) + 1 \in Nat
      BY DEF Typed
    <3>2. ASSUME NEW r \in Request, Live(r) PROVE var' \in [Task -> Nat] /\ DOMAIN stage' = Request
      <4>1. \E s : stage' = [stage EXCEPT ![r] = s]
        BY <3>2 DEF Live, Open, EnterMounted, LeaveMounted, Close, Leave
      <4>2. \/ var' = [var EXCEPT ![Main(r)] = Len(contexts) + 1]
            \/ var' = [var EXCEPT ![Main(r)] = 0]
        <5>1. CASE Open(r) \/ EnterMounted(r)
          BY <5>1 DEF Open, EnterMounted, NewContext
        <5>2. CASE LeaveMounted(r) \/ Close(r)
          BY <5>2 DEF LeaveMounted, Close, Leave
        <5> QED BY <3>2, <5>1, <5>2 DEF Live
      <4>3. var' \in [Task -> Nat]
        <5>1. \E n \in Nat : var' = [var EXCEPT ![Main(r)] = n]
          BY <3>1, <4>2
        <5> QED BY <5>1 DEF Typed
      <4>4. DOMAIN stage' = Request
        BY <4>1 DEF Typed
      <4> QED BY <4>3, <4>4
    <3>3. ASSUME NEW t \in Task, Start(t) PROVE var' \in [Task -> Nat] /\ DOMAIN stage' = Request
      <4>1. Main(t[1]) \in Task
        BY TaskLemma
      <4> QED BY <3>3, <4>1 DEF Start, Typed
    <3>4. ASSUME NEW t \in Task, Resolve(t) \/ \E s \in Service : Get(t, s) \/ UpdateScopedContext(t, s)
          PROVE  UNCHANGED <<stage, var>>
      BY <3>4 DEF Resolve, Find, Build, Construct, Get, UpdateScopedContext, request
    <3> QED BY <3>2, <3>3, <3>4 DEF Next, vars, request, Typed
  <2> QED BY <1>1, <2>1, <2>2 DEF Quiet, Typed
<1>2. ASSUME NEW t \in Task, NEW x \in Nat, stack[t] # <<>>, Give(t, x) 
      PROVE  Given(t, x) \in [request : Request, ctx : Nat, key : Service, inst : Nat]
             /\ stack' \in [Task -> Seq(FrameSet)]
  <2>1. Last(stack[t]) \in FrameSet /\ t[1] \in Request /\ stack' \in [Task -> Seq(FrameSet)]
    BY <1>2, GiveLemma, TaskLemma
  <2> QED BY <2>1 DEF Given, FrameSet
<1>3. ASSUME NEW t \in Task, Find(t) PROVE Typed'
  BY <1>2, <1>3, FindLemma DEF Typed
<1>4. ASSUME NEW t \in Task, Build(t) PROVE Typed'
  BY <1>4, BuildLemma DEF Build, Typed, request, tables
<1>5. ASSUME NEW t \in Task, Construct(t) PROVE Typed'
  <2> DEFINE f == Last(stack[t])
  <2>1. /\ stack[t] # <<>> /\ Give(t, born + 1) /\ born + 1 \in Nat /\ born' = born + 1
        /\ given' = given \cup {Given(t, born + 1)} /\ UNCHANGED <<stage, var>>
        /\ f.key \in Service
        /\ singles' = IF Scope[f.key] = "singleton" THEN [singles EXCEPT ![f.key] = born + 1] ELSE singles
    <3>1. born \in Nat /\ born + 1 \in Nat
      BY DEF Typed
    <3> QED BY <1>5, <3>1, ConstructLemma
  <2>2. contexts' \in Seq([Service -> Nat])
    BY <1>5, ConstructKeeps
  <2>3. singles' \in [Service -> Nat]
    <3> HIDE DEF f
    <3> QED BY <2>1 DEF Typed
  <2> QED BY <1>2, <2>1, <2>2, <2>3 DEF Typed
<1>6. ASSUME NEW t \in Task, NEW s \in Service, Get(t, s) PROVE Typed'
  <2>1. stack' \in [Task -> Seq(FrameSet)]
    BY <1>6, GetLemma
  <2>2. UNCHANGED <<stage, var, contexts, singles, born, given>>
    BY <1>6 DEF Get, request, tables
  <2> QED BY <2>1, <2>2 DEF Typed
<1>7. ASSUME NEW t \in Task, NEW s \in Service, UpdateScopedContext(t, s) PROVE Typed'
  <2>1. /\ contexts' \in Seq([Service -> Nat]) /\ born' \in Nat /\ given' \subseteq given
        /\ UNCHANGED <<stage, var, singles, stack>>
    <3>1. born \in Nat => born + 1 \in Nat
      OBVIOUS
    <3> QED BY <1>7, <3>1, UpdateLemma
  <2> QED BY <2>1 DEF Typed
<1> QED BY <1>1, <1>3, <1>4, <1>5, <1>6, <1>7, QuietLemma

\* A context that comes into use was the same request's, or is a new one.
LEMMA OwnedLemma ==
  ASSUME Typed, Owned, Len(contexts') \in Nat, Len(contexts') >= Len(contexts), NEW o \in Request,
         \A c \in Nat, r \in Request :
           InUse(c, r)' => \/ InUse(c, r) \/ c = 0
                           \/ c = Len(contexts) + 1 /\ r = o /\ Len(contexts') = Len(contexts) + 1
  PROVE  Owned'
<1>1. Len(contexts) \in Nat
  BY DEF Typed
<1>2. ASSUME NEW c \in Nat, NEW r \in Request, InUse(c, r)' PROVE c <= Len(contexts')
  BY <1>1, <1>2 DEF Owned
<1>3. ASSUME NEW c \in Nat, NEW r \in Request, InUse(c, r)',
             NEW q \in Request, InUse(c, q)', c # 0
      PROVE  q = r
  BY <1>1, <1>3 DEF Owned
<1> QED BY <1>2, <1>3 DEF Owned

LEMMA OwnedNext == Typed /\ Stacked /\ Owned /\ [Next]_vars => Owned'
<1> SUFFICES ASSUME Typed, Stacked, Owned, [Next]_vars PROVE Owned'
  OBVIOUS
<1>0. Len(contexts) \in Nat
  BY DEF Typed
<1>1. ASSUME NEW r \in Request, Live(r) PROVE Owned'
  <2>1. /\ UNCHANGED <<stack, given>> /\ \A t \in Task : Frames(t)' = Frames(t)
        /\ \A t \in Task : t # Main(r) => var'[t] = var[t]
        /\ \/ NewContext(Main(r))
           \/ UNCHANGED contexts /\ var' = [var EXCEPT ![Main(r)] = 0]
    BY <1>1 DEF Live, Open, EnterMounted, LeaveMounted, Close, Leave, NewContext, tables, Frames, Typed
  <2>2. Main(r) \in Task /\ Main(r)[1] = r
    BY TaskLemma
  <2>3. CASE NewContext(Main(r))
    <3>1. Len(contexts') = Len(contexts) + 1
      BY <2>3, NewLemma DEF NewContext
    <3>2. var'[Main(r)] = Len(contexts) + 1
      BY <2>2, <2>3 DEF NewContext, Typed
    <3>3. \A c \in Nat, q \in Request : InUse(c, q)' => InUse(c, q) \/ (c = Len(contexts) + 1 /\ q = r)
      <4> SUFFICES ASSUME NEW c \in Nat, NEW q \in Request, InUse(c, q)'
                   PROVE  InUse(c, q) \/ (c = Len(contexts) + 1 /\ q = r)
        OBVIOUS
      <4>1. CASE \E t \in Task : t[1] = q /\ var'[t] = c
        BY <2>1, <2>2, <3>2, <4>1 DEF InUse
      <4>2. CASE \E t \in Task : t[1] = q /\ \E f \in Frames(t)' : f.ctx = c
        BY <2>1, <4>2 DEF InUse
      <4>3. CASE \E g \in given' : g.request = q /\ g.ctx = c
        BY <2>1, <4>3 DEF InUse
      <4> QED BY <4>1, <4>2, <4>3 DEF InUse
    <3> QED BY <1>0, <3>1, <3>3, OwnedLemma
  <2>4. CASE UNCHANGED contexts /\ var' = [var EXCEPT ![Main(r)] = 0]
    <3>1. var'[Main(r)] = 0
      BY <2>2, <2>4 DEF Typed
    <3>2. \A c \in Nat, q \in Request : InUse(c, q)' => InUse(c, q) \/ c = 0
      BY <2>1, <2>2, <3>1 DEF InUse
    <3> QED BY <1>0, <2>4, <3>2, OwnedLemma
  <2> QED BY <2>1, <2>3, <2>4
<1>2. ASSUME UNCHANGED <<contexts>>, NEW o \in Request,
             \A c \in Nat, r \in Request : InUse(c, r)' => InUse(c, r)
      PROVE  Owned'
  BY <1>0, <1>2, OwnedLemma
<1>3. ASSUME NEW t \in Task, Start(t) PROVE Owned'
  <2>1. Main(t[1]) \in Task /\ Main(t[1])[1] = t[1] /\ t[1] \in Request
    BY TaskLemma
  <2>2. /\ UNCHANGED <<contexts, stack, given>> /\ \A u \in Task : Frames(u)' = Frames(u)
        /\ var'[t] = var[Main(t[1])] /\ \A u \in Task : u # t => var'[u] = var[u]
    BY <1>3 DEF Start, tables, Frames, Typed
  <2>3. \A c \in Nat, r \in Request : InUse(c, r)' => InUse(c, r)
    BY <2>1, <2>2 DEF InUse
  <2> QED BY <1>2, <2>1, <2>2, <2>3
<1>4. ASSUME NEW t \in Task, UNCHANGED var, Len(contexts') = Len(contexts),
             \A u \in Task : u # t => stack'[u] = stack[u],
             \A f \in Frames(t)' : f.ctx = var[t] \/ \E g \in Frames(t) : f.ctx = g.ctx,
             \A g \in given' : g \in given \/ \E f \in Frames(t) : g.request = t[1] /\ g.ctx = f.ctx
      PROVE  Owned'
  <2>1. \A u \in Task : u # t => Frames(u)' = Frames(u)
    BY <1>4, OthersFrames
  <2>2. t[1] \in Request
    BY TaskLemma
  <2>3. ASSUME NEW c \in Nat, NEW r \in Request, InUse(c, r)' PROVE InUse(c, r)
    <3>1. CASE \E u \in Task : u[1] = r /\ var'[u] = c
      BY <1>4, <3>1 DEF InUse
    <3>2. CASE \E u \in Task : u[1] = r /\ \E f \in Frames(u)' : f.ctx = c
      BY <1>4, <2>1, <3>2 DEF InUse
    <3>3. CASE \E g \in given' : g.request = r /\ g.ctx = c
      BY <1>4, <3>3 DEF InUse
    <3> QED BY <2>3, <3>1, <3>2, <3>3 DEF InUse
  <2> QED BY <1>0, <1>4, <2>2, <2>3, OwnedLemma
<1>5. ASSUME NEW t \in Task, NEW x, stack[t] # <<>>, Give(t, x), given' = given \cup {Given(t, x)},
             UNCHANGED var, Len(contexts') = Len(contexts)
      PROVE  Owned'
  <2>1. /\ Last(stack[t]) \in Frames(t)
        /\ \A u \in Task : u # t => stack'[u] = stack[u]
    BY <1>5, GiveLemma
  <2>2. \A f \in Frames(t)' : \E g \in Frames(t) : f.ctx = g.ctx
    BY <1>5, GiveFrames
  <2> QED BY <1>4, <1>5, <2>1, <2>2 DEF Given
<1>6. ASSUME NEW t \in Task, Find(t) \/ Construct(t) PROVE Owned'
  BY <1>5, <1>6, FindLemma, ConstructLemma, ConstructKeeps
<1>7. ASSUME NEW t \in Task, Build(t) PROVE Owned'
  <2>1. UNCHANGED <<var, contexts, given>> /\ \A u \in Task : u # t => stack'[u] = stack[u]
    BY <1>7, BuildLemma DEF Build, request, tables
  <2>2. \A f \in Frames(t)' : f.ctx = var[t] \/ \E g \in Frames(t) : f.ctx = g.ctx
    BY <1>7, BuildFrames
  <2> QED BY <1>4, <2>1, <2>2
<1>8. ASSUME NEW t \in Task, NEW s \in Service, Get(t, s) PROVE Owned'
  <2>1. UNCHANGED <<var, contexts, given>> /\ \A u \in Task : u # t => stack'[u] = stack[u]
    BY <1>8, GetLemma DEF Get, request, tables
  <2>2. \A f \in Frames(t)' : f.ctx = var[t]
    <3>1. Frames(t)' = {Frame(s, var[t])}
      BY <1>8, GetLemma
    <3> QED BY <3>1 DEF Frame
  <2> QED BY <1>4, <2>1, <2>2
<1>9. ASSUME NEW t \in Task, NEW s \in Service, UpdateScopedContext(t, s) PROVE Owned'
  <2>1. UNCHANGED <<var, stack>> /\ Len(contexts') = Len(contexts) /\ given' \subseteq given
    BY <1>9, UpdateLemma
  <2>2. Frames(t)' = Frames(t)
    BY <2>1, OthersFrames
  <2> QED BY <1>4, <2>1, <2>2
<1>10. CASE UNCHANGED vars
  BY <1>10 DEF vars, request, tables, Owned, InUse, Frames
<1> QED BY <1>1, <1>3, <1>6, <1>7, <1>8, <1>9, <1>10 DEF Next, Resolve

\* A step leaves the stacks as they are, begins a get, ends the frame on top,
\* or builds for it.
LEMMA StackCases ==
  ASSUME Typed, Owned, [Next]_vars
  PROVE  \/ UNCHANGED stack
         \/ \E t \in Task, s \in Service : Get(t, s)
         \/ \E t \in Task, x \in Nat : stack[t] # <<>> /\ Give(t, x)
         \/ \E t \in Task : Build(t)
<1>1. CASE Quiet
  BY <1>1 DEF Quiet
<1>2. ASSUME NEW t \in Task, Find(t) PROVE \E x \in Nat : stack[t] # <<>> /\ Give(t, x)
  BY <1>2, FindLemma
<1>3. ASSUME NEW t \in Task, Construct(t) PROVE \E x \in Nat : stack[t] # <<>> /\ Give(t, x)
  <2>1. stack[t] # <<>> /\ Give(t, born + 1)
    BY <1>3, ConstructLemma
  <2>2. born \in Nat /\ born + 1 \in Nat
    BY DEF Typed
  <2> QED BY <2>1, <2>2
<1>4. ASSUME NEW t \in Task, NEW s \in Service, UpdateScopedContext(t, s) PROVE UNCHANGED stack
  BY <1>4, UpdateLemma
<1> QED BY <1>1, <1>2, <1>3, <1>4, QuietLemma

\* The frames under one that ends are in order, and so is a new one on top.
LEMMA GiveOrder ==
  ASSUME NEW s, NEW u, Ordered(s), Len(s) \in Nat, Len(u) = Len(s) - 1,
         \A i \in 1 .. Len(u) :
           u[i].key = s[i].key /\ u[i].phase = IF i = Len(u) THEN "init" ELSE s[i].phase
  PROVE  Ordered(u)
<1>1. ASSUME NEW i \in 1 .. Len(u), i < Len(u) PROVE u[i].phase = "wait"
  BY <1>1 DEF Ordered
<1>2. ASSUME NEW i \in 1 .. Len(u), NEW j \in 1 .. Len(u), i < j
      PROVE  Rank[u[j].key] < Rank[u[i].key]
  <2>1. Rank[s[j].key] < Rank[s[i].key]
    BY <1>2 DEF Ordered
  <2> QED BY <2>1
<1> QED BY <1>1, <1>2 DEF Ordered

LEMMA BuildOrder ==
  ASSUME NEW s, NEW u, Ordered(s), Len(s) \in Nat, Len(s) >= 1,
         \A i \in 1 .. Len(s) : u[i].key = s[i].key /\ s[i].key \in Service,
         \A i \in 1 .. Len(s) : i # Len(s) => u[i].phase = s[i].phase,
         \/ Len(u) = Len(s)
         \/ /\ Len(u) = Len(s) + 1 /\ u[Len(s)].phase = "wait"
            /\ Needs[s[Len(s)].key] # None /\ u[Len(u)].key = Needs[s[Len(s)].key]
  PROVE  Ordered(u)
<1> DEFINE m == Len(s)
<1>1. ASSUME NEW i \in 1 .. m PROVE Rank[s[i].key] \in Nat
  BY <1>1, RankLemma
<1>2. ASSUME NEW i \in 1 .. Len(u), i < Len(u) PROVE u[i].phase = "wait"
  BY <1>2 DEF Ordered
<1>3. ASSUME NEW i \in 1 .. m, NEW j \in 1 .. m, i < j PROVE Rank[u[j].key] < Rank[u[i].key]
  <2>1. Rank[s[j].key] < Rank[s[i].key]
    BY <1>3 DEF Ordered
  <2> QED BY <2>1
<1>4. ASSUME NEW i \in 1 .. m, Len(u) = m + 1 PROVE Rank[u[Len(u)].key] < Rank[u[i].key]
  <2>1. Needs[s[m].key] # None /\ u[Len(u)].key = Needs[s[m].key] /\ s[m].key \in Service
    BY <1>4
  <2>2. Rank[u[Len(u)].key] \in Nat /\ Rank[u[Len(u)].key] < Rank[s[m].key]
    BY <2>1, RankLemma, BindingAssumption
  <2>3. i # m => Rank[s[m].key] < Rank[s[i].key]
    BY DEF Ordered
  <2>4. Rank[s[i].key] \in Nat /\ Rank[s[m].key] \in Nat
    BY <1>1
  <2>5. Rank[u[Len(u)].key] < Rank[s[i].key]
    BY <2>2, <2>3, <2>4
  <2> QED BY <2>5
<1>5. ASSUME NEW i \in 1 .. Len(u), NEW j \in 1 .. Len(u), i < j
      PROVE  Rank[u[j].key] < Rank[u[i].key]
  <2>1. CASE j \in 1 .. m
    <3>1. i \in 1 .. m
      BY <1>5, <2>1
    <3> QED BY <1>3, <1>5, <2>1, <3>1
  <2>2. CASE j \notin 1 .. m
    <3>1. j = Len(u) /\ Len(u) = m + 1 /\ i \in 1 .. m
      BY <1>5, <2>2
    <3> QED BY <1>4, <3>1
  <2> QED BY <2>1, <2>2
<1> QED BY <1>2, <1>5 DEF Ordered

\* The stack of each task stays in order.
LEMMA StackedNext == Typed /\ Owned /\ Stacked /\ [Next]_vars => Stacked'
<1> SUFFICES ASSUME Typed, Owned, Stacked, [Next]_vars PROVE Stacked'
  OBVIOUS
<1>1. ASSUME NEW t \in Task, \A u \in Task : u # t => stack'[u] = stack[u], Ordered(stack'[t])
      PROVE  Stacked'
  <2>1. \A u \in Task : Ordered(stack'[u])
    BY <1>1 DEF Stacked
  <2> QED BY <2>1 DEF Stacked
<1>2. ASSUME NEW t \in Task, NEW s \in Service, Get(t, s) PROVE Stacked'
  <2>1. Len(stack'[t]) = 1 /\ \A u \in Task : u # t => stack'[u] = stack[u]
    BY <1>2, GetLemma
  <2>2. Ordered(stack'[t])
    BY <2>1 DEF Ordered
  <2> QED BY <1>1, <2>1, <2>2
<1>3. ASSUME NEW t \in Task, NEW x \in Nat, stack[t] # <<>>, Give(t, x) PROVE Stacked'
  <2>1. Len(stack[t]) \in Nat /\ Ordered(stack[t])
    BY DEF Typed, Stacked
  <2>2. /\ Len(stack'[t]) = Len(stack[t]) - 1
        /\ \A i \in 1 .. Len(stack'[t]) :
             /\ stack'[t][i].key = stack[t][i].key
             /\ stack'[t][i].phase = IF i = Len(stack'[t]) THEN "init" ELSE stack[t][i].phase
        /\ \A u \in Task : u # t => stack'[u] = stack[u]
    BY <1>3, GiveLemma
  <2>3. Ordered(stack'[t])
    BY <2>1, <2>2, GiveOrder
  <2> QED BY <1>1, <2>2, <2>3
<1>4. ASSUME NEW t \in Task, Build(t) PROVE Stacked'
  <2> DEFINE s == stack[t]
             u == stack'[t]
  <2>1. /\ Len(s) \in Nat /\ Len(s) >= 1 /\ \A v \in Task : v # t => stack'[v] = stack[v]
        /\ \A i \in 1 .. Len(s) : i # Len(s) => u[i] = s[i]
        /\ u[Len(s)].key = s[Len(s)].key
    BY <1>4, BuildLemma
  <2>2. \A i \in 1 .. Len(s) : u[i].key = s[i].key
    BY <2>1
  <2>3. ASSUME NEW i \in 1 .. Len(s) PROVE s[i].key \in Service
    <3>1. s \in Seq(FrameSet)
      BY DEF Typed
    <3>2. s[i] \in FrameSet
      BY <2>3, <3>1
    <3> QED BY <3>2 DEF FrameSet
  <2>4. \/ Len(u) = Len(s)
        \/ /\ Len(u) = Len(s) + 1 /\ u[Len(s)].phase = "wait"
           /\ Needs[s[Len(s)].key] # None /\ u[Len(u)].key = Needs[s[Len(s)].key]
    <3>1. \/ Len(u) = Len(s)
          \/ /\ Needs[s[Len(s)].key] # None
             /\ Len(u) = Len(s) + 1 /\ u[Len(s)].phase = "wait"
             /\ u[Len(s) + 1] = Frame(Needs[s[Len(s)].key], var[t])
      BY <1>4, BuildLemma
    <3> HIDE DEF s, u
    <3> QED BY <3>1 DEF Frame
  <2>5. Ordered(s)
    BY DEF Stacked
  <2>6. Ordered(u)
    <3> HIDE DEF s, u
    <3> QED BY <2>1, <2>2, <2>3, <2>4, <2>5, BuildOrder
  <2> QED BY <1>1, <2>1, <2>6
<1>5. CASE UNCHANGED stack
  BY <1>5 DEF Stacked
<1> QED BY <1>2, <1>3, <1>4, <1>5, StackCases

-----------------------------------------------------------------------------
(***************************************************************************)
(* The lock of the library, and the singletons built inside it.            *)
(***************************************************************************)
Locking(t) == \E f \in Frames(t) : Holds(f)

Mutex == \A t, u \in Task : Locking(t) /\ Locking(u) => t = u

LEMMA LockLemma ==
  ASSUME Typed, NEW t \in Task, LockFree(t)
  PROVE  \A u \in Task : u # t => ~Locking(u)
<1>1. ASSUME NEW u \in Task PROVE ToSet(stack[u]) = Frames(u)
  <2>1. DOMAIN stack[u] = 1 .. Len(stack[u])
    BY DEF Typed
  <2> QED BY <2>1 DEF ToSet, Frames
<1> QED BY <1>1 DEF LockFree, Locking

\* Two tasks are never inside sections of the lock.
LEMMA MutexNext == Typed /\ Owned /\ Stacked /\ Mutex /\ [Next]_vars => Mutex'
<1> SUFFICES ASSUME Typed, Owned, Stacked, Mutex, [Next]_vars PROVE Mutex'
  OBVIOUS
<1>1. ASSUME NEW t \in Task, \A u \in Task : u # t => stack'[u] = stack[u],
             Locking(t)' => Locking(t) \/ \A u \in Task : u # t => ~Locking(u)
      PROVE  Mutex'
  <2>1. \A u \in Task : u # t => Frames(u)' = Frames(u)
    BY <1>1, OthersFrames
  <2>2. \A u \in Task : u # t => (Locking(u)' <=> Locking(u))
    BY <2>1 DEF Locking, Holds
  <2> QED BY <1>1, <2>2 DEF Mutex
<1>2. ASSUME NEW t \in Task, NEW s \in Service, Get(t, s) PROVE Mutex'
  <2>1. /\ Frames(t)' = {Frame(s, var[t])}
        /\ \A u \in Task : u # t => stack'[u] = stack[u]
    BY <1>2, GetLemma
  <2>2. ~Locking(t)'
    BY <2>1 DEF Locking, Holds, Frame
  <2> QED BY <1>1, <2>1, <2>2
<1>3. ASSUME NEW t \in Task, NEW x \in Nat, stack[t] # <<>>, Give(t, x) PROVE Mutex'
  <2>1. \A u \in Task : u # t => stack'[u] = stack[u]
    BY <1>3, GiveLemma
  <2>2. Locking(t)' => Locking(t)
    BY <1>3, GiveFrames DEF Locking
  <2> QED BY <1>1, <2>1, <2>2
<1>4. ASSUME NEW t \in Task, Build(t) PROVE Mutex'
  <2> DEFINE top == Last(stack[t])
  <2>1. \A u \in Task : u # t => stack'[u] = stack[u]
    BY <1>4, BuildLemma
  <2>2. Scope[top.key] = "singleton" \/ Needs[top.key] # None => \A u \in Task : u # t => ~Locking(u)
    BY <1>4, LockLemma DEF Build
  <2>3. ASSUME NEW f \in Frames(t)', Holds(f)
        PROVE  Locking(t) \/ Scope[top.key] = "singleton" \/ Needs[top.key] # None
    <3>1. f \in Frames(t) \/ f.phase = "find" \/ Scope[top.key] = "singleton" \/ Needs[top.key] # None
      BY <1>4, <2>3, BuildFrames
    <3> QED BY <2>3, <3>1 DEF Locking, Holds
  <2>4. Locking(t)' => \E f \in Frames(t)' : Holds(f)
    BY DEF Locking, Holds
  <2> QED BY <1>1, <2>1, <2>2, <2>3, <2>4
<1>5. CASE UNCHANGED stack
  BY <1>5 DEF Mutex, Locking, Frames, Holds
<1> QED BY <1>2, <1>3, <1>4, <1>5, StackCases

\* What was given of a singleton is the one that is kept, and while one is
\* being built there is none.
Singles ==
  /\ \A g \in given : Scope[g.key] = "singleton" => g.inst = singles[g.key] /\ g.inst # 0
  /\ \A t \in Task : \A f \in Frames(t) :
       Scope[f.key] = "singleton" /\ Pending(f) => singles[f.key] = 0

LEMMA SinglesNext ==
  Typed /\ Owned /\ Stacked /\ Mutex /\ Singles /\ [Next]_vars => Singles'
<1> SUFFICES ASSUME Typed, Owned, Stacked, Mutex, Singles, [Next]_vars PROVE Singles'
  OBVIOUS
<1>0. \A t \in Task : \A f \in Frames(t) : f \in FrameSet
  BY ContextExists
<1>1. ASSUME NEW t \in Task, UNCHANGED singles, \A u \in Task : u # t => stack'[u] = stack[u],
             \A f \in Frames(t)' : Scope[f.key] = "singleton" /\ Pending(f) => singles[f.key] = 0,
             \A g \in given' : g \in given \/ (Scope[g.key] = "singleton" =>
                                               g.inst = singles[g.key] /\ g.inst # 0)
      PROVE  Singles'
  <2>1. \A u \in Task : u # t => Frames(u)' = Frames(u)
    BY <1>1, OthersFrames
  <2>2. \A u \in Task : \A f \in Frames(u)' :
          Scope[f.key] = "singleton" /\ Pending(f) => singles[f.key] = 0
    BY <1>1, <2>1 DEF Singles
  <2> QED BY <1>1, <2>2 DEF Singles, Pending
<1>2. CASE Quiet
  BY <1>2 DEF Quiet, Singles, Frames, Pending
<1>3. ASSUME NEW t \in Task, Find(t) PROVE Singles'
  <2> DEFINE f == Last(stack[t])
  <2>1. /\ stack[t] # <<>> /\ f \in FrameSet /\ Give(t, Stored(f)) /\ Stored(f) # 0
        /\ given' = given \cup {Given(t, Stored(f))} /\ UNCHANGED singles
    BY <1>3, FindLemma
  <2>2. /\ Given(t, Stored(f)).key = f.key /\ Given(t, Stored(f)).inst = Stored(f)
        /\ Scope[f.key] = "singleton" => Stored(f) = singles[f.key]
    BY DEF Given, Stored
  <2>3. \A u \in Task : u # t => stack'[u] = stack[u]
    BY <2>1, GiveLemma
  <2>4. ASSUME NEW h \in Frames(t)', Scope[h.key] = "singleton" PROVE singles[h.key] = 0
    <3>1. PICK g \in Frames(t) : h.key = g.key /\ Pending(g)
      BY <2>1, GiveFrames
    <3> QED BY <2>4, <3>1 DEF Singles
  <2> HIDE DEF f
  <2> QED BY <1>1, <2>1, <2>2, <2>3, <2>4
<1>4. ASSUME NEW t \in Task, Build(t) PROVE Singles'
  <2> DEFINE top == Last(stack[t])
  <2>1. /\ \A u \in Task : u # t => stack'[u] = stack[u]
        /\ UNCHANGED <<singles, given>>
    BY <1>4, BuildLemma DEF Build, tables
  <2>2. Scope[top.key] = "singleton" => singles[top.key] = 0
    BY <1>4 DEF Build, Stored
  <2>3. ASSUME NEW f \in Frames(t)', Scope[f.key] = "singleton", Pending(f) PROVE singles[f.key] = 0
    <3>1. f \in Frames(t) \/ f.phase = "find" \/ f.key = top.key
      BY <1>4, BuildFrames
    <3> QED BY <2>2, <2>3, <3>1 DEF Singles, Pending
  <2> QED BY <1>1, <2>1, <2>3
<1>5. ASSUME NEW t \in Task, Construct(t) PROVE Singles'
  <2> DEFINE f == Last(stack[t])
  <2>1. /\ stack[t] # <<>> /\ f \in FrameSet /\ f \in Frames(t) /\ f.phase = "init" /\ f.key \in Service
        /\ Give(t, born + 1) /\ born \in Nat /\ given' = given \cup {Given(t, born + 1)}
        /\ singles' = IF Scope[f.key] = "singleton" THEN [singles EXCEPT ![f.key] = born + 1] ELSE singles
    BY <1>5, ConstructLemma
  <2>2. Given(t, born + 1).key = f.key /\ Given(t, born + 1).inst = born + 1
    BY DEF Given
  <2>3. \A u \in Task : u # t => stack'[u] = stack[u]
    BY <2>1, GiveLemma
  <2>4. \A h \in Frames(t)' : \E g \in Frames(t) : h.key = g.key /\ g.key # f.key /\ Pending(g) /\ Holds(g)
    BY <2>1, GiveFrames
  <2>5. CASE Scope[f.key] # "singleton"
    <3>1. UNCHANGED singles
      BY <2>1, <2>5
    <3>2. ASSUME NEW h \in Frames(t)', Scope[h.key] = "singleton" PROVE singles[h.key] = 0
      BY <2>4, <3>2 DEF Singles
    <3> QED BY <1>1, <2>1, <2>2, <2>3, <2>5, <3>1, <3>2
  <2>6. CASE Scope[f.key] = "singleton"
    <3>1. Holds(f) /\ Pending(f) /\ Locking(t)
      BY <2>1, <2>6 DEF Holds, Pending, Locking
    <3>2. /\ singles'[f.key] = born + 1 /\ born + 1 # 0
          /\ \A k \in Service : k # f.key => singles'[k] = singles[k]
      <4> HIDE DEF f
      <4> QED BY <2>1, <2>6 DEF Typed
    <3>3. \A g \in given : g.key \in Service
      BY DEF Typed
    <3>4. \A g \in given : Scope[g.key] = "singleton" => g.key # f.key
      BY <2>1, <2>6, <3>1 DEF Singles
    <3>5. \A g \in given' : Scope[g.key] = "singleton" => g.inst = singles'[g.key] /\ g.inst # 0
      <4> HIDE DEF f
      <4> QED BY <2>1, <2>2, <3>2, <3>3, <3>4 DEF Singles
    <3>6. ASSUME NEW u \in Task, NEW h \in Frames(u)', Scope[h.key] = "singleton", Pending(h)
          PROVE  singles'[h.key] = 0
      <4>1. CASE u = t
        <5>1. PICK g \in Frames(t) : h.key = g.key /\ g.key # f.key /\ Pending(g)
          BY <2>4, <3>6, <4>1
        <5>2. singles[g.key] = 0 /\ g.key \in Service
          BY <1>0, <3>6, <5>1 DEF Singles, FrameSet
        <5> QED BY <3>2, <5>1, <5>2
      <4>2. CASE u # t
        <5>1. h \in Frames(u)
          BY <2>3, <3>6, <4>2, OthersFrames
        <5>2. Holds(h)
          BY <1>0, <3>6, <5>1 DEF Holds, Pending
        <5> QED BY <3>1, <4>2, <5>1, <5>2 DEF Mutex, Locking
      <4> QED BY <4>1, <4>2
    <3> QED BY <3>5, <3>6 DEF Singles, Pending
  <2> QED BY <2>5, <2>6
<1>6. ASSUME NEW t \in Task, NEW s \in Service, Get(t, s) PROVE Singles'
  <2>1. /\ Frames(t)' = {Frame(s, var[t])} /\ UNCHANGED <<singles, given>>
        /\ \A u \in Task : u # t => stack'[u] = stack[u]
    BY <1>6, GetLemma DEF Get, tables
  <2>2. ~Pending(Frame(s, var[t]))
    BY DEF Pending, Frame
  <2> QED BY <1>1, <2>1, <2>2
<1>7. ASSUME NEW t \in Task, NEW s \in Service, UpdateScopedContext(t, s) PROVE Singles'
  <2>1. given' \subseteq given /\ UNCHANGED <<singles, stack>>
    BY <1>7, UpdateLemma
  <2> QED BY <2>1 DEF Singles, Frames, Pending
<1> QED BY <1>2, <1>3, <1>4, <1>5, <1>6, <1>7, QuietLemma

-----------------------------------------------------------------------------
(***************************************************************************)
(* What a context keeps: instances no other context has, and no other      *)
(* request was given.                                                      *)
(***************************************************************************)
Requested(s) == Scope[s] = "request"

Kept ==
  /\ \A c \in 1 .. Len(contexts), s \in Service : contexts[c][s] <= born
  /\ \A g \in given : Requested(g.key) => g.inst \in 1 .. born
  /\ \A g \in given, c \in 1 .. Len(contexts) :
       Requested(g.key) /\ contexts[c][g.key] = g.inst => g.ctx = c
  /\ \A c, d \in 1 .. Len(contexts), s \in Service :
       Requested(s) /\ contexts[c][s] = contexts[d][s] /\ contexts[c][s] # 0 => c = d

\* Two uses of a context are of one request.
LEMMA UseLemma ==
  ASSUME Typed, Owned
  PROVE  /\ \A g \in given : /\ g.request \in Request /\ g.key \in Service /\ g.inst \in Nat
                             /\ g.ctx \in 0 .. Len(contexts)
         /\ \A g, h \in given : g.ctx = h.ctx /\ g.ctx # 0 => g.request = h.request
         /\ \A g \in given, t \in Task : \A f \in Frames(t) :
              g.ctx = f.ctx /\ g.ctx # 0 => g.request = t[1]
         /\ \A t, u \in Task : \A f \in Frames(u) :
              /\ f.ctx = var[t] /\ f.ctx # 0 => u[1] = t[1]
              /\ \A h \in Frames(t) : f.ctx = h.ctx /\ f.ctx # 0 => u[1] = t[1]
<1>1. \A g \in given : /\ g.request \in Request /\ g.key \in Service /\ g.inst \in Nat
                       /\ g.ctx \in Nat /\ InUse(g.ctx, g.request)
  BY DEF Typed, InUse
<1>2. \A t \in Task : t[1] \in Request /\ var[t] \in Nat /\ InUse(var[t], t[1])
  BY TaskLemma DEF Typed, InUse
<1>3. \A t \in Task : \A f \in Frames(t) : f.ctx \in Nat /\ InUse(f.ctx, t[1])
  BY ContextExists DEF InUse, FrameSet
<1>4. \A c \in Nat, q, r \in Request : InUse(c, q) /\ InUse(c, r) /\ c # 0 => q = r
  BY DEF Owned
<1>5. \A g \in given : g.ctx \in 0 .. Len(contexts)
  BY <1>1 DEF Owned, Typed
<1>6. \A g, h \in given : g.ctx = h.ctx /\ g.ctx # 0 => g.request = h.request
  BY <1>1, <1>4
<1>7. \A g \in given, t \in Task : \A f \in Frames(t) :
        g.ctx = f.ctx /\ g.ctx # 0 => g.request = t[1]
  BY <1>1, <1>2, <1>3, <1>4
<1>8. \A t, u \in Task : \A f \in Frames(u) :
        /\ f.ctx = var[t] /\ f.ctx # 0 => u[1] = t[1]
        /\ \A h \in Frames(t) : f.ctx = h.ctx /\ f.ctx # 0 => u[1] = t[1]
  BY <1>2, <1>3, <1>4
<1> QED BY <1>1, <1>5, <1>6, <1>7, <1>8

\* An instance that is put into a context is a new one.
LEMMA PutLemma ==
  ASSUME Typed, Owned, Kept, NEW c \in 0 .. Len(contexts), NEW k \in Service, Len(contexts') = Len(contexts),
         born' = born + 1,
         \A d \in 1 .. Len(contexts), s \in Service :
           contexts'[d][s] = IF Requested(s) /\ d = c /\ s = k THEN born + 1 ELSE contexts[d][s],
         \A g \in given' :
           \/ g \in given
           \/ g.key = k /\ g.ctx = c /\ g.inst = born + 1
  PROVE  Kept'
<1>0. born \in Nat /\ \A d \in 1 .. Len(contexts), s \in Service : contexts[d][s] \in Nat
  BY DEF Typed
<1>1. \A d \in 1 .. Len(contexts'), s \in Service : contexts'[d][s] <= born'
  BY <1>0 DEF Kept
<1>2. \A g \in given' : Requested(g.key) => g.inst \in 1 .. born'
  BY <1>0 DEF Kept
<1>3. ASSUME NEW g \in given', NEW d \in 1 .. Len(contexts'), Requested(g.key), contexts'[d][g.key] = g.inst
      PROVE  g.ctx = d
  <2>1. CASE g \in given
    <3>1. g.key \in Service /\ g.inst \in 1 .. born
      BY <1>3, <2>1, UseLemma DEF Kept
    <3>2. contexts[d][g.key] = g.inst
      BY <1>0, <1>3, <3>1
    <3> QED BY <1>3, <2>1, <3>2 DEF Kept
  <2>2. CASE g.key = k /\ g.ctx = c /\ g.inst = born + 1
    <3>1. contexts[d][k] <= born
      BY <1>3 DEF Kept
    <3> QED BY <1>0, <1>3, <2>2, <3>1
  <2> QED BY <1>3, <2>1, <2>2
<1>4. ASSUME NEW d \in 1 .. Len(contexts'), NEW e \in 1 .. Len(contexts'), NEW s \in Service, Requested(s),
             contexts'[d][s] = contexts'[e][s], contexts'[d][s] # 0
      PROVE  d = e
  <2>1. contexts[d][s] <= born /\ contexts[e][s] <= born /\ contexts[d][s] \in Nat /\ contexts[e][s] \in Nat
    BY <1>0, <1>4 DEF Kept
  <2> QED BY <1>0, <1>4, <2>1 DEF Kept
<1> QED BY <1>1, <1>2, <1>3, <1>4 DEF Kept, Requested

LEMMA KeptNext ==
  Typed /\ Owned /\ Stacked /\ Kept /\ ContextsApart /\ [Next]_vars => Kept' /\ ContextsApart'
<1> SUFFICES ASSUME Typed, Owned, Stacked, Kept, ContextsApart, [Next]_vars
             PROVE  Kept' /\ ContextsApart'
  OBVIOUS
<1>0. born \in Nat /\ Len(contexts) \in Nat
      /\ \A d \in 1 .. Len(contexts), s \in Service : contexts[d][s] \in Nat
  BY DEF Typed
<1>1. CASE Quiet
  <2>1. ContextsApart'
    BY <1>1 DEF Quiet, ContextsApart
  <2>2. CASE UNCHANGED contexts
    BY <1>1, <2>1, <2>2 DEF Quiet, Kept
  <2>3. CASE contexts' = Append(contexts, Empty)
    <3>1. /\ Len(contexts') = Len(contexts) + 1
          /\ \A d \in 1 .. Len(contexts), s \in Service : contexts'[d][s] = contexts[d][s]
          /\ \A s \in Service : contexts'[Len(contexts) + 1][s] = 0
      BY <2>3, NewLemma
    <3>2. \A d \in 1 .. Len(contexts') : d \in 1 .. Len(contexts) \/ d = Len(contexts) + 1
      BY <1>0, <3>1
    <3>3. UNCHANGED <<born, given>>
      BY <1>1 DEF Quiet
    <3>4. \A d \in 1 .. Len(contexts'), s \in Service : contexts'[d][s] <= born'
      BY <1>0, <3>1, <3>2, <3>3 DEF Kept
    <3>5. \A g \in given' : Requested(g.key) => g.inst \in 1 .. born'
      BY <3>3 DEF Kept
    <3>6. \A g \in given', d \in 1 .. Len(contexts') :
            Requested(g.key) /\ contexts'[d][g.key] = g.inst => g.ctx = d
      BY <1>0, <3>1, <3>2, <3>3, UseLemma DEF Kept
    <3>7. \A d, e \in 1 .. Len(contexts'), s \in Service :
            Requested(s) /\ contexts'[d][s] = contexts'[e][s] /\ contexts'[d][s] # 0 => d = e
      BY <3>1, <3>2 DEF Kept
    <3> QED BY <2>1, <3>4, <3>5, <3>6, <3>7 DEF Kept, Requested
  <2> QED BY <1>1, <2>2, <2>3 DEF Quiet
<1>2. ASSUME NEW t \in Task, Find(t) PROVE Kept' /\ ContextsApart'
  <2> DEFINE f == Last(stack[t])
             n == Given(t, Stored(f))
  <2>1. /\ f \in Frames(t) /\ f.key \in Service /\ f.ctx \in 0 .. Len(contexts)
        /\ Stored(f) # 0 /\ given' = given \cup {n} /\ UNCHANGED <<contexts, born>>
    BY <1>2, FindLemma DEF FrameSet
  <2>2. n.request = t[1] /\ n.ctx = f.ctx /\ n.key = f.key /\ n.inst = Stored(f)
    BY DEF Given
  <2>3. Requested(f.key) =>
          f.ctx \in 1 .. Len(contexts) /\ n.inst = contexts[f.ctx][f.key] /\ n.inst # 0
    BY <1>0, <2>1, <2>2 DEF Requested, Stored
  <2> HIDE DEF f, n
  <2>4. Kept'
    <3>1. Requested(n.key) => n.inst \in 1 .. born
      BY <1>0, <2>1, <2>2, <2>3 DEF Kept
    <3>2. \A c \in 1 .. Len(contexts) : Requested(n.key) /\ contexts[c][n.key] = n.inst => n.ctx = c
      BY <2>1, <2>2, <2>3 DEF Kept
    <3> QED BY <2>1, <3>1, <3>2 DEF Kept, Requested
  <2>5. ASSUME NEW h \in given, Requested(f.key), h.key = f.key, h.inst = n.inst
        PROVE  h.request = n.request /\ h.ctx = n.ctx
    <3>1. h.ctx = f.ctx /\ f.ctx # 0
      BY <2>3, <2>5 DEF Kept
    <3> QED BY <2>1, <2>2, <3>1, UseLemma
  <2>6. ContextsApart'
    BY <2>1, <2>2, <2>5 DEF ContextsApart, Requested
  <2> QED BY <2>4, <2>6
<1>3. ASSUME NEW t \in Task, Construct(t) PROVE Kept' /\ ContextsApart'
  <2> DEFINE f == Last(stack[t])
             n == Given(t, born + 1)
  <2>1. /\ f.key \in Service /\ f.ctx \in 0 .. Len(contexts)
        /\ given' = given \cup {n} /\ born' = born + 1
    BY <1>3, ConstructLemma
  <2>2. n.ctx = f.ctx /\ n.key = f.key /\ n.inst = born + 1
    BY DEF Given
  <2>3. /\ Len(contexts') = Len(contexts)
        /\ \A d \in 1 .. Len(contexts), k \in Service :
             contexts'[d][k] = IF Requested(k) /\ d = f.ctx /\ k = f.key THEN born + 1 ELSE contexts[d][k]
    BY <1>3, ConstructKeeps DEF Requested
  <2> HIDE DEF f, n
  <2>4. Kept'
    BY <2>1, <2>2, <2>3, PutLemma
  <2>5. \A h \in given : Requested(h.key) => h.inst # n.inst
    BY <1>0, <2>2 DEF Kept
  <2>6. ContextsApart'
    BY <2>1, <2>5 DEF ContextsApart, Requested
  <2> QED BY <2>4, <2>6
<1>4. ASSUME NEW t \in Task, NEW s \in Service, UpdateScopedContext(t, s) PROVE Kept' /\ ContextsApart'
  <2>1. /\ Requested(s) /\ var[t] \in 0 .. Len(contexts) /\ born' = born + 1
        /\ Len(contexts') = Len(contexts) /\ given' \subseteq given
        /\ \A d \in 1 .. Len(contexts), k \in Service :
             contexts'[d][k] = IF d = var[t] /\ k = s THEN born + 1 ELSE contexts[d][k]
    <3>1. Scope[s] = "request" /\ born' = born + 1 /\ Len(contexts') = Len(contexts)
      BY <1>4, UpdateLemma
    <3>2. given' \subseteq given
      BY <1>4, UpdateLemma
    <3>3. \A d \in 1 .. Len(contexts), k \in Service :
            contexts'[d][k] = IF d = var[t] /\ k = s THEN born + 1 ELSE contexts[d][k]
      BY <1>4, UpdateLemma
    <3> QED BY <3>1, <3>2, <3>3, ContextExists DEF Requested
  <2>2. \A d \in 1 .. Len(contexts), k \in Service :
          contexts'[d][k] = IF Requested(k) /\ d = var[t] /\ k = s THEN born + 1 ELSE contexts[d][k]
    BY <2>1
  <2>3. Kept'
    BY <2>1, <2>2, PutLemma
  <2>4. ContextsApart'
    BY <2>1 DEF ContextsApart
  <2> QED BY <2>3, <2>4
<1>5. ASSUME NEW t \in Task, Build(t) \/ \E s \in Service : Get(t, s) PROVE Kept' /\ ContextsApart'
  <2>1. UNCHANGED <<contexts, born, given>>
    BY <1>5 DEF Build, Get, tables
  <2> QED BY <2>1 DEF Kept, ContextsApart
<1> QED BY <1>1, <1>2, <1>3, <1>4, <1>5, QuietLemma

-----------------------------------------------------------------------------
(***************************************************************************)
(* What the event loop resolves in a context of a request that has no      *)
(* thread.  While one of its tasks is inside a get, no other runs.         *)
(***************************************************************************)
Alone(r) == <<r, "thread">> \notin Task

Sole ==
  /\ \A g \in given :
       Requested(g.key) /\ g.ctx # 0 /\ Alone(g.request) => contexts[g.ctx][g.key] = g.inst
  /\ \A t \in Task : \A f \in Frames(t) :
       Requested(f.key) /\ f.ctx # 0 /\ Alone(t[1]) /\ Pending(f) => contexts[f.ctx][f.key] = 0

\* Two tasks of such a request are not both inside a get.
LEMMA AloneLemma ==
  ASSUME NEW t \in Task, NEW u \in Task, t # u, t[1] = u[1], Alone(t[1]), Runs(t)
  PROVE  stack[u] = <<>>
BY TaskLemma DEF Alone, Runs

\* After a step of t that leaves the contexts to it.
LEMMA SoleLemma ==
  ASSUME Typed, Owned, Sole, NEW t \in Task, UNCHANGED contexts,
         \A u \in Task : u # t => stack'[u] = stack[u],
         \A f \in Frames(t)' : Requested(f.key) /\ f.ctx # 0 /\ Alone(t[1]) /\ Pending(f)
                               => contexts[f.ctx][f.key] = 0,
         \A g \in given' : \/ g \in given
                           \/ Requested(g.key) /\ g.ctx # 0 => contexts[g.ctx][g.key] = g.inst
  PROVE  Sole'
<1>1. \A u \in Task : u # t => Frames(u)' = Frames(u)
  BY OthersFrames
<1>2. \A u \in Task : \A f \in Frames(u)' :
        Requested(f.key) /\ f.ctx # 0 /\ Alone(u[1]) /\ Pending(f) => contexts[f.ctx][f.key] = 0
  BY <1>1 DEF Sole
<1>3. \A g \in given' :
        Requested(g.key) /\ g.ctx # 0 /\ Alone(g.request) => contexts[g.ctx][g.key] = g.inst
  BY DEF Sole
<1> QED BY <1>2, <1>3 DEF Sole, Requested, Alone, Pending

LEMMA SoleNext ==
  Typed /\ Owned /\ Stacked /\ Kept /\ Sole /\ [Next]_vars => Sole'
<1> SUFFICES ASSUME Typed, Owned, Stacked, Kept, Sole, [Next]_vars PROVE Sole'
  OBVIOUS
<1>0. /\ born \in Nat
      /\ \A t \in Task : \A f \in Frames(t) : f.key \in Service /\ f.ctx \in 0 .. Len(contexts)
  BY ContextExists DEF Typed, FrameSet
<1>1. CASE Quiet
  <2>1. \A c \in 1 .. Len(contexts) : contexts'[c] = contexts[c]
    BY <1>1, NewLemma DEF Quiet
  <2>2. UNCHANGED given /\ \A t \in Task : Frames(t)' = Frames(t)
    BY <1>1, OthersFrames DEF Quiet
  <2>3. \A g \in given : g.ctx \in 0 .. Len(contexts)
    BY UseLemma
  <2>4. \A g \in given' :
          Requested(g.key) /\ g.ctx # 0 /\ Alone(g.request) => contexts'[g.ctx][g.key] = g.inst
    BY <2>1, <2>2, <2>3 DEF Sole
  <2>5. \A t \in Task : \A f \in Frames(t)' :
          Requested(f.key) /\ f.ctx # 0 /\ Alone(t[1]) /\ Pending(f) => contexts'[f.ctx][f.key] = 0
    BY <1>0, <2>1, <2>2 DEF Sole
  <2> QED BY <2>4, <2>5 DEF Sole, Requested, Alone, Pending
<1>2. ASSUME NEW t \in Task, Find(t) PROVE Sole'
  <2> DEFINE f == Last(stack[t])
             n == Given(t, Stored(f))
  <2>1. /\ stack[t] # <<>> /\ Give(t, Stored(f)) /\ given' = given \cup {n} /\ UNCHANGED contexts
    BY <1>2, FindLemma
  <2>2. Requested(n.key) /\ n.ctx # 0 => contexts[n.ctx][n.key] = n.inst
    BY DEF Given, Stored, Requested
  <2>3. \A u \in Task : u # t => stack'[u] = stack[u]
    BY <2>1, GiveLemma
  <2>4. \A h \in Frames(t)' : \E g \in Frames(t) : h.key = g.key /\ h.ctx = g.ctx /\ Pending(g)
    BY <2>1, GiveFrames
  <2>5. \A h \in Frames(t)' : Requested(h.key) /\ h.ctx # 0 /\ Alone(t[1]) /\ Pending(h)
                              => contexts[h.ctx][h.key] = 0
    BY <2>4 DEF Sole
  <2> HIDE DEF n
  <2> QED BY <2>1, <2>2, <2>3, <2>5, SoleLemma
<1>3. ASSUME NEW t \in Task, Build(t) PROVE Sole'
  <2> DEFINE top == Last(stack[t])
  <2>1. UNCHANGED <<contexts, given>> /\ \A u \in Task : u # t => stack'[u] = stack[u]
    BY <1>3, BuildLemma DEF Build, tables
  <2>2. Requested(top.key) /\ top.ctx # 0 => contexts[top.ctx][top.key] = 0
    BY <1>3 DEF Build, Stored, Requested
  <2>3. ASSUME NEW h \in Frames(t)', Requested(h.key), h.ctx # 0, Alone(t[1]), Pending(h)
        PROVE  contexts[h.ctx][h.key] = 0
    <3>1. h \in Frames(t) \/ h.phase = "find" \/ (h.key = top.key /\ h.ctx = top.ctx)
      BY <1>3, BuildFrames
    <3> QED BY <2>2, <2>3, <3>1 DEF Sole, Pending
  <2> QED BY <2>1, <2>3, SoleLemma
<1>4. ASSUME NEW t \in Task, NEW s \in Service, Get(t, s) PROVE Sole'
  <2>1. /\ UNCHANGED <<contexts, given>> /\ Frames(t)' = {Frame(s, var[t])}
        /\ \A u \in Task : u # t => stack'[u] = stack[u]
    BY <1>4, GetLemma DEF Get, tables
  <2>2. ~Pending(Frame(s, var[t]))
    BY DEF Pending, Frame
  <2> QED BY <2>1, <2>2, SoleLemma
<1>5. ASSUME NEW t \in Task, Construct(t) PROVE Sole'
  <2> DEFINE f == Last(stack[t])
             n == Given(t, born + 1)
  <2>1. /\ stack[t] # <<>> /\ f \in Frames(t) /\ f.phase = "init" /\ Give(t, born + 1)
        /\ given' = given \cup {n}
    BY <1>5, ConstructLemma
  <2>2. n.request = t[1] /\ n.ctx = f.ctx /\ n.key = f.key /\ n.inst = born + 1
    BY DEF Given
  <2>3. \A d \in 1 .. Len(contexts), k \in Service :
          contexts'[d][k] = IF Requested(k) /\ d = f.ctx /\ k = f.key THEN born + 1 ELSE contexts[d][k]
    BY <1>5, ConstructKeeps DEF Requested
  <2>4. \A u \in Task : u # t => stack'[u] = stack[u]
    BY <2>1, GiveLemma
  <2>5. \A h \in Frames(t)' :
          \E g \in Frames(t) : h.key = g.key /\ h.ctx = g.ctx /\ g.key # f.key /\ Pending(g)
    BY <2>1, GiveFrames
  <2>6. Requested(f.key) /\ f.ctx # 0 /\ Alone(t[1]) => contexts[f.ctx][f.key] = 0
    BY <2>1 DEF Sole, Pending
  <2>7. f.key \in Service /\ f.ctx \in 0 .. Len(contexts)
    BY <1>0, <2>1
  <2>8. Runs(t)
    BY <1>5 DEF Construct
  <2> HIDE DEF f, n
  <2>9. ASSUME NEW g \in given', Requested(g.key), g.ctx # 0, Alone(g.request)
        PROVE  contexts'[g.ctx][g.key] = g.inst
    <3>1. CASE g = n
      BY <2>2, <2>3, <2>7, <2>9, <3>1
    <3>2. CASE g \in given
      <4>1. contexts[g.ctx][g.key] = g.inst /\ g.inst # 0
        BY <1>0, <2>9, <3>2 DEF Sole, Kept
      <4>2. g.ctx \in 1 .. Len(contexts) /\ g.key \in Service
        BY <2>9, <3>2, UseLemma
      <4>3. ~(g.ctx = f.ctx /\ g.key = f.key)
        BY <2>1, <2>6, <2>9, <3>2, <4>1, UseLemma
      <4> QED BY <2>3, <4>1, <4>2, <4>3
    <3> QED BY <2>1, <2>9, <3>1, <3>2
  <2>10. ASSUME NEW u \in Task, NEW h \in Frames(u)', Requested(h.key), h.ctx # 0, Alone(u[1]), Pending(h)
         PROVE  contexts'[h.ctx][h.key] = 0
    <3>1. CASE u = t
      <4>1. PICK g \in Frames(t) : h.key = g.key /\ h.ctx = g.ctx /\ g.key # f.key /\ Pending(g)
        BY <2>5, <2>10, <3>1
      <4>2. contexts[g.ctx][g.key] = 0
        BY <2>10, <3>1, <4>1 DEF Sole
      <4> QED BY <1>0, <2>3, <2>10, <4>1, <4>2
    <3>2. CASE u # t
      <4>1. h \in Frames(u) /\ Frames(u) # {}
        BY <2>4, <2>10, <3>2, OthersFrames
      <4>2. stack[u] # <<>>
        BY <4>1 DEF Frames
      <4>3. ~(h.ctx = f.ctx /\ h.ctx # 0)
        BY <2>1, <2>8, <2>10, <3>2, <4>1, <4>2, UseLemma, AloneLemma
      <4>4. contexts[h.ctx][h.key] = 0
        BY <2>10, <4>1 DEF Sole
      <4> QED BY <1>0, <2>3, <2>10, <4>1, <4>3, <4>4
    <3> QED BY <3>1, <3>2
  <2> QED BY <2>9, <2>10 DEF Sole, Requested, Alone, Pending
<1>6. ASSUME NEW t \in Task, NEW s \in Service, UpdateScopedContext(t, s) PROVE Sole'
  <2>1. Idle(t) /\ UNCHANGED stack
    BY <1>6, UpdateLemma
  <2>4. \A d \in 1 .. Len(contexts), k \in Service :
          contexts'[d][k] = IF d = var[t] /\ k = s THEN born + 1 ELSE contexts[d][k]
    BY <1>6, UpdateLemma
  <2>2. ASSUME NEW g \in given', Requested(g.key), g.ctx # 0, Alone(g.request)
        PROVE  contexts'[g.ctx][g.key] = g.inst
    <3>1. g \in given /\ ~(g.ctx = var[t] /\ g.key = s)
      BY <1>6, UpdateLemma
    <3>2. g.ctx \in 1 .. Len(contexts) /\ g.key \in Service
      BY <2>2, <3>1, UseLemma
    <3> QED BY <2>2, <2>4, <3>1, <3>2 DEF Sole
  <2>3. ASSUME NEW u \in Task, NEW h \in Frames(u)', Requested(h.key), h.ctx # 0, Alone(u[1]), Pending(h)
        PROVE  contexts'[h.ctx][h.key] = 0
    <3>1. h \in Frames(u) /\ stack[u] # <<>>
      BY <2>1, <2>3 DEF Frames
    <3>2. h.ctx # var[t]
      <4>1. Runs(t) /\ stack[t] = <<>>
        BY <2>1 DEF Idle
      <4> QED BY <2>3, <3>1, <4>1, UseLemma, AloneLemma
    <3>3. contexts[h.ctx][h.key] = 0
      BY <2>3, <3>1 DEF Sole
    <3> QED BY <1>0, <2>3, <2>4, <3>1, <3>2, <3>3
  <2> QED BY <2>2, <2>3 DEF Sole, Requested, Alone, Pending
<1> QED BY <1>1, <1>2, <1>3, <1>4, <1>5, <1>6, QuietLemma

-----------------------------------------------------------------------------
(***************************************************************************)
(* The inductive invariant, and what it says of every request.             *)
(***************************************************************************)
ScopeInv == Typed /\ Owned /\ Stacked /\ Mutex /\ Singles /\ Kept /\ ContextsApart /\ Sole

LEMMA ScopeInit == Init => ScopeInv
<1> SUFFICES ASSUME Init PROVE ScopeInv
  OBVIOUS
<1>1. Typed /\ Owned
  BY TypedInit
<1>2. /\ given = {} /\ contexts = <<>> /\ Len(contexts) = 0
      /\ \A t \in Task : stack[t] = <<>> /\ Len(stack[t]) = 0
  BY DEF Init
<1>3. \A t \in Task : Frames(t) = {}
  BY <1>2 DEF Frames
<1>4. Stacked /\ Mutex /\ Singles
  BY <1>2, <1>3 DEF Stacked, Ordered, Mutex, Locking, Singles
<1>5. Kept /\ ContextsApart /\ Sole
  BY <1>2, <1>3 DEF Kept, ContextsApart, Sole
<1> QED BY <1>1, <1>4, <1>5 DEF ScopeInv

LEMMA ScopeNext == ScopeInv /\ [Next]_vars => ScopeInv'
BY TypedNext, OwnedNext, StackedNext, MutexNext, SinglesNext, KeptNext, SoleNext DEF ScopeInv

LEMMA ScopeInvariant == Spec => []ScopeInv
BY ScopeInit, ScopeNext, PTL DEF Spec

\* A singleton is one object for all requests, tasks and threads
\* (SingletonScope.get under the lock of the injector library).
THEOREM OneObject == Spec => []OneSingleton
<1>1. ScopeInv => OneSingleton
  BY DEF ScopeInv, Singles, OneSingleton
<1> QED BY <1>1, ScopeInvariant, PTL

\* An object of a request-scoped service is of one request and one context
\* (RequestScope.get), also when the application replaces it.
THEOREM RequestsApart == Spec => []ContextsApart
<1>1. ScopeInv => ContextsApart
  BY DEF ScopeInv
<1> QED BY <1>1, ScopeInvariant, PTL

\* The event loop gets one object of a request-scoped service in one context.
THEOREM OnePerRequest == Spec => []OnePerContext
<1>1. ScopeInv => OnePerContext
  <2> SUFFICES ASSUME ScopeInv, NEW g \in given, NEW h \in given, Scope[g.key] = "request",
                      h.key = g.key, h.ctx = g.ctx, g.ctx # 0, <<g.request, "thread">> \notin Task
               PROVE  h.inst = g.inst
    BY DEF OnePerContext
  <2>1. Requested(g.key) /\ Alone(g.request) /\ h.request = g.request
    BY UseLemma DEF ScopeInv, Requested, Alone
  <2> QED BY <2>1 DEF ScopeInv, Sole
<1> QED BY <1>1, ScopeInvariant, PTL
=============================================================================
