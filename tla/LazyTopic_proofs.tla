-------------------------- MODULE LazyTopic_proofs --------------------------
(***************************************************************************)
(* For any number of threads and handles: the references the lazy caches   *)
(* hand out stay valid, what is published has one lineage, and the slots   *)
(* implement write-once cells; and in the composition of MCProgress, the   *)
(* warmers do what they have to do once.                                   *)
(***************************************************************************)
EXTENDS MCProgress, Integers, TLAPS

(* The call graph has no cycle: every call is for a slot of smaller rank.  *)
Rank(k) == IF k[2] = "link_targets" THEN 4
           ELSE IF k[2] = "rendered" THEN 3
           ELSE IF k[2] = "lowering" THEN 2
           ELSE IF k[2] = "loaded" THEN 1
           ELSE 0

(* A slot holds an object made for it. *)
SlotsOwn == \A k \in Slots : slot[k] # None => slot[k] \in Threads \X {k}

(* What is published was computed from something published before it. *)
InputsFirst == \A k \in Slots :
                  slot[k] # None /\ Uses(k) # None => slot[Uses(k)] # None

(* What one frame f of thread t knows of its slot. *)
FrameOK(t, f) ==
  /\ f.got # None => /\ Uses(f.slot) # None
                     /\ f.got = slot[Uses(f.slot)]
  /\ f.at \in {"compute", "exchange"} => slot[f.slot] # <<t, f.slot>>
  /\ f.at \in {"before", "load"} => f.got = None
  /\ f.at = "exchange" => /\ from[<<t, f.slot>>] = f.got
                          /\ Uses(f.slot) # None => f.got # None
  /\ f.at = "before" => Before(f.slot) # None

(* A frame g that waits for the frame f above it. *)
Waits(f, g) == \/ g.at = "load"
               \/ g.at = "compute" /\ g.got = None /\ f.slot = Uses(g.slot)

(* Calls s, innermost first: each waits for the one above it. *)
Linked(s) ==
  /\ \A i \in 1..Len(s) : i + 1 \in 1..Len(s) => Waits(s[i], s[i+1])
  /\ \A i, j \in 1..Len(s) : i < j => Rank(s[i].slot) < Rank(s[j].slot)

StackOK(t) == /\ Linked(stack[t])
              /\ \A i \in 1..Len(stack[t]) : FrameOK(t, stack[t][i])

IInv == /\ TypeOK
        /\ SlotsOwn
        /\ RefsLive
        /\ OneLineage
        /\ InputsFirst
        /\ \A t \in Threads : StackOK(t)

-----------------------------------------------------------------------------
LEMMA UsesSlot ==
  ASSUME NEW k \in Slots, Uses(k) # None
  PROVE  Uses(k) \in Slots /\ Rank(Uses(k)) < Rank(k)
BY DEF Uses, Slots, HandleKinds, BookKinds, Rank

LEMMA BeforeSlot ==
  ASSUME NEW k \in Slots, Before(k) # None
  PROVE  Before(k) \in Slots /\ Rank(Before(k)) < Rank(k)
BY DEF Before, Slots, HandleKinds, BookKinds, Rank

LEMMA CallFrame ==
  ASSUME NEW k \in Slots
  PROVE  /\ Call(k) \in Frames
         /\ Call(k).slot = k
         /\ Call(k).got = None
         /\ \/ Call(k).at = "load"
            \/ Call(k).at = "before" /\ Before(k) # None
BY DEF Call, Frames, Places

(* A sequence with a new first element. *)
LEMMA Pushed ==
  ASSUME NEW S, NEW s \in Seq(S), NEW f \in S
  PROVE  /\ <<f>> \o s \in Seq(S)
         /\ Len(<<f>> \o s) = Len(s) + 1
         /\ (<<f>> \o s)[1] = f
         /\ \A i \in 1..Len(s) : (<<f>> \o s)[i+1] = s[i]
         /\ \A j \in 1..Len(<<f>> \o s) :
               j = 1 \/ (j - 1 \in 1..Len(s) /\ (<<f>> \o s)[j] = s[j-1])
OBVIOUS

(* A sequence without its first element. *)
LEMMA Popped ==
  ASSUME NEW S, NEW s \in Seq(S), s # <<>>
  PROVE  /\ Tail(s) \in Seq(S)
         /\ Head(s) \in S
         /\ Head(s) = s[1]
         /\ 1 \in 1..Len(s)
         /\ Len(Tail(s)) = Len(s) - 1
         /\ \A i \in 1..Len(Tail(s)) : Tail(s)[i] = s[i+1] /\ i + 1 \in 1..Len(s)
OBVIOUS

LEMMA PushedElements ==
  ASSUME NEW S, NEW s \in Seq(S), NEW f \in S, NEW j \in 1..Len(<<f>> \o s)
  PROVE  (<<f>> \o s)[j] = f \/ \E i \in 1..Len(s) : (<<f>> \o s)[j] = s[i]
<1>1. j = 1 \/ (j - 1 \in 1..Len(s) /\ (<<f>> \o s)[j] = s[j-1])
  BY Pushed
<1>2. (<<f>> \o s)[1] = f
  BY Pushed
<1> QED BY <1>1, <1>2

LEMMA PoppedElements ==
  ASSUME NEW S, NEW s \in Seq(S), s # <<>>, NEW r, r = Tail(s)
  PROVE  \A i \in 1..Len(r) : \E j \in 1..Len(s) : r[i] = s[j]
BY Popped

-----------------------------------------------------------------------------
(* Publication only fills empty slots, and only with an object of the      *)
(* publishing thread; a computation only describes an object of its own.   *)
Grows(t) == \A k \in Slots : slot'[k] = slot[k] \/ (slot[k] = None /\ slot'[k] = <<t, k>>)

LEMMA OthersKeepFrames ==
  ASSUME IInv, NEW t \in Threads, NEW u \in Threads, u # t, Grows(t),
         \A k \in Slots : from'[<<u, k>>] = from[<<u, k>>],
         stack'[u] = stack[u]
  PROVE  StackOK(u)'
<1>1. SUFFICES ASSUME NEW f \in Frames, FrameOK(u, f)
               PROVE  FrameOK(u, f)'
  <2>1. stack[u] \in Seq(Frames)
    BY DEF IInv, TypeOK
  <2>2. \A i \in 1..Len(stack[u]) : stack[u][i] \in Frames
    BY <2>1
  <2>3. StackOK(u)
    BY DEF IInv
  <2> QED BY <2>2, <2>3, <1>1 DEF StackOK
<1>2. f.slot \in Slots
  BY DEF Frames
<1>3. ASSUME f.got # None
      PROVE  Uses(f.slot) # None /\ f.got = slot'[Uses(f.slot)]
  BY <1>1, <1>2, <1>3, UsesSlot DEF FrameOK, Grows
<1>4. ASSUME f.at \in {"compute", "exchange"}
      PROVE  slot'[f.slot] # <<u, f.slot>>
  BY <1>1, <1>2, <1>4 DEF FrameOK, Grows
<1> QED BY <1>1, <1>2, <1>3, <1>4 DEF FrameOK

-----------------------------------------------------------------------------
(* How a stack of calls changes. *)
LEMMA LinkedRetop ==
  ASSUME NEW s \in Seq(Frames), s # <<>>, Linked(s),
         NEW g \in Frames, g.slot = Head(s).slot
  PROVE  Linked(<<g>> \o Tail(s))
<1> DEFINE r == <<g>> \o Tail(s)
<1>1. /\ r \in Seq(Frames) /\ Len(r) = Len(s) /\ r[1] = g
      /\ \A i \in 1..Len(s) : i # 1 => r[i] = s[i]
  BY Popped, Pushed
<1>2. s[1].slot = g.slot /\ 1 \in 1..Len(s)
  BY Popped
<1>3. \A i \in 1..Len(r) : r[i].slot = s[i].slot
  BY <1>1, <1>2
<1>4. \A i \in 1..Len(r) : i + 1 \in 1..Len(r) => Waits(r[i], r[i+1])
  BY <1>1, <1>3 DEF Linked, Waits
<1>5. \A i, j \in 1..Len(r) : i < j => Rank(r[i].slot) < Rank(r[j].slot)
  BY <1>1, <1>3 DEF Linked
<1> QED BY <1>4, <1>5 DEF Linked

LEMMA LinkedPush ==
  ASSUME NEW s \in Seq(Frames), s # <<>>, Linked(s),
         NEW f \in Frames, Waits(f, Head(s)), Rank(f.slot) < Rank(Head(s).slot)
  PROVE  Linked(<<f>> \o s)
<1> DEFINE r == <<f>> \o s
<1>1. /\ r \in Seq(Frames) /\ Len(r) = Len(s) + 1 /\ r[1] = f
      /\ \A j \in 1..Len(r) : j = 1 \/ (j - 1 \in 1..Len(s) /\ r[j] = s[j-1])
  BY Pushed
<1>2. Head(s) = s[1] /\ 1 \in 1..Len(s)
  BY Popped
<1>3. \A i \in 1..Len(s) : Rank(f.slot) < Rank(s[i].slot)
  <2>1. \A i \in 1..Len(s) : Rank(s[i].slot) \in Int
    BY DEF Rank
  <2>2. Rank(f.slot) \in Int
    BY DEF Rank
  <2> QED BY <1>2, <2>1, <2>2 DEF Linked
<1>4. \A i \in 1..Len(r) : i + 1 \in 1..Len(r) => Waits(r[i], r[i+1])
  <2> SUFFICES ASSUME NEW i \in 1..Len(r), i + 1 \in 1..Len(r)
               PROVE  Waits(r[i], r[i+1])
    OBVIOUS
  <2>1. CASE i = 1
    <3>1. r[i] = f /\ r[i+1] = s[1]
      BY <2>1, <1>1
    <3> QED BY <3>1, <1>2
  <2>2. CASE i # 1
    <3>1. i - 1 \in 1..Len(s) /\ r[i] = s[i-1]
      BY <2>2, <1>1
    <3>2. (i - 1) + 1 \in 1..Len(s) /\ r[i+1] = s[(i-1)+1]
      BY <2>2, <1>1
    <3> QED BY <3>1, <3>2 DEF Linked
  <2> QED BY <2>1, <2>2
<1>5. \A i, j \in 1..Len(r) : i < j => Rank(r[i].slot) < Rank(r[j].slot)
  <2> SUFFICES ASSUME NEW i \in 1..Len(r), NEW j \in 1..Len(r), i < j
               PROVE  Rank(r[i].slot) < Rank(r[j].slot)
    OBVIOUS
  <2>1. j - 1 \in 1..Len(s) /\ r[j] = s[j-1]
    BY <1>1
  <2>2. CASE i = 1
    BY <2>1, <2>2, <1>1, <1>3
  <2>3. CASE i # 1
    <3>1. i - 1 \in 1..Len(s) /\ r[i] = s[i-1] /\ i - 1 < j - 1
      BY <2>3, <1>1
    <3> QED BY <2>1, <3>1 DEF Linked
  <2> QED BY <2>2, <2>3
<1> QED BY <1>4, <1>5 DEF Linked

LEMMA LinkedPop ==
  ASSUME NEW s \in Seq(Frames), s # <<>>, Linked(s)
  PROVE  /\ Linked(Tail(s))
         /\ Tail(s) # <<>> => Waits(Head(s), Head(Tail(s)))
         /\ \A i \in 1..Len(Tail(s)) : Tail(s)[i].slot # Head(s).slot
<1>1. /\ Tail(s) \in Seq(Frames) /\ Len(Tail(s)) = Len(s) - 1
      /\ Head(s) = s[1] /\ 1 \in 1..Len(s)
      /\ \A i \in 1..Len(Tail(s)) : Tail(s)[i] = s[i+1] /\ i + 1 \in 1..Len(s)
  BY Popped
<1>2. Linked(Tail(s))
  <2>1. \A i \in 1..Len(Tail(s)) :
           i + 1 \in 1..Len(Tail(s)) => Waits(Tail(s)[i], Tail(s)[i+1])
    BY <1>1 DEF Linked
  <2>2. \A i, j \in 1..Len(Tail(s)) :
           i < j => Rank(Tail(s)[i].slot) < Rank(Tail(s)[j].slot)
    BY <1>1 DEF Linked
  <2> QED BY <2>1, <2>2 DEF Linked
<1>3. ASSUME Tail(s) # <<>>
      PROVE  Waits(Head(s), Head(Tail(s)))
  <2>1. Head(Tail(s)) = s[2] /\ 2 \in 1..Len(s)
    BY <1>1, <1>3
  <2> QED BY <1>1, <2>1 DEF Linked
<1>4. ASSUME NEW i \in 1..Len(Tail(s))
      PROVE  Tail(s)[i].slot # Head(s).slot
  <2>1. Rank(s[1].slot) < Rank(s[i+1].slot)
    BY <1>1, <1>4 DEF Linked
  <2>2. Rank(s[1].slot) \in Int
    BY DEF Rank
  <2> QED BY <1>1, <2>1, <2>2
<1> QED BY <1>2, <1>3, <1>4

-----------------------------------------------------------------------------
(* The outer calls of a thread keep what they know when its innermost call *)
(* touches the slot it is for.                                             *)
LEMMA TailKeeps ==
  ASSUME IInv, NEW t \in Threads, stack[t] # <<>>, Grows(t),
         \A k \in Slots : k # Head(stack[t]).slot =>
            slot'[k] = slot[k] /\ from'[<<t, k>>] = from[<<t, k>>]
  PROVE  \A f \in Frames : (\E i \in 1..Len(Tail(stack[t])) : f = Tail(stack[t])[i])
                               => FrameOK(t, f)'
<1>1. stack[t] \in Seq(Frames) /\ Linked(stack[t])
  BY DEF IInv, TypeOK, StackOK
<1> SUFFICES ASSUME NEW f \in Frames, NEW i \in 1..Len(Tail(stack[t])),
                    f = Tail(stack[t])[i]
             PROVE  FrameOK(t, f)'
  OBVIOUS
<1>2. FrameOK(t, f)
  BY <1>1, Popped DEF IInv, StackOK
<1>3. f.slot # Head(stack[t]).slot
  BY <1>1, LinkedPop
<1>4. f.slot \in Slots
  BY DEF Frames
<1>5. ASSUME f.got # None
      PROVE  Uses(f.slot) # None /\ f.got = slot'[Uses(f.slot)]
  BY <1>2, <1>4, <1>5, UsesSlot DEF FrameOK, Grows
<1> QED BY <1>2, <1>3, <1>4, <1>5 DEF FrameOK

(* The innermost call becomes g, for the same slot. *)
LEMMA RetopOK ==
  ASSUME IInv, NEW t \in Threads, stack[t] # <<>>, Grows(t),
         \A k \in Slots : k # Head(stack[t]).slot =>
            slot'[k] = slot[k] /\ from'[<<t, k>>] = from[<<t, k>>],
         NEW g \in Frames, g.slot = Head(stack[t]).slot, FrameOK(t, g)',
         stack'[t] = <<g>> \o Tail(stack[t])
  PROVE  stack'[t] \in Seq(Frames) /\ StackOK(t)'
<1>1. stack[t] \in Seq(Frames) /\ Linked(stack[t])
  BY DEF IInv, TypeOK, StackOK
<1>2. Tail(stack[t]) \in Seq(Frames)
  BY <1>1, Popped
<1>3. Linked(stack'[t])
  BY <1>1, LinkedRetop
<1>4. /\ stack'[t] \in Seq(Frames)
      /\ \A j \in 1..Len(stack'[t]) :
           \/ stack'[t][j] = g
           \/ \E i \in 1..Len(Tail(stack[t])) : stack'[t][j] = Tail(stack[t])[i]
  <2> DEFINE rest == Tail(stack[t])  now == <<g>> \o rest
  <2>1. rest \in Seq(Frames)
    BY <1>2
  <2> HIDE DEF rest
  <2>2. /\ now \in Seq(Frames)
        /\ \A j \in 1..Len(now) : now[j] = g \/ \E i \in 1..Len(rest) : now[j] = rest[i]
    BY <2>1, Pushed
  <2>3. stack'[t] = now
    BY DEF rest
  <2> QED
    BY ONLY <2>2, <2>3 DEF rest
<1>5. (\A j \in 1..Len(stack[t]) : FrameOK(t, stack[t][j]))'
  <2> SUFFICES ASSUME NEW j \in 1..Len(stack'[t])
               PROVE  FrameOK(t, stack[t][j])'
    OBVIOUS
  <2> DEFINE f == stack'[t][j]
  <2>1. f \in Frames
    BY <1>4
  <2>2. ASSUME NEW h \in Frames, f = h, FrameOK(t, h)'
        PROVE  FrameOK(t, stack[t][j])'
    BY <2>2 DEF FrameOK
  <2>3. CASE f = g
    BY <2>2, <2>3
  <2>4. CASE \E i \in 1..Len(Tail(stack[t])) : f = Tail(stack[t])[i]
    <3>1. PICK h \in Frames : h = f
      BY <2>1
    <3>2. FrameOK(t, h)'
      BY <2>4, <3>1, TailKeeps
    <3> QED BY <2>2, <3>1, <3>2
  <2> QED BY <1>4, <2>3, <2>4
<1>6. Linked(stack[t])'
  BY <1>3 DEF Linked, Waits
<1> QED BY <1>4, <1>5, <1>6 DEF StackOK

(* The innermost call g (the head, or the head moved on) starts a call for *)
(* a slot it needs.                                                        *)
LEMMA PushOK ==
  ASSUME IInv, NEW t \in Threads, stack[t] # <<>>, slot' = slot, from' = from,
         NEW g \in Frames, g.slot = Head(stack[t]).slot, FrameOK(t, g),
         NEW k \in Slots, Waits(Call(k), g), Rank(k) < Rank(g.slot),
         stack'[t] = <<Call(k)>> \o (<<g>> \o Tail(stack[t]))
  PROVE  stack'[t] \in Seq(Frames) /\ StackOK(t)'
<1>1. stack[t] \in Seq(Frames) /\ Linked(stack[t])
  BY DEF IInv, TypeOK, StackOK
<1>2. PICK rest \in Seq(Frames) : rest = Tail(stack[t])
  BY <1>1, Popped
<1> DEFINE r == <<g>> \o rest
<1>3. /\ r \in Seq(Frames) /\ r # <<>> /\ Head(r) = g
      /\ \A j \in 1..Len(r) :
           r[j] = g \/ \E i \in 1..Len(rest) : r[j] = rest[i]
  <2>1. r \in Seq(Frames) /\ r # <<>> /\ Head(r) = g
    BY <1>2, Pushed
  <2>2. \A j \in 1..Len(r) :
           r[j] = g \/ \E i \in 1..Len(rest) : r[j] = rest[i]
    BY PushedElements
  <2> QED BY <2>1, <2>2, Zenon
<1>4. Linked(r)
  BY <1>1, <1>2, LinkedRetop
<1>5. Call(k) \in Frames /\ Call(k).slot = k
  BY CallFrame
<1>6. Linked(<<Call(k)>> \o r)
  BY <1>3, <1>4, <1>5, LinkedPush
<1>7. /\ stack'[t] \in Seq(Frames)
      /\ \A j \in 1..Len(stack'[t]) :
           \/ stack'[t][j] = Call(k)
           \/ stack'[t][j] = g
           \/ \E i \in 1..Len(rest) : stack'[t][j] = rest[i]
  <2>1. /\ <<Call(k)>> \o r \in Seq(Frames)
        /\ stack'[t] = <<Call(k)>> \o r
    BY <1>2, <1>3, <1>5, Pushed
  <2>2. PICK q \in Seq(Frames) : q = r
    BY <1>3
  <2>3. \A j \in 1..Len(<<Call(k)>> \o q) :
           \/ (<<Call(k)>> \o q)[j] = Call(k)
           \/ \E i \in 1..Len(q) : (<<Call(k)>> \o q)[j] = q[i]
    BY <1>5, PushedElements
  <2>4. \A i \in 1..Len(q) : q[i] = g \/ \E m \in 1..Len(rest) : q[i] = rest[m]
    BY <1>3, <2>2
  <2>5. stack'[t] = <<Call(k)>> \o q
    BY <2>1, <2>2
  <2>6. ASSUME NEW j \in 1..Len(<<Call(k)>> \o q)
        PROVE  \/ (<<Call(k)>> \o q)[j] = Call(k)
               \/ (<<Call(k)>> \o q)[j] = g
               \/ \E i \in 1..Len(rest) : (<<Call(k)>> \o q)[j] = rest[i]
    BY <2>3, <2>4, Zenon
  <2> QED BY <2>1, <2>5, <2>6, Zenon
<1>8. (\A j \in 1..Len(stack[t]) : FrameOK(t, stack[t][j]))'
  <2> SUFFICES ASSUME NEW j \in 1..Len(stack'[t])
               PROVE  FrameOK(t, stack[t][j])'
    OBVIOUS
  <2> DEFINE f == stack'[t][j]
  <2>1. f \in Frames
    BY <1>7
  <2>2. ASSUME NEW h \in Frames, f = h, FrameOK(t, h)
        PROVE  FrameOK(t, stack[t][j])'
    BY <2>2 DEF FrameOK
  <2>3. CASE f = Call(k)
    <3>1. FrameOK(t, Call(k))
      BY CallFrame DEF FrameOK
    <3> QED BY <1>5, <2>2, <2>3, <3>1
  <2>4. CASE f = g
    BY <2>2, <2>4
  <2>5. CASE \E i \in 1..Len(rest) : f = rest[i]
    <3>1. FrameOK(t, f)
      <4>1. \E i \in 1..Len(stack[t]) : f = stack[t][i]
        BY <1>1, <1>2, <2>5, PoppedElements
      <4> QED BY <4>1 DEF IInv, StackOK
    <3> QED BY <2>1, <2>2, <3>1
  <2> QED BY <1>7, <2>3, <2>4, <2>5
<1>9. Linked(stack[t])'
  BY <1>2, <1>6 DEF Linked, Waits
<1> QED BY <1>7, <1>8, <1>9 DEF StackOK

(* The innermost call ends with v, what its slot now holds. *)
LEMMA PopOK ==
  ASSUME IInv, NEW t \in Threads, stack[t] # <<>>, Grows(t), from' = from,
         \A k \in Slots : k # Head(stack[t]).slot => slot'[k] = slot[k],
         NEW v \in Values, v = slot'[Head(stack[t]).slot],
         stack'[t] = Outer(t, v)
  PROVE  stack'[t] \in Seq(Frames) /\ StackOK(t)'
<1>1. stack[t] \in Seq(Frames) /\ Linked(stack[t])
  BY DEF IInv, TypeOK, StackOK
<1>2. PICK rest \in Seq(Frames) : rest = Tail(stack[t]) /\ Linked(rest)
  BY <1>1, Popped, LinkedPop
<1>3. \A f \in Frames : (\E i \in 1..Len(rest) : f = rest[i]) => FrameOK(t, f)'
  BY <1>2, TailKeeps
<1>4. CASE ~(rest # <<>> /\ Head(rest).at = "compute")
  <2>1. stack'[t] = rest
    BY <1>2, <1>4 DEF Outer
  <2>2. (\A j \in 1..Len(stack[t]) : FrameOK(t, stack[t][j]))'
    <3> SUFFICES ASSUME NEW j \in 1..Len(stack'[t])
                 PROVE  FrameOK(t, stack[t][j])'
      OBVIOUS
    <3>1. PICK h \in Frames : h = stack'[t][j]
      BY <1>2, <2>1
    <3>2. FrameOK(t, h)'
      BY <1>3, <2>1, <3>1
    <3> QED BY <3>1, <3>2 DEF FrameOK
  <2>3. Linked(stack[t])'
    BY <1>2, <2>1 DEF Linked, Waits
  <2> QED BY <1>2, <2>1, <2>2, <2>3 DEF StackOK
<1>5. CASE rest # <<>> /\ Head(rest).at = "compute"
  <2>1. /\ Head(rest) \in Frames /\ Head(rest) = rest[1] /\ 1 \in 1..Len(rest)
        /\ Tail(rest) \in Seq(Frames)
    BY <1>2, <1>5, Popped
  <2>2. PICK outer \in Seq(Frames) : outer = Tail(rest)
    BY <2>1
  <2>3. \A i \in 1..Len(outer) : \E j \in 1..Len(rest) : outer[i] = rest[j]
    BY <1>5, <2>2, PoppedElements
  <2>4. PICK g \in Frames : g = [Head(rest) EXCEPT !.got = v]
    BY <2>1 DEF Frames
  <2>5. g.slot = Head(rest).slot /\ g.at = "compute" /\ g.got = v
    BY <2>1, <2>4, <1>5 DEF Frames
  <2>6. stack'[t] = <<g>> \o outer
    BY <1>2, <1>5, <2>2, <2>4 DEF Outer
  <2>7. Head(stack[t]).slot = Uses(Head(rest).slot)
    <3>1. Waits(Head(stack[t]), Head(rest))
      BY <1>1, <1>2, <1>5, LinkedPop
    <3> QED BY <3>1, <1>5 DEF Waits
  <2>8. FrameOK(t, g)'
    <3>1. PICK f \in Frames : f = Head(rest)
      BY <2>1
    <3>2. FrameOK(t, f)'
      BY <1>3, <2>1, <3>1
    <3>3. Head(stack[t]).slot \in Slots
      <4>1. Head(stack[t]) \in Frames
        BY <1>1, Popped
      <4> QED BY <4>1 DEF Frames
    <3>4. v # None /\ Uses(g.slot) # None
      BY <3>3, <2>5, <2>7, NoneAssumption
    <3>5. slot'[g.slot] # <<t, g.slot>>
      BY <3>1, <3>2, <2>5, <1>5 DEF FrameOK
    <3> QED BY <2>5, <2>7, <3>4, <3>5 DEF FrameOK
  <2>9. Linked(<<g>> \o outer)
    BY <1>2, <1>5, <2>2, <2>5, LinkedRetop
  <2>10. stack'[t] \in Seq(Frames)
    BY <2>6, Pushed
  <2>11. \A j \in 1..Len(stack'[t]) :
            stack'[t][j] = g \/ \E i \in 1..Len(rest) : stack'[t][j] = rest[i]
    <3>1. \A j \in 1..Len(<<g>> \o outer) :
             (<<g>> \o outer)[j] = g \/ \E i \in 1..Len(outer) : (<<g>> \o outer)[j] = outer[i]
      BY PushedElements
    <3> QED BY <2>3, <2>6, <3>1, Zenon
  <2>12. (\A j \in 1..Len(stack[t]) : FrameOK(t, stack[t][j]))'
    <3> SUFFICES ASSUME NEW j \in 1..Len(stack'[t])
                 PROVE  FrameOK(t, stack[t][j])'
      OBVIOUS
    <3>1. PICK h \in Frames : h = stack'[t][j]
      BY <2>10
    <3>2. FrameOK(t, h)'
      <4>1. CASE h = g
        BY <4>1, <2>8
      <4>2. CASE h # g
        BY <4>2, <1>3, <2>11, <3>1
      <4> QED BY <4>1, <4>2
    <3> QED BY <3>1, <3>2 DEF FrameOK
  <2>13. Linked(stack[t])'
    BY <2>6, <2>9 DEF Linked, Waits
  <2> QED BY <2>10, <2>12, <2>13 DEF StackOK
<1> QED BY <1>4, <1>5

-----------------------------------------------------------------------------
(* A step that leaves slots, objects and references alone and keeps the    *)
(* stack of its thread in order keeps the invariant.                       *)
LEMMA StackStep ==
  ASSUME IInv, NEW t \in Threads, UNCHANGED <<slot, from, refs>>,
         NEW s, stack' = [stack EXCEPT ![t] = s],
         stack'[t] \in Seq(Frames) /\ StackOK(t)'
  PROVE  IInv'
<1>1. stack \in [Threads -> Seq(Frames)] /\ stack'[t] = s
  BY DEF IInv, TypeOK
<1>2. TypeOK'
  BY <1>1 DEF IInv, TypeOK
<1>3. SlotsOwn' /\ RefsLive' /\ OneLineage' /\ InputsFirst'
  BY DEF IInv, SlotsOwn, RefsLive, OneLineage, InputsFirst
<1>4. ASSUME NEW u \in Threads
      PROVE  StackOK(u)'
  <2>1. CASE u = t
    BY <2>1
  <2>2. CASE u # t
    <3>1. stack'[u] = stack[u] /\ Grows(t)
      BY <1>1, <2>2 DEF Grows
    <3> QED BY <2>2, <3>1, OthersKeepFrames
  <2> QED BY <2>1, <2>2
<1> QED BY <1>2, <1>3, <1>4 DEF IInv

(* The innermost frame. *)
LEMMA Innermost ==
  ASSUME IInv, NEW t \in Threads, stack[t] # <<>>
  PROVE  /\ stack[t] \in Seq(Frames)
         /\ Head(stack[t]) \in Frames
         /\ Head(stack[t]).slot \in Slots
         /\ FrameOK(t, Head(stack[t]))
<1>1. stack[t] \in Seq(Frames)
  BY DEF IInv, TypeOK
<1>2. Head(stack[t]) \in Frames /\ Head(stack[t]) = stack[t][1] /\ 1 \in 1..Len(stack[t])
  BY <1>1, Popped
<1>3. FrameOK(t, Head(stack[t]))
  BY <1>2 DEF IInv, StackOK
<1> QED BY <1>1, <1>2, <1>3 DEF Frames

LEMMA EnterKeeps == ASSUME IInv, NEW t \in Threads, Enter(t) PROVE IInv'
<1>1. PICK k \in Asked : stack' = [stack EXCEPT ![t] = <<Call(k)>>]
  BY DEF Enter
<1>2. k \in Slots
  BY AskedAssumption
<1>3. Call(k) \in Frames /\ FrameOK(t, Call(k))
  BY <1>2, CallFrame DEF FrameOK
<1>4. stack'[t] = <<Call(k)>>
  BY <1>1 DEF IInv, TypeOK
<1>5. stack'[t] \in Seq(Frames)
  BY <1>3, <1>4
<1>6. StackOK(t)'
  <2>1. Linked(stack[t])'
    BY <1>4 DEF Linked
  <2>2. PICK h \in Frames : h = Call(k)
    BY <1>3
  <2>3. FrameOK(t, h)'
    BY <1>3, <2>2 DEF FrameOK, Enter
  <2>4. (\A i \in 1..Len(stack[t]) : FrameOK(t, stack[t][i]))'
    <3> SUFFICES ASSUME NEW i \in 1..Len(stack'[t])
                 PROVE  FrameOK(t, stack[t][i])'
      OBVIOUS
    <3>1. stack'[t][i] = h
      BY <1>4, <2>2
    <3> QED BY <2>3, <3>1 DEF FrameOK
  <2> QED BY <2>1, <2>4 DEF StackOK
<1> QED BY <1>1, <1>5, <1>6, StackStep DEF Enter

LEMMA CallBeforeKeeps == ASSUME IInv, NEW t \in Threads, CallBefore(t) PROVE IInv'
<1> DEFINE top == Head(stack[t])
<1>1. stack[t] # <<>> /\ top.at = "before"
  BY DEF CallBefore, Running
<1>2. top \in Frames /\ top.slot \in Slots /\ FrameOK(t, top)
  BY <1>1, Innermost
<1>3. PICK g \in Frames : g = [top EXCEPT !.at = "load"]
  BY <1>2 DEF Frames, Places
<1>4. g.slot = top.slot /\ g.at = "load" /\ g.got = top.got
  BY <1>2, <1>3 DEF Frames
<1>5. PICK k \in Slots : k = Before(top.slot) /\ Rank(k) < Rank(top.slot)
  BY <1>1, <1>2, BeforeSlot DEF FrameOK
<1>6. FrameOK(t, g)
  BY <1>1, <1>2, <1>4 DEF FrameOK
<1>7. stack'[t] = <<Call(k)>> \o (<<g>> \o Tail(stack[t]))
  BY <1>3, <1>5 DEF CallBefore, MovedTo, IInv, TypeOK
<1>8. Waits(Call(k), g)
  BY <1>4 DEF Waits
<1>9. stack'[t] \in Seq(Frames) /\ StackOK(t)'
  BY <1>1, <1>4, <1>5, <1>6, <1>7, <1>8, PushOK DEF CallBefore
<1> QED BY <1>9, StackStep DEF CallBefore

LEMMA ComputeNeedsKeeps == ASSUME IInv, NEW t \in Threads, ComputeNeeds(t) PROVE IInv'
<1> DEFINE top == Head(stack[t])
<1>1. stack[t] # <<>> /\ top.at = "compute" /\ top.got = None /\ Uses(top.slot) # None
  BY DEF ComputeNeeds, Running
<1>2. stack[t] \in Seq(Frames) /\ top \in Frames /\ top.slot \in Slots /\ FrameOK(t, top)
  BY <1>1, Innermost
<1>3. PICK k \in Slots : k = Uses(top.slot) /\ Rank(k) < Rank(top.slot)
  BY <1>1, <1>2, UsesSlot
<1>4. stack'[t] = <<Call(k)>> \o stack[t] /\ stack[t] = <<top>> \o Tail(stack[t])
  BY <1>1, <1>2, <1>3 DEF ComputeNeeds, IInv, TypeOK
<1>5. Waits(Call(k), top)
  BY <1>1, <1>3, CallFrame DEF Waits
<1>6. stack'[t] \in Seq(Frames) /\ StackOK(t)'
  <2>1. PICK g \in Frames : g = top
    BY <1>2
  <2> QED BY <1>1, <1>2, <1>3, <1>4, <1>5, <2>1, PushOK DEF ComputeNeeds
<1> QED BY <1>6, StackStep DEF ComputeNeeds

LEMMA LoadEmptyKeeps == ASSUME IInv, NEW t \in Threads, LoadEmpty(t) PROVE IInv'
<1> DEFINE top == Head(stack[t])
<1>1. stack[t] # <<>> /\ top.at = "load" /\ slot[top.slot] = None
  BY DEF LoadEmpty, Running
<1>2. top \in Frames /\ top.slot \in Slots /\ FrameOK(t, top)
  BY <1>1, Innermost
<1>3. PICK g \in Frames : g = [top EXCEPT !.at = "compute"]
  BY <1>2 DEF Frames, Places
<1>4. g.slot = top.slot /\ g.at = "compute" /\ g.got = None
  BY <1>1, <1>2, <1>3 DEF Frames, FrameOK
<1>5. <<t, g.slot>> # None
  BY <1>2, <1>4, NoneAssumption DEF Values
<1>6. FrameOK(t, g)'
  BY <1>1, <1>4, <1>5 DEF FrameOK, LoadEmpty
<1>7. stack'[t] = <<g>> \o Tail(stack[t])
  BY <1>3 DEF LoadEmpty, MovedTo, IInv, TypeOK
<1>8. Grows(t)
  BY DEF Grows, LoadEmpty
<1>9. stack'[t] \in Seq(Frames) /\ StackOK(t)'
  BY <1>1, <1>4, <1>6, <1>7, <1>8, RetopOK DEF LoadEmpty
<1> QED BY <1>9, StackStep DEF LoadEmpty

LEMMA ComputeThrowsKeeps == ASSUME IInv, NEW t \in Threads, ComputeThrows(t) PROVE IInv'
<1>1. stack' = [stack EXCEPT ![t] = <<>>] /\ stack'[t] = <<>>
  BY DEF ComputeThrows, IInv, TypeOK
<1>2. StackOK(t)'
  BY <1>1 DEF StackOK, Linked
<1>3. stack'[t] \in Seq(Frames)
  <2>1. <<>> \in Seq(Frames)
    OBVIOUS
  <2> QED BY <1>1, <2>1, Zenon
<1>4. PICK s : s = <<>> /\ stack' = [stack EXCEPT ![t] = s]
  BY <1>1
<1>5. UNCHANGED <<slot, from, refs>>
  BY DEF ComputeThrows
<1> QED BY <1>2, <1>3, <1>4, <1>5, StackStep

LEMMA ComputeDoneKeeps == ASSUME IInv, NEW t \in Threads, ComputeDone(t) PROVE IInv'
<1> DEFINE top == Head(stack[t])
<1>1. stack[t] # <<>> /\ top.at = "compute" /\ (Uses(top.slot) # None => top.got # None)
  BY DEF ComputeDone, Running
<1>2. top \in Frames /\ top.slot \in Slots /\ FrameOK(t, top)
  BY <1>1, Innermost
<1>3. PICK k \in Slots : k = top.slot
  BY <1>2
<1>4. <<t, k>> \in Values /\ slot[k] # <<t, k>>
  BY <1>1, <1>2, <1>3 DEF Values, FrameOK
<1>5. /\ from' = [from EXCEPT ![<<t, k>>] = top.got]
      /\ slot' = slot /\ refs' = refs
  BY <1>3 DEF ComputeDone
<1>6. PICK g \in Frames : g = [top EXCEPT !.at = "exchange"]
  BY <1>2 DEF Frames, Places
<1>7. g.slot = k /\ g.at = "exchange" /\ g.got = top.got /\ g.got \in Values \cup {None}
  BY <1>2, <1>3, <1>6 DEF Frames
<1>8. stack' = [stack EXCEPT ![t] = <<g>> \o Tail(stack[t])]
  BY <1>6 DEF ComputeDone, MovedTo
<1>9. from'[<<t, k>>] = g.got /\ \A v \in Values : v # <<t, k>> => from'[v] = from[v]
  BY <1>4, <1>5, <1>7 DEF IInv, TypeOK
<1>10. Grows(t)
  BY <1>5 DEF Grows
<1>11. FrameOK(t, g)'
  BY <1>1, <1>2, <1>3, <1>5, <1>7, <1>9 DEF FrameOK
<1>12. stack'[t] = <<g>> \o Tail(stack[t]) /\ \A u \in Threads : u # t => stack'[u] = stack[u]
  BY <1>8 DEF IInv, TypeOK
<1>13. \A j \in Slots : j # Head(stack[t]).slot =>
          slot'[j] = slot[j] /\ from'[<<t, j>>] = from[<<t, j>>]
  BY <1>3, <1>5, <1>9 DEF Values
<1>14. stack'[t] \in Seq(Frames) /\ StackOK(t)'
  BY <1>1, <1>3, <1>7, <1>10, <1>11, <1>12, <1>13, RetopOK
<1>15. ASSUME NEW u \in Threads, u # t
       PROVE  StackOK(u)'
  <2>1. \A j \in Slots : from'[<<u, j>>] = from[<<u, j>>]
    BY <1>9, <1>15 DEF Values
  <2> QED BY <1>10, <1>12, <1>15, <2>1, OthersKeepFrames
<1>16. TypeOK'
  BY <1>4, <1>5, <1>7, <1>8, <1>12, <1>14 DEF IInv, TypeOK
<1>17. OneLineage'
  <2> SUFFICES ASSUME NEW j \in Slots, slot[j] # None, Uses(j) # None
               PROVE  from'[slot[j]] = slot[Uses(j)]
    BY <1>5 DEF OneLineage
  <2>1. slot[j] \in Values /\ slot[j] # <<t, k>>
    BY <1>4 DEF IInv, SlotsOwn, Values
  <2> QED BY <2>1, <1>9 DEF IInv, OneLineage
<1>18. SlotsOwn' /\ RefsLive' /\ InputsFirst'
  BY <1>5 DEF IInv, SlotsOwn, RefsLive, InputsFirst
<1> QED BY <1>14, <1>15, <1>16, <1>17, <1>18 DEF IInv

(* A call that ends, with the object v the slot k of the call now holds:   *)
(* an empty slot has been filled with the thread's own v, or left alone.   *)
LEMMA ReturnKeeps ==
  ASSUME IInv, NEW t \in Threads, stack[t] # <<>>,
         NEW k \in Slots, k = Head(stack[t]).slot,
         NEW v \in Values, slot' = [slot EXCEPT ![k] = v], from' = from, Return(t, v),
         \/ slot[k] = v
         \/ slot[k] = None /\ v = <<t, k>> /\ Head(stack[t]).at = "exchange"
  PROVE  IInv'
<1>1. slot'[k] = v /\ \A j \in Slots : j # k => slot'[j] = slot[j]
  BY DEF IInv, TypeOK
<1>2. Grows(t)
  BY <1>1 DEF Grows
<1>3. /\ stack'[t] = Outer(t, v) /\ (\A u \in Threads : u # t => stack'[u] = stack[u])
      /\ refs'[t] = refs[t] \cup {v} /\ (\A u \in Threads : u # t => refs'[u] = refs[u])
  BY DEF Return, IInv, TypeOK
<1>4. stack'[t] \in Seq(Frames) /\ StackOK(t)'
  BY <1>1, <1>2, <1>3, PopOK
<1>5. ASSUME NEW u \in Threads, u # t
      PROVE  StackOK(u)'
  BY <1>2, <1>3, <1>5, OthersKeepFrames
<1>6. TypeOK'
  BY <1>3, <1>4 DEF IInv, TypeOK, Return
<1>7. v \in Threads \X {k} /\ v # None
  BY NoneAssumption DEF IInv, SlotsOwn
<1>8. SlotsOwn'
  BY <1>1, <1>7 DEF IInv, SlotsOwn
<1>9. RefsLive'
  <2> SUFFICES ASSUME NEW u \in Threads, NEW w \in refs'[u]
               PROVE  slot'[w[2]] = w
    BY DEF RefsLive
  <2>1. CASE w = v
    BY <2>1, <1>1, <1>7
  <2>2. CASE w # v
    <3>1. w \in refs[u] /\ w \in Values
      BY <2>2, <1>3 DEF IInv, TypeOK
    <3>2. slot[w[2]] = w /\ w[2] \in Slots /\ w # None
      BY <3>1, NoneAssumption DEF IInv, RefsLive, Values
    <3> QED BY <3>2, <1>1
  <2> QED BY <2>1, <2>2
<1>10. OneLineage' /\ InputsFirst'
  <2> SUFFICES ASSUME NEW j \in Slots, slot'[j] # None, Uses(j) # None
               PROVE  from[slot'[j]] = slot'[Uses(j)] /\ slot'[Uses(j)] # None
    BY DEF OneLineage, InputsFirst
  <2>1. Uses(j) \in Slots /\ Uses(j) # j
    <3>1. Rank(j) \in Int
      BY DEF Rank
    <3> QED BY <3>1, UsesSlot
  <2>2. CASE slot'[j] = slot[j]
    <3>1. from[slot[j]] = slot[Uses(j)]
      BY <2>2 DEF IInv, OneLineage
    <3>2. slot[Uses(j)] # None
      BY <2>2 DEF IInv, InputsFirst
    <3> QED BY <2>1, <2>2, <3>1, <3>2, <1>2 DEF Grows
  <2>3. CASE slot'[j] # slot[j]
    <3>1. j = k /\ slot'[j] = <<t, k>> /\ slot[k] = None /\ Head(stack[t]).at = "exchange"
      BY <2>3, <1>1
    <3>2. /\ from[<<t, k>>] = Head(stack[t]).got /\ Head(stack[t]).got # None
          /\ Head(stack[t]).got = slot[Uses(k)]
      BY <3>1, Innermost DEF FrameOK
    <3> QED BY <2>1, <3>1, <3>2, <1>1
  <2> QED BY <2>2, <2>3
<1> QED BY <1>4, <1>5, <1>6, <1>8, <1>9, <1>10 DEF IInv

LEMMA LoadFilledKeeps == ASSUME IInv, NEW t \in Threads, LoadFilled(t) PROVE IInv'
<1>1. stack[t] # <<>>
  BY DEF LoadFilled, Running
<1>2. PICK k \in Slots : k = Head(stack[t]).slot
  BY <1>1, Innermost
<1>3. PICK v \in Values : v = slot[k]
  BY <1>2 DEF LoadFilled, IInv, TypeOK
<1>4. Return(t, v) /\ slot' = [slot EXCEPT ![k] = v] /\ from' = from
  BY <1>2, <1>3 DEF LoadFilled, IInv, TypeOK
<1> QED BY <1>1, <1>2, <1>3, <1>4, ReturnKeeps

LEMMA ExchangeKeeps == ASSUME IInv, NEW t \in Threads, Exchange(t) PROVE IInv'
<1>1. stack[t] # <<>> /\ Head(stack[t]).at = "exchange"
  BY DEF Exchange, Running
<1>2. PICK k \in Slots : k = Head(stack[t]).slot
  BY <1>1, Innermost
<1>3. PICK v \in Values : v = IF slot[k] = None THEN <<t, k>> ELSE slot[k]
  <2>1. <<t, k>> \in Values
    BY DEF Values
  <2>2. slot[k] \in Values \cup {None}
    BY DEF IInv, TypeOK
  <2> QED BY <2>1, <2>2
<1>4. slot' = [slot EXCEPT ![k] = v] /\ from' = from
  BY <1>2, <1>3 DEF Exchange
<1>5. Return(t, v)
  <2>1. slot'[k] = v
    BY <1>4 DEF IInv, TypeOK
  <2> QED BY <1>2, <2>1 DEF Exchange
<1> QED BY <1>1, <1>2, <1>3, <1>4, <1>5, ReturnKeeps

-----------------------------------------------------------------------------
LEMMA InitIInv == Init => IInv
<1> SUFFICES ASSUME Init PROVE IInv
  OBVIOUS
<1>1. TypeOK
  BY DEF Init, TypeOK
<1>2. SlotsOwn /\ RefsLive /\ OneLineage /\ InputsFirst
  BY DEF Init, SlotsOwn, RefsLive, OneLineage, InputsFirst
<1>3. ASSUME NEW t \in Threads
      PROVE  StackOK(t)
  <2>1. Len(stack[t]) = 0
    BY DEF Init
  <2> QED BY <2>1 DEF StackOK, Linked
<1> QED BY <1>1, <1>2, <1>3 DEF IInv

LEMMA NextIInv == IInv /\ [Next]_vars => IInv'
<1> SUFFICES ASSUME IInv, [Next]_vars PROVE IInv'
  OBVIOUS
<1>1. ASSUME NEW t \in Threads, Enter(t) PROVE IInv'
  BY <1>1, EnterKeeps
<1>2. ASSUME NEW t \in Threads, Step(t) PROVE IInv'
  <2>1. CASE CallBefore(t)    BY <2>1, CallBeforeKeeps
  <2>2. CASE LoadFilled(t)    BY <2>2, LoadFilledKeeps
  <2>3. CASE LoadEmpty(t)     BY <2>3, LoadEmptyKeeps
  <2>4. CASE ComputeNeeds(t)  BY <2>4, ComputeNeedsKeeps
  <2>5. CASE ComputeDone(t)   BY <2>5, ComputeDoneKeeps
  <2>6. CASE ComputeThrows(t) BY <2>6, ComputeThrowsKeeps
  <2>7. CASE Exchange(t)      BY <2>7, ExchangeKeeps
  <2> QED BY <1>2, <2>1, <2>2, <2>3, <2>4, <2>5, <2>6, <2>7 DEF Step
<1>3. CASE UNCHANGED vars
  BY <1>3 DEF vars, IInv, TypeOK, SlotsOwn, RefsLive, OneLineage, InputsFirst,
              StackOK, Linked, Waits, FrameOK
<1> QED BY <1>1, <1>2, <1>3 DEF Next

(* The inductive invariant: besides the three checked invariants it says   *)
(* what each frame of each stack knows, and that calls nest by rank.       *)
THEOREM Invariance == Spec => []IInv
BY InitIInv, NextIInv, PTL DEF Spec

(* Type correctness. *)
THEOREM Typed == Spec => []TypeOK
<1>1. IInv => TypeOK
  BY DEF IInv
<1> QED BY <1>1, Invariance, PTL

(* Whatever the number of threads and handles, a reference handed out is   *)
(* to the object its slot holds: publish_once returns the published one.   *)
THEOREM ReferencesStayLive == Spec => []RefsLive
<1>1. IInv => RefsLive
  BY DEF IInv
<1> QED BY <1>1, Invariance, PTL

(* Whatever the number of threads and handles, what is published comes     *)
(* from the one lowering and the one source decode that are published.     *)
THEOREM PublishedLineage == Spec => []OneLineage
<1>1. IInv => OneLineage
  BY DEF IInv
<1> QED BY <1>1, Invariance, PTL

-----------------------------------------------------------------------------
(* A step of the lazy caches is a step of write-once cells, or changes     *)
(* nothing they see.                                                       *)
LEMMA StepRefines == IInv /\ [Next]_vars => [Cells!Next]_(Cells!vars)
<1> SUFFICES ASSUME IInv, [Next]_vars
             PROVE  Cells!Next \/ UNCHANGED <<slot, refs>>
  BY DEF Cells!vars
<1>1. CASE UNCHANGED vars
  BY <1>1 DEF vars
<1>2. ASSUME NEW t \in Threads, LoadFilled(t)
      PROVE  Cells!Next
  <2>1. PICK k \in Slots : k = Head(stack[t]).slot
    BY <1>2, Innermost DEF LoadFilled, Running
  <2>2. Cells!Take(t, k)
    BY <1>2, <2>1 DEF LoadFilled, Return, Cells!Take
  <2> QED BY <2>2 DEF Cells!Next
<1>3. ASSUME NEW t \in Threads, Exchange(t)
      PROVE  Cells!Next
  <2>1. PICK k \in Slots : k = Head(stack[t]).slot
    BY <1>3, Innermost DEF Exchange, Running
  <2>2. CASE slot[k] = None
    <3>1. <<t, k>> \in Values
      BY DEF Values
    <3>2. slot' = [slot EXCEPT ![k] = <<t, k>>] /\ slot'[k] = <<t, k>>
      BY <1>3, <2>1, <2>2 DEF Exchange, IInv, TypeOK
    <3>3. Cells!Fill(t, k, <<t, k>>)
      BY <1>3, <2>1, <2>2, <3>2 DEF Exchange, Return, Cells!Fill
    <3> QED BY <3>1, <3>3 DEF Cells!Next
  <2>3. CASE slot[k] # None
    <3>1. slot' = slot
      BY <1>3, <2>1, <2>3 DEF Exchange, IInv, TypeOK
    <3>2. Cells!Take(t, k)
      BY <1>3, <2>1, <2>3, <3>1 DEF Exchange, Return, Cells!Take
    <3> QED BY <3>2 DEF Cells!Next
  <2> QED BY <2>2, <2>3
<1>4. ASSUME NEW t \in Threads,
             Enter(t) \/ CallBefore(t) \/ LoadEmpty(t) \/ ComputeNeeds(t)
               \/ ComputeDone(t) \/ ComputeThrows(t)
      PROVE  UNCHANGED <<slot, refs>>
  BY <1>4 DEF Enter, CallBefore, LoadEmpty, ComputeNeeds, ComputeDone, ComputeThrows
<1> QED BY <1>1, <1>2, <1>3, <1>4 DEF Next, Step

(* The lazy caches keep the promise of atomic_cache.hpp: no slot is ever   *)
(* refilled or emptied, and every call takes what its slot holds.          *)
THEOREM ImplementsOnceCells == Spec => OnceCells
<1>1. Init => Cells!Init
  BY DEF Init, Cells!Init
<1> QED BY <1>1, StepRefines, Invariance, PTL DEF Spec, OnceCells, Cells!Spec
-----------------------------------------------------------------------------
(* The warmers that MCProgress runs beside the readers: two children that  *)
(* walk two trees of one directory each.  IndexWarming_proofs is about any *)
(* children and trees, so it is about these.                               *)
V == INSTANCE IndexWarming_proofs WITH Children <- {c1, c2}, Roots <- <<"top", "other">>,
       Dirs <- {"top", "other"}, Sub <- [d \in {"top", "other"} |-> {}], Plain <- {},
       Enabled <- {"top"}, MaxVisited <- 3, MaxDepth <- 1, Faults <- {"stop"}

LEMMA TreesAreTrees ==
  V!TreeAssumption /\ V!LimitsAssumption /\ V!WarmingFaults /\ V!NobodyAssumption
<1>1. V!TreeAssumption
  BY DEF V!TreeAssumption
<1>2. V!LimitsAssumption /\ V!NobodyAssumption
  BY WalkersAssumption DEF V!LimitsAssumption, V!NobodyAssumption
<1>3. V!WarmingFaults
  BY DEF V!WarmingFaults
<1> QED
  BY <1>1, <1>2, <1>3

(* Whichever part a behaviour runs, the warmers do as their own            *)
(* specification says.                                                     *)
LEMMA WarmersAsSpecified == MCSpec => V!Spec
<1>1. MCInit => V!Init
  BY DEF MCInit, V!Init, W!Init, V!NoWalk, W!NoWalk, V!Unmarked, W!Unmarked
<1>2. [MCNext]_all => [V!Next]_(V!vars)
  <2>1. W!Next <=> V!Next
    BY DEF W!Next, V!Next, W!Reload, V!Reload, W!Vanish, V!Vanish, W!Start, V!Start, W!Stop, V!Stop,
       W!Crash, V!Crash, W!Run, V!Run, W!Alive, V!Alive, W!TaskStarts, V!TaskStarts,
       W!RunReturns, V!RunReturns, W!RootSkipped, V!RootSkipped, W!AlreadyWalked,
       V!AlreadyWalked, W!NotYetWalked, V!NotYetWalked, W!Elected, V!Elected, W!Contended,
       V!Contended, W!NotNeeded, V!NotNeeded, W!WalkStarts, V!WalkStarts, W!Visit, V!Visit,
       W!WarmShelf, V!WarmShelf, W!Throws, V!Throws, W!ReadEntry, V!ReadEntry,
       W!TooManyEntries, V!TooManyEntries, W!ListEnds, V!ListEnds, W!WalkEnds, V!WalkEnds,
       W!WalkStopped, V!WalkStopped, W!Mark, V!Mark, W!NoMark, V!NoMark, W!MarkerEqual,
       V!MarkerEqual, W!MarkerDiffers, V!MarkerDiffers, W!ScopeEndsOpen, V!ScopeEndsOpen,
       W!ScopeEnds, V!ScopeEnds, W!TaskEnds, V!TaskEnds, W!ThreadEnds, V!ThreadEnds,
       W!Running, V!Running, W!At, V!At, W!Goto, V!Goto, W!Root, V!Root, W!Fault, V!Fault,
       W!Full, V!Full, W!Directory, V!Directory, W!Status,
       V!Status, W!NoWalk, V!NoWalk, W!Unmarked, V!Unmarked,
       W!server, V!server, W!files, V!files, W!vars, V!vars, W!Generations, V!Generations
  <2> QED
    BY <2>1 DEF MCNext, all, Topics, Warmers, Index, warming, V!vars, V!server, V!files
<1> QED
  BY <1>1, <1>2, PTL DEF MCSpec, V!Spec

(* index_warming.cpp:185: the marker is looked at again under the lock, so *)
(* no child walks a tree that the other has walked for their generation.   *)
THEOREM NobodyRepeats == MCSpec => []NoRepeat
<1>1. V!Spec => [](V!Fault("store") \/ V!NoRepeat)
  BY TreesAreTrees, V!NeverRepeats
<1>2. ~V!Fault("store")
  BY DEF V!Fault
<1>3. V!NoRepeat => NoRepeat
  BY DEF V!NoRepeat, NoRepeat, W!NoRepeat, V!Root, W!Root
<1> QED
  BY <1>1, <1>2, <1>3, WarmersAsSpecified, PTL
=============================================================================
