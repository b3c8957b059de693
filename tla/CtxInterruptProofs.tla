------------------------- MODULE CtxInterruptProofs -------------------------
(***************************************************************************)
(* What runWithCtxInterrupt promises, for any number of calls, connections *)
(* and contexts, and any nesting.                                          *)
(***************************************************************************)
EXTENDS CtxInterrupt, TLAPS

\* database/sql runs one driver call at a time on a connection.
Serial ==
  \A c, o \in Call : On[c] = On[o] /\ Active(c) /\ Active(o) => c = o

\* Only a call in flight has frames; only the outermost frame has channels,
\* so only that one waits.
Frames ==
  /\ \A c \in Call : Active(c) <=> depth[c] > 0
  /\ \A c \in Call : Active(c) => done[<<c, 1>>] # "nil"
  /\ \A f \in Frame : f[2] > 1 => done[f] = "nil"
  /\ \A c \in Call : phase[c] = "wait" => depth[c] = 1

\* A goroutine has not closed its bgDoneCh yet, and belongs to the outermost
\* frame of a call that is in flight or has panicked.
Scope ==
  \A f \in Frame : gpc[f] # "none" =>
    /\ bgDone[f] = "open"
    /\ f[2] = 1
    /\ Active(f[1]) \/ phase[f[1]] = "panicked"

\* A goroutine is past its first select only if the context is cancelled.
Asked == \A f \in Frame : gpc[f] \in Looping => Canceled(f[1])

\* Only a call that may panic does.
Misuse == \A c \in Call : phase[c] = "panicked" => c \in Panicking

IInv == /\ TypeOK /\ Serial /\ Frames /\ Scope /\ Asked /\ Misuse
        /\ StrayOnlyAfterPanic

-----------------------------------------------------------------------------
\* The initial states are typed and satisfy the invariant.
LEMMA InitIInv == Init => IInv
  BY CallAssumption, BoundAssumption
  DEF Init, IInv, TypeOK, Serial, Frames, Scope, Asked, Misuse,
      StrayOnlyAfterPanic, Active, InCall, Looping, Chan, Frame, Level

\* Opening a frame keeps the types and touches only that frame.
LEMMA OpenFrameEffect ==
  ASSUME TypeOK, NEW c \in Call, depth[c] < MaxDepth, OpenFrame(c)
  PROVE  /\ depth' \in [Call -> 0..MaxDepth]
         /\ done' \in [Frame -> Chan] /\ bgDone' \in [Frame -> Chan]
         /\ gpc' \in [Frame -> Looping \cup {"none", "select"}]
<1> DEFINE f == <<c, depth[c] + 1>>
<1>1. depth[c] + 1 \in 0..MaxDepth /\ f \in Frame
  BY BoundAssumption DEF TypeOK, Frame, Level
<1>2. depth' \in [Call -> 0..MaxDepth]
  BY <1>1 DEF OpenFrame, TypeOK
<1>3. CASE Marked(c)
  BY <1>2, <1>3 DEF OpenFrame, TypeOK
<1>4. CASE ~Marked(c)
  <2> HIDE DEF f
  <2>1. /\ done' = [done EXCEPT ![f] = "open"]
        /\ bgDone' = [bgDone EXCEPT ![f] = "open"]
        /\ gpc' = [gpc EXCEPT ![f] = "select"]
    BY <1>4 DEF OpenFrame, f
  <2> QED
    BY <2>1, <1>1, <1>2 DEF TypeOK, Chan
<1> QED
  BY <1>3, <1>4

\* A call that waits for its connection has no frame open.
LEMMA ReadyHasNoFrame ==
  ASSUME TypeOK, Frames, NEW c \in Call, phase[c] = "ready"
  PROVE  depth[c] = 0
  BY DEF TypeOK, Frames, Active, InCall

\* Every step keeps the variables in their types.
LEMMA TypeStep == TypeOK /\ Frames /\ [Next]_vars => TypeOK'
<1> SUFFICES ASSUME TypeOK, Frames, [Next]_vars PROVE TypeOK'
  OBVIOUS
<1>1. CASE UNCHANGED vars
  BY <1>1 DEF vars, TypeOK
<1>2. ASSUME NEW x \in Ctx, Cancel(x) PROVE TypeOK'
  BY <1>2 DEF Cancel, caller, TypeOK
<1>3. ASSUME NEW c \in Call, Start(c) PROVE TypeOK'
  <2>1. depth[c] = 0 /\ depth[c] < MaxDepth
    BY <1>3, ReadyHasNoFrame, BoundAssumption DEF Start
  <2>2. phase' \in [Call -> InCall \cup {"ready", "returned", "refused", "panicked"}]
    BY <1>3 DEF Start, TypeOK, InCall
  <2>3. CASE Canceled(c)
    BY <1>3, <2>2, <2>3 DEF Start, TypeOK
  <2>4. CASE ~Canceled(c)
    <3>1. OpenFrame(c) /\ UNCHANGED <<cancelled, err, left, interrupted>>
      BY <1>3, <2>4 DEF Start
    <3> QED
      BY <3>1, <2>1, <2>2, OpenFrameEffect DEF TypeOK
  <2> QED
    BY <2>3, <2>4
<1>4. ASSUME NEW c \in Call, Enter(c) PROVE TypeOK'
  <2>1. left' \in [Call -> 0..MaxWork] /\ depth[c] < MaxDepth
    BY <1>4, BoundAssumption DEF Enter, TypeOK
  <2>2. CASE Canceled(c)
    BY <1>4, <2>1, <2>2 DEF Enter, TypeOK
  <2>3. CASE ~Canceled(c)
    <3>1. OpenFrame(c) /\ UNCHANGED <<cancelled, err, phase, interrupted>>
      BY <1>4, <2>3 DEF Enter
    <3> QED
      BY <3>1, <2>1, OpenFrameEffect DEF TypeOK
  <2> QED
    BY <2>2, <2>3
<1>5. ASSUME NEW c \in Call, Arm(c) PROVE TypeOK'
  <2>1. left' \in [Call -> 0..MaxWork]
    BY <1>5, BoundAssumption DEF Arm, TypeOK
  <2> QED
    BY <1>5, <2>1 DEF Arm, TypeOK, InCall, Canceled
<1>6. ASSUME NEW c \in Call, BeginNative(c) PROVE TypeOK'
  BY <1>6 DEF BeginNative, TypeOK, InCall
<1>7. ASSUME NEW c \in Call, EndNative(c) \/ AbortNative(c) PROVE TypeOK'
  BY <1>7 DEF EndNative, AbortNative, TypeOK, InCall
<1>8. ASSUME NEW c \in Call, Return(c) PROVE TypeOK'
  <2>1. depth[c] \in 1..MaxDepth /\ Top(c) \in Frame
    BY <1>8, BoundAssumption
    DEF Return, TypeOK, Frames, Active, InCall, Top, Frame, Level
  <2>2. CASE done[Top(c)] = "nil"
    BY <1>8, <2>1, <2>2, BoundAssumption
    DEF Return, CloseFrame, TypeOK, InCall
  <2>3. CASE done[Top(c)] # "nil"
    BY <1>8, <2>1, <2>3 DEF Return, TypeOK, InCall, Chan
  <2> QED
    BY <2>2, <2>3
<1>9. ASSUME NEW c \in Call, Join(c) PROVE TypeOK'
  <2>1. depth[c] \in 1..MaxDepth
    BY <1>9, BoundAssumption DEF Join, TypeOK, Frames, Active, InCall
  <2>2. /\ phase' = [phase EXCEPT ![c] = IF depth[c] = 1 THEN "returned" ELSE "fn"]
        /\ depth' = [depth EXCEPT ![c] = @ - 1]
    BY <1>9 DEF Join, CloseFrame
  <2>3. /\ phase' \in [Call -> InCall \cup {"ready", "returned", "refused", "panicked"}]
        /\ depth' \in [Call -> 0..MaxDepth]
    BY <2>1, <2>2, BoundAssumption DEF TypeOK, InCall
  <2>4. /\ done' = [done EXCEPT ![Top(c)] = "nil"]
        /\ bgDone' = [bgDone EXCEPT ![Top(c)] = "nil"]
        /\ UNCHANGED <<cancelled, err, left, gpc, interrupted>>
    BY <1>9 DEF Join
  <2> QED
    BY <2>3, <2>4 DEF TypeOK, Chan
<1>10. ASSUME NEW c \in Call, Panic(c) PROVE TypeOK'
  BY <1>10, BoundAssumption DEF Panic, TypeOK
<1>11. ASSUME NEW f \in Frame, Routine(f) PROVE TypeOK'
  BY <1>11 DEF Routine, SelectCanceled, CtxDone, SelectDone, LoopDone, LoopDefault,
               Interrupt, Wake, Exit, Goto, caller, TypeOK, Looping, Chan
<1> QED
  BY <1>1, <1>2, <1>3, <1>4, <1>5, <1>6, <1>7, <1>8, <1>9, <1>10, <1>11
  DEF Next, CallerStep, Quiescent

-----------------------------------------------------------------------------
\* Each step keeps the other parts of the invariant, one lemma for each part.

\* Frames and channels stay as described.
LEMMA FramesStep == TypeOK /\ Frames /\ [Next]_vars => Frames'
<1> SUFFICES ASSUME TypeOK, Frames, [Next]_vars PROVE Frames'
  OBVIOUS
<1> USE BoundAssumption DEF Frames
<1>1. CASE UNCHANGED vars
  BY <1>1 DEF vars, Active
<1>2. ASSUME NEW x \in Ctx, Cancel(x) PROVE Frames'
  BY <1>2 DEF Cancel, caller, Active
<1>3. ASSUME NEW c \in Call, Start(c) PROVE Frames'
  <2>1. depth[c] = 0
    BY <1>3, ReadyHasNoFrame DEF Start
  <2>2. CASE Canceled(c)
    BY <1>3, <2>1, <2>2 DEF Start, TypeOK, Active, InCall
  <2>3. CASE ~Canceled(c)
    <3>1. /\ phase' = [phase EXCEPT ![c] = "fn"]
          /\ depth' = [depth EXCEPT ![c] = 1]
          /\ done' = [done EXCEPT ![<<c, 1>>] = "open"]
      BY <1>3, <2>1, <2>3 DEF Start, OpenFrame, Marked
    <3> QED
      BY <3>1 DEF TypeOK, Active, InCall, Frame, Level
  <2> QED
    BY <2>2, <2>3
<1>4. ASSUME NEW c \in Call, Enter(c) PROVE Frames'
  <2>1. phase[c] = "fn" /\ depth[c] > 0
    BY <1>4 DEF Enter, Active, InCall
  <2>2. UNCHANGED <<phase, done>>
    BY <1>4, <2>1 DEF Enter, OpenFrame, Marked
  <2>3. depth' = depth \/ depth' = [depth EXCEPT ![c] = @ + 1]
    BY <1>4 DEF Enter, OpenFrame
  <2> QED
    BY <2>1, <2>2, <2>3 DEF TypeOK, Active, InCall
<1>5. ASSUME NEW c \in Call,
             Arm(c) \/ BeginNative(c) \/ EndNative(c) \/ AbortNative(c)
      PROVE  Frames'
  BY <1>5 DEF Arm, BeginNative, EndNative, AbortNative, TypeOK, Active, InCall
<1>6. ASSUME NEW c \in Call, Return(c) PROVE Frames'
  <2>1. phase[c] = "fn" /\ depth[c] \in 1..MaxDepth /\ Top(c) \in Frame
    BY <1>6 DEF Return, TypeOK, Active, InCall, Top, Frame, Level
  <2>2. CASE done[Top(c)] = "nil"
    <3>1. depth[c] # 1
      BY <2>1, <2>2 DEF Top, Active, InCall
    <3>2. /\ phase' = [phase EXCEPT ![c] = "fn"]
          /\ depth' = [depth EXCEPT ![c] = @ - 1]
          /\ done' = done
      BY <1>6, <2>2, <3>1 DEF Return, CloseFrame
    <3> QED
      BY <2>1, <3>1, <3>2 DEF TypeOK, Active, InCall
  <2>3. CASE done[Top(c)] # "nil"
    <3>1. depth[c] = 1
      BY <2>1, <2>3 DEF Top
    <3>2. /\ phase' = [phase EXCEPT ![c] = "wait"]
          /\ depth' = depth
          /\ done' = [done EXCEPT ![<<c, 1>>] = "closed"]
      BY <1>6, <2>3, <3>1 DEF Return, Top
    <3> QED
      BY <2>1, <3>1, <3>2 DEF TypeOK, Active, InCall, Frame, Level
  <2> QED
    BY <2>2, <2>3
<1>7. ASSUME NEW c \in Call, Join(c) PROVE Frames'
  <2>1. depth[c] = 1
    BY <1>7 DEF Join
  <2>2. /\ phase' = [phase EXCEPT ![c] = "returned"]
        /\ depth' = [depth EXCEPT ![c] = 0]
        /\ done' = [done EXCEPT ![<<c, 1>>] = "nil"]
    BY <1>7, <2>1 DEF Join, CloseFrame, Top
  <2> QED
    BY <2>2 DEF TypeOK, Active, InCall, Frame, Level
<1>8. ASSUME NEW c \in Call, Panic(c) PROVE Frames'
  BY <1>8 DEF Panic, TypeOK, Active, InCall
<1>9. ASSUME NEW f \in Frame, Routine(f) PROVE Frames'
  <2>1. UNCHANGED <<phase, depth, done>>
    BY <1>9 DEF Routine, SelectCanceled, CtxDone, SelectDone, LoopDone, LoopDefault,
                Interrupt, Wake, Exit, Goto, caller
  <2> QED
    BY <2>1 DEF Active
<1> QED
  BY <1>1, <1>2, <1>3, <1>4, <1>5, <1>6, <1>7, <1>8, <1>9
  DEF Next, CallerStep, Quiescent

\* Calls become active only by Start, which needs an idle connection.
LEMMA SerialStep == TypeOK /\ Frames /\ Serial /\ [Next]_vars => Serial'
<1> SUFFICES ASSUME TypeOK, Frames, Serial, [Next]_vars PROVE Serial'
  OBVIOUS
<1> DEFINE NoneStarts == \A c \in Call : Active(c)' => Active(c)
<1>1. CASE UNCHANGED vars
  BY <1>1 DEF vars, Serial, Active
<1>2. ASSUME NEW c \in Call, Start(c) PROVE Serial'
  <2>1. \A o \in Call : Active(o)' => Active(o) \/ o = c
    BY <1>2 DEF Start, TypeOK, Active
  <2>2. \A o \in Call : On[o] = On[c] => ~Active(o)
    BY <1>2 DEF Start
  <2> QED
    BY <2>1, <2>2 DEF Serial
<1>3. ASSUME NEW c \in Call,
             Enter(c) \/ Arm(c) \/ BeginNative(c) \/ EndNative(c)
               \/ AbortNative(c) \/ Return(c) \/ Join(c) \/ Panic(c)
      PROVE  NoneStarts
  BY <1>3 DEF Enter, Arm, BeginNative, EndNative, AbortNative, Return, Join,
              Panic, CloseFrame, TypeOK, Active, InCall
<1>4. ASSUME NEW x \in Ctx, Cancel(x) PROVE NoneStarts
  BY <1>4 DEF Cancel, caller, Active
<1>5. ASSUME NEW f \in Frame, Routine(f) PROVE NoneStarts
  BY <1>5 DEF Routine, SelectCanceled, CtxDone, SelectDone, LoopDone, LoopDefault,
              Interrupt, Wake, Exit, Goto, caller, Active
<1>6. NoneStarts => Serial'
  BY DEF Serial
<1> QED
  BY <1>1, <1>2, <1>3, <1>4, <1>5, <1>6 DEF Next, CallerStep, Quiescent

\* A goroutine stays within its call: the call waits for it before it returns.
LEMMA ScopeStep == TypeOK /\ Frames /\ Scope /\ [Next]_vars => Scope'
<1> SUFFICES ASSUME TypeOK, Frames, Scope, [Next]_vars PROVE Scope'
  OBVIOUS
<1>1. CASE UNCHANGED vars
  BY <1>1 DEF vars, Scope, Active
<1>2. ASSUME NEW x \in Ctx, Cancel(x) PROVE Scope'
  BY <1>2 DEF Cancel, caller, Scope, Active
<1>3. ASSUME NEW c \in Call, Start(c) PROVE Scope'
  <2>1. depth[c] = 0
    BY <1>3, ReadyHasNoFrame DEF Start
  <2>2. CASE Canceled(c)
    <3>1. \A f \in Frame : gpc[f] # "none" => f[1] # c
      BY <1>3 DEF Start, Scope, Active, InCall
    <3>2. phase' = [phase EXCEPT ![c] = "refused"] /\ UNCHANGED <<bgDone, gpc>>
      BY <1>3, <2>2 DEF Start
    <3> QED
      BY <3>1, <3>2 DEF TypeOK, Scope, Active, Frame
  <2>3. CASE ~Canceled(c)
    <3>1. /\ phase' = [phase EXCEPT ![c] = "fn"]
          /\ bgDone' = [bgDone EXCEPT ![<<c, 1>>] = "open"]
          /\ gpc' = [gpc EXCEPT ![<<c, 1>>] = "select"]
      BY <1>3, <2>1, <2>3 DEF Start, OpenFrame, Marked
    <3>2. <<c, 1>> \in Frame
      BY BoundAssumption DEF Frame, Level
    <3> QED
      BY <3>1, <3>2 DEF TypeOK, Scope, Active, InCall, Frame
  <2> QED
    BY <2>2, <2>3
<1>4. ASSUME NEW c \in Call, Enter(c) PROVE Scope'
  <2>1. UNCHANGED <<phase, bgDone, gpc>>
    BY <1>4 DEF Enter, OpenFrame, Marked, Frames, Active, InCall
  <2> QED
    BY <2>1 DEF Scope, Active
<1>5. ASSUME NEW c \in Call,
             Arm(c) \/ BeginNative(c) \/ EndNative(c) \/ AbortNative(c)
               \/ Panic(c)
      PROVE  Scope'
  <2>1. UNCHANGED <<bgDone, gpc>>
    BY <1>5 DEF Arm, BeginNative, EndNative, AbortNative, Panic
  <2>2. \A o \in Call : Active(o) => Active(o)' \/ phase'[o] = "panicked"
    BY <1>5 DEF Arm, BeginNative, EndNative, AbortNative, Panic, TypeOK,
                Active, InCall
  <2>3. \A o \in Call : phase[o] = "panicked" => phase'[o] = "panicked"
    BY <1>5 DEF Arm, BeginNative, EndNative, AbortNative, Panic, TypeOK
  <2> QED
    BY <2>1, <2>2, <2>3 DEF Scope, Frame
<1>6. ASSUME NEW c \in Call, Return(c) PROVE Scope'
  <2>1. done[Top(c)] = "nil" => depth[c] # 1
    BY <1>6 DEF Return, Frames, Top, Active, InCall
  <2>2. /\ UNCHANGED <<bgDone, gpc>>
        /\ \E l \in {"fn", "wait"} : phase' = [phase EXCEPT ![c] = l]
    BY <1>6, <2>1 DEF Return, CloseFrame
  <2> QED
    BY <1>6, <2>2 DEF Return, TypeOK, Scope, Active, InCall
<1>7. ASSUME NEW c \in Call, Join(c) PROVE Scope'
  <2>1. depth[c] = 1
    BY <1>7 DEF Join, Frames
  <2>2. gpc[<<c, 1>>] = "none"
    BY <1>7, <2>1, BoundAssumption DEF Join, Awaited, Top, Scope, Frame, Level
  <2>3. \A l \in Level : gpc[<<c, l>>] = "none"
    BY <2>2 DEF Scope, Frame
  <2>4. /\ phase' = [phase EXCEPT ![c] = "returned"]
        /\ bgDone' = [bgDone EXCEPT ![<<c, 1>>] = "nil"]
        /\ gpc' = gpc
    BY <1>7, <2>1 DEF Join, CloseFrame, Top
  <2> QED
    BY <2>3, <2>4 DEF TypeOK, Scope, Active, Frame
<1>8. ASSUME NEW f \in Frame, Routine(f) PROVE Scope'
  <2>1. UNCHANGED phase /\ gpc[f] # "none"
    BY <1>8 DEF Routine, SelectCanceled, CtxDone, SelectDone, LoopDone, LoopDefault,
                Interrupt, Wake, Exit, Goto, caller
  <2>2. \/ UNCHANGED bgDone /\ \E l \in Looping : gpc' = [gpc EXCEPT ![f] = l]
        \/ /\ bgDone' = [bgDone EXCEPT ![f] = "closed"]
           /\ gpc' = [gpc EXCEPT ![f] = "none"]
    BY <1>8 DEF Routine, SelectCanceled, CtxDone, SelectDone, LoopDone, LoopDefault,
                Interrupt, Wake, Exit, Goto, Looping
  <2> QED
    BY <2>1, <2>2 DEF TypeOK, Scope, Active
<1> QED
  BY <1>1, <1>2, <1>3, <1>4, <1>5, <1>6, <1>7, <1>8
  DEF Next, CallerStep, Quiescent

\* Goroutines leave their first select only for a cancelled context, and a
\* context stays cancelled.
LEMMA AskedStep == TypeOK /\ Frames /\ Asked /\ [Next]_vars => Asked'
<1> SUFFICES ASSUME TypeOK, Frames, Asked, [Next]_vars PROVE Asked'
  OBVIOUS
<1> DEFINE NoneAsks == /\ \A c \in Call : Canceled(c) => Canceled(c)'
                       /\ \A f \in Frame : gpc'[f] \in Looping => gpc[f] \in Looping
<1>1. NoneAsks => Asked'
  BY DEF Asked, Frame
<1>2. CASE UNCHANGED vars
  BY <1>1, <1>2 DEF vars, Canceled
<1>3. ASSUME NEW x \in Ctx, Cancel(x) PROVE NoneAsks
  BY <1>3 DEF Cancel, Canceled
<1>4. ASSUME NEW c \in Call, Start(c) \/ Enter(c) PROVE NoneAsks
  <2>1. UNCHANGED cancelled
    BY <1>4 DEF Start, Enter
  <2>2. UNCHANGED gpc \/ \E f : gpc' = [gpc EXCEPT ![f] = "select"]
    BY <1>4 DEF Start, Enter, OpenFrame
  <2> QED
    BY <2>1, <2>2 DEF TypeOK, Canceled, Looping
<1>5. ASSUME NEW c \in Call,
             Arm(c) \/ BeginNative(c) \/ EndNative(c) \/ AbortNative(c)
               \/ Return(c) \/ Join(c) \/ Panic(c)
      PROVE  NoneAsks
  BY <1>5 DEF Arm, BeginNative, EndNative, AbortNative, Return, Join, Panic,
              Canceled
<1>6. ASSUME NEW f \in Frame, Routine(f) PROVE Asked'
  <2>1. UNCHANGED cancelled
    BY <1>6 DEF Routine, SelectCanceled, CtxDone, SelectDone, LoopDone, LoopDefault,
                Interrupt, Wake, Exit, Goto
  <2>2. \E l : /\ gpc' = [gpc EXCEPT ![f] = l]
               /\ l \in Looping => Canceled(f[1])
    BY <1>6 DEF Routine, SelectCanceled, CtxDone, SelectDone, LoopDone, LoopDefault,
                Interrupt, Wake, Exit, Goto, Asked, Looping
  <2> QED
    BY <2>1, <2>2 DEF TypeOK, Asked, Canceled
<1> QED
  BY <1>1, <1>2, <1>3, <1>4, <1>5, <1>6 DEF Next, CallerStep, Quiescent

\* Only Panic leaves a call panicked, and it needs a call that may panic.
LEMMA MisuseStep == TypeOK /\ Misuse /\ [Next]_vars => Misuse'
<1> SUFFICES ASSUME TypeOK, Misuse, [Next]_vars PROVE Misuse'
  OBVIOUS
<1>1. ASSUME NEW c \in Call, CallerStep(c) \/ EndNative(c) \/ Panic(c)
      PROVE  Misuse'
  BY <1>1 DEF CallerStep, Start, Enter, Arm, BeginNative, EndNative,
              AbortNative, Return, Join, CloseFrame, Panic, TypeOK, Misuse
<1>2. UNCHANGED phase => Misuse'
  BY DEF Misuse
<1>3. ASSUME NEW f \in Frame, Routine(f) PROVE UNCHANGED phase
  BY <1>3 DEF Routine, SelectCanceled, CtxDone, SelectDone, LoopDone, LoopDefault,
              Interrupt, Wake, Exit, Goto, caller
<1> QED
  BY <1>1, <1>2, <1>3 DEF Next, Cancel, Quiescent, caller, vars

\* An interrupt reaches a running execution only from the execution's own
\* goroutine or from one that a panic left behind.
LEMMA StrayStep ==
  TypeOK /\ Serial /\ Scope /\ Asked /\ StrayOnlyAfterPanic /\ [Next]_vars
    => StrayOnlyAfterPanic'
<1> SUFFICES ASSUME TypeOK, Serial, Scope, Asked, StrayOnlyAfterPanic, [Next]_vars
             PROVE  StrayOnlyAfterPanic'
  OBVIOUS
<1> DEFINE Kept ==
      /\ \A o \in Call : Canceled(o) => Canceled(o)'
      /\ \A o \in Call : phase[o] = "panicked" => phase'[o] = "panicked"
      /\ \A o \in Call : phase'[o] = "native" => phase[o] = "native"
      /\ UNCHANGED interrupted
<1>1. Kept => StrayOnlyAfterPanic'
  BY DEF StrayOnlyAfterPanic
<1>2. CASE UNCHANGED vars
  BY <1>1, <1>2 DEF vars, Canceled
<1>3. ASSUME NEW x \in Ctx, Cancel(x) PROVE Kept
  BY <1>3 DEF Cancel, caller, Canceled
<1>4. ASSUME NEW c \in Call,
             Start(c) \/ Enter(c) \/ Arm(c) \/ EndNative(c) \/ AbortNative(c)
               \/ Return(c) \/ Join(c) \/ Panic(c)
      PROVE  Kept
  <2>1. UNCHANGED <<cancelled, interrupted>>
    BY <1>4 DEF Start, Enter, Arm, EndNative, AbortNative, Return, Join, Panic
  <2>2. /\ phase[c] # "panicked"
        /\ \/ \E l : phase' = [phase EXCEPT ![c] = l] /\ l # "native"
           \/ UNCHANGED phase
    BY <1>4 DEF Start, Enter, Arm, EndNative, AbortNative, Return, Join, Panic,
                CloseFrame
  <2> QED
    BY <2>1, <2>2 DEF TypeOK, Canceled
<1>5. ASSUME NEW c \in Call, BeginNative(c) PROVE StrayOnlyAfterPanic'
  <2>1. /\ phase' = [phase EXCEPT ![c] = "native"] /\ phase[c] = "armed"
        /\ interrupted' = [interrupted EXCEPT ![On[c]] = FALSE]
        /\ UNCHANGED cancelled
    BY <1>5 DEF BeginNative
  <2>2. On[c] \in Conn
    BY CallAssumption
  <2> QED
    BY <2>1, <2>2 DEF TypeOK, StrayOnlyAfterPanic, Canceled
<1>6. ASSUME NEW f \in Frame, Routine(f) PROVE StrayOnlyAfterPanic'
  <2>1. UNCHANGED <<cancelled, phase>>
    BY <1>6 DEF Routine, SelectCanceled, CtxDone, SelectDone, LoopDone, LoopDefault,
                Interrupt, Wake, Exit, Goto, caller
  <2>2. CASE Interrupt(f)
    <3> DEFINE c == f[1]
    <3>1. c \in Call /\ Canceled(c) /\ (Active(c) \/ phase[c] = "panicked")
      BY <2>2 DEF Interrupt, Scope, Asked, Looping, Frame
    <3>2. interrupted' = [interrupted EXCEPT ![On[c]] = TRUE]
      BY <2>2 DEF Interrupt
    <3>3. ASSUME NEW o \in Call, phase[o] = "native", On[o] = On[c]
          PROVE  o = c \/ phase[c] = "panicked"
      BY <3>1, <3>3 DEF Serial, Active, InCall
    <3> HIDE DEF c
    <3>4. ASSUME NEW o \in Call, phase[o] = "native", interrupted'[On[o]],
                 On[o] # On[c]
          PROVE  interrupted[On[o]]
      BY <3>2, <3>4, CallAssumption DEF TypeOK
    <3>5. ASSUME NEW o \in Call, phase'[o] = "native", interrupted'[On[o]]
          PROVE  \E p \in Call : /\ On[p] = On[o] /\ Canceled(p)
                                 /\ (p = o \/ phase[p] = "panicked")
      <4>1. phase[o] = "native"
        BY <2>1, <3>5
      <4>2. CASE On[o] = On[c]
        BY <4>1, <4>2, <3>1, <3>3
      <4>3. CASE On[o] # On[c]
        BY <4>1, <4>3, <3>4, <3>5 DEF StrayOnlyAfterPanic
      <4> QED
        BY <4>2, <4>3
    <3> QED
      BY <3>5, <2>1 DEF StrayOnlyAfterPanic, Canceled
  <2>3. CASE ~Interrupt(f)
    <3>1. UNCHANGED interrupted
      BY <1>6, <2>3 DEF Routine, SelectCanceled, CtxDone, SelectDone, LoopDone,
                        LoopDefault, Wake, Exit
    <3> QED
      BY <1>1, <2>1, <3>1 DEF Canceled
  <2> QED
    BY <2>2, <2>3
<1> QED
  BY <1>1, <1>2, <1>3, <1>4, <1>5, <1>6 DEF Next, CallerStep, Quiescent

-----------------------------------------------------------------------------
\* The invariant is inductive.
THEOREM Invariance == Spec => []IInv
<1>1. IInv /\ [Next]_vars => IInv'
  BY TypeStep, FramesStep, SerialStep, ScopeStep, AskedStep, MisuseStep, StrayStep
  DEF IInv
<1> QED
  BY <1>1, InitIInv, PTL DEF Spec

\* The variables of context.go's model keep their types.
THEOREM TypeCorrect == Spec => []TypeOK
<1>1. IInv => TypeOK
  BY DEF IInv
<1> QED
  BY <1>1, Invariance, PTL

\* Only a panic in fn leaves a goroutine behind (context.go:99-105).
THEOREM OnlyPanicLeaksHolds == Spec => []OnlyPanicLeaks
<1>1. IInv => OnlyPanicLeaks
  BY DEF IInv, Scope, OnlyPanicLeaks
<1> QED
  BY <1>1, Invariance, PTL

\* An execution is interrupted for its own context, or by what a panic on the
\* same connection left behind.
THEOREM StrayOnlyAfterPanicHolds == Spec => []StrayOnlyAfterPanic
<1>1. IInv => StrayOnlyAfterPanic
  BY DEF IInv
<1> QED
  BY <1>1, Invariance, PTL

\* Where fn never panics, the interrupt loop is scoped to its call.
THEOREM LoopScopedToCallHolds ==
  ASSUME Panicking = {} PROVE Spec => []LoopScopedToCall
<1>1. IInv => LoopScopedToCall
  BY DEF IInv, Scope, Misuse, LoopScopedToCall, Frame
<1> QED
  BY <1>1, Invariance, PTL

\* Where fn never panics, no execution sees an interrupt it did not ask for.
THEOREM NoStrayInterruptHolds ==
  ASSUME Panicking = {} PROVE Spec => []NoStrayInterrupt
<1>1. IInv => NoStrayInterrupt
  BY DEF IInv, Misuse, StrayOnlyAfterPanic, NoStrayInterrupt
<1> QED
  BY <1>1, Invariance, PTL

\* A connection has at most one interrupter goroutine of calls in flight, however
\* deep the wrapped calls nest and whatever panics left behind.
THEOREM OneInterrupterPerConnHolds == Spec => []OneInterrupterPerConn
<1>1. IInv => OneInterrupterPerConn
  BY DEF IInv, Scope, Serial, OneInterrupterPerConn, Frame
<1> QED
  BY <1>1, Invariance, PTL
=============================================================================
