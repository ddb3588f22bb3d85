---------------------------- MODULE ThresholdCodec ----------------------------
(***************************************************************************)
(* Compression of updates: every element that reaches a threshold is sent  *)
(* as plus or minus the threshold, and the rest of it stays behind.        *)
(*                                                                         *)
(* "threshold": convertToThreshold and convertFromThreshold                *)
(* (include/loops/type_conversions.h).  A message has a fixed number of    *)
(* slots; threads claim slots by an atomic counter, and a flag tells the   *)
(* others to stop when the slots are used up.                              *)
(* "bitmap": encodeBitmapGeneric and decodeBitmapGeneric                   *)
(* (include/ops/specials.h).  A message has a word for each WordSize       *)
(* elements.                                                               *)
(*                                                                         *)
(* A call of an encoder is followed by the call of the decoder that the    *)
(* message is meant for.  Both are OpenMP loops; `todo` holds the          *)
(* iterations no thread has begun, and any thread may begin any of them,   *)
(* which includes every schedule.                                          *)
(***************************************************************************)
EXTENDS Integers, FiniteSets

CONSTANTS
  CodecTeam,    \* the threads of the team
  Updates,      \* the arrays that may be encoded: functions on 0 .. n - 1
  Threshold,    \* an even number, so that half of it is one
  WordSize      \* elements in a word of a bitmap (16)

IsUpdate(x) ==
  LET n == Cardinality(DOMAIN x)
  IN  n \in Nat \ {0} /\ x \in [0 .. n - 1 -> Int]

ASSUME CodecAssumption ==
  /\ \A x \in Updates : IsUpdate(x)
  /\ Threshold \in Nat \ {0} /\ Threshold % 2 = 0
  /\ WordSize \in Nat \ {0}
  /\ IsFiniteSet(CodecTeam)

VARIABLES
  codec,    \* the calls: what is encoded, the encoding, the slots there are
  phase,    \* "encode", "decode" or "returned"
  todo,     \* the iterations of the present loop that nobody has begun
  doing,    \* thread -> the iteration it is in, with what it has loaded
  rest,     \* the array that is encoded, and what is left of it
  message,  \* slot or word -> what was written there; 0 if nothing was
  cnt,      \* the next slot
  flag,     \* the slots are used up
  target    \* the array the message is decoded into

codecVars == <<codec, phase, todo, doing, rest, message, cnt, flag, target>>

\* A thread that is between two iterations.
Between == [step |-> "none"]

Entries == DOMAIN codec.update
Header == 4
flimit == codec.limit + Header

Plus(v) == v >= Threshold
Minus(v) == v <= - Threshold
Sent(x) == {e \in DOMAIN x : Plus(x[e]) \/ Minus(x[e])}

Words == 0 .. Cardinality(Entries) \div WordSize
Bits(w) == {e \in Entries : e \div WordSize = w}
Nothing == [bit |-> FALSE, sign |-> FALSE]

Slots == Header .. flimit - 1
Scattered == codec.kind = "threshold"

\* The client has counted how many elements reach the threshold and asks for at
\* most as many slots; the memory of the message is zero.
CodecStart ==
  /\ \E x \in Updates :
       \/ \E k \in 0 .. Cardinality(Sent(x)) :
            codec = [update |-> x, kind |-> "threshold", limit |-> k]
       \/ codec = [update |-> x, kind |-> "bitmap", limit |-> 0]
  /\ phase = "encode"
  /\ todo = IF Scattered THEN Entries ELSE {e \div WordSize : e \in Entries}
  /\ doing = [t \in CodecTeam |-> Between]
  /\ rest = codec.update
  /\ message = IF Scattered THEN [s \in Slots |-> 0]
               ELSE [w \in Words |-> [e \in Bits(w) |-> Nothing]]
  /\ cnt = Header /\ flag = FALSE
  /\ target = [e \in Entries |-> 0]

\* Thread t begins iteration i.
TakesUp(t, i) == doing[t] = Between /\ i \in todo /\ todo' = todo \ {i}
Moves(t, state) == doing' = [doing EXCEPT ![t] = state]

-----------------------------------------------------------------------------
(* convertToThreshold.                                                     *)

\* The flag is read; once it is up an iteration ends here.
LoadFlag(t) ==
  /\ phase = "encode" /\ Scattered
  /\ \E e \in Entries :
       /\ TakesUp(t, e)
       /\ \/ flag /\ Moves(t, Between)
          \/ ~ flag /\ Moves(t, [step |-> "loaded", e |-> e])
  /\ UNCHANGED <<codec, phase, rest, message, cnt, flag, target>>

In(t, step) == doing[t].step = step

\* An element that stays as it is.
Stays(t) ==
  /\ In(t, "loaded")
  /\ ~ Plus(rest[doing[t].e]) /\ ~ Minus(rest[doing[t].e])
  /\ Moves(t, Between)
  /\ UNCHANGED <<codec, phase, todo, rest, message, cnt, flag, target>>

\* Fault: the last slot is taken for one too many.
Claim_LastSlotUnused(t) ==
  /\ In(t, "loaded")
  /\ LET e == doing[t].e
         sign == IF Plus(rest[e]) THEN 1 ELSE -1
     IN  /\ Plus(rest[e]) \/ Minus(rest[e])
         /\ cnt' = cnt + 1
         /\ \/ /\ cnt + 1 >= flimit
               /\ Moves(t, [step |-> "full", e |-> e])
               /\ UNCHANGED <<rest, message>>
            \/ /\ cnt + 1 < flimit
               /\ Moves(t, Between)
               /\ message' = [message EXCEPT ![cnt] = sign * (e + 1)]
               /\ rest' = [rest EXCEPT ![e] = @ - sign * Threshold]
  /\ UNCHANGED <<codec, phase, todo, flag, target>>

\* Fault: the threshold is subtracted before it is known that there is a slot.
Claim_SubtractsFirst(t) ==
  /\ In(t, "loaded")
  /\ LET e == doing[t].e
         sign == IF Plus(rest[e]) THEN 1 ELSE -1
     IN  /\ Plus(rest[e]) \/ Minus(rest[e])
         /\ cnt' = cnt + 1
         /\ rest' = [rest EXCEPT ![e] = @ - sign * Threshold]
         /\ \/ /\ cnt >= flimit
               /\ Moves(t, [step |-> "full", e |-> e])
               /\ UNCHANGED message
            \/ /\ cnt < flimit
               /\ Moves(t, Between)
               /\ message' = [message EXCEPT ![cnt] = sign * (e + 1)]
  /\ UNCHANGED <<codec, phase, todo, flag, target>>

\* An element that is sent: a slot is claimed and, if there is one, written.
Claim(t) ==
  /\ In(t, "loaded")
  /\ LET e == doing[t].e
         sign == IF Plus(rest[e]) THEN 1 ELSE -1
     IN  /\ Plus(rest[e]) \/ Minus(rest[e])
         /\ cnt' = cnt + 1
         /\ \/ /\ cnt >= flimit
               /\ Moves(t, [step |-> "full", e |-> e])
               /\ UNCHANGED <<rest, message>>
            \/ /\ cnt < flimit
               /\ Moves(t, Between)
               /\ message' = [message EXCEPT ![cnt] = sign * (e + 1)]
               /\ rest' = [rest EXCEPT ![e] = @ - sign * Threshold]
  /\ UNCHANGED <<codec, phase, todo, flag, target>>

RaiseFlag(t) ==
  /\ In(t, "full")
  /\ flag' = TRUE
  /\ Moves(t, Between)
  /\ UNCHANGED <<codec, phase, todo, rest, message, cnt, target>>

-----------------------------------------------------------------------------
(* convertFromThreshold.                                                   *)

Value(s) == IF message[s] > 0 THEN Threshold ELSE - Threshold
Named(s) == (IF message[s] > 0 THEN message[s] ELSE - message[s]) - 1

\* z[ael] += ... reads, adds and writes, and is not atomic.
ReadTarget(t) ==
  /\ phase = "decode" /\ Scattered
  /\ \E s \in Slots :
       /\ TakesUp(t, s)
       /\ Moves(t, [step |-> "add", slot |-> s,
                   old |-> IF Named(s) \in Entries THEN target[Named(s)]
                           ELSE 0])
  /\ UNCHANGED <<codec, phase, rest, message, cnt, flag, target>>

WriteTarget(t) ==
  /\ In(t, "add")
  /\ LET s == doing[t].slot
     IN  target' = [target EXCEPT ![Named(s)] = doing[t].old + Value(s)]
  /\ Moves(t, Between)
  /\ UNCHANGED <<codec, phase, todo, rest, message, cnt, flag>>

-----------------------------------------------------------------------------
(* The bitmap.  An iteration touches one word and its elements, so it is   *)
(* one step.                                                               *)

Magnitude(v) == IF v < 0 THEN - v ELSE v
Half == Threshold \div 2

Code(v) == [bit  |-> Magnitude(v) >= Threshold,
            sign |-> v < 0 /\ Magnitude(v) >= Half]

\* What an element keeps, by what encodeBitmapGeneric subtracts from it.
Kept(v) ==
  IF Magnitude(v) >= Threshold
  THEN IF v < 0 THEN v + Threshold ELSE v - Threshold
  ELSE IF Magnitude(v) >= Half /\ v < 0 THEN v + Half ELSE v

\* What decodeBitmapGeneric adds for two bits.
Added(c) ==
  IF c.bit THEN IF c.sign THEN - Threshold ELSE Threshold
  ELSE IF c.sign THEN - Half ELSE 0

EncodeWord(t) ==
  /\ phase = "encode" /\ ~ Scattered
  /\ \E w \in Words :
       /\ TakesUp(t, w)
       /\ message' = [message EXCEPT ![w] = [e \in Bits(w) |-> Code(rest[e])]]
       /\ rest' = [e \in Entries |->
                     IF e \in Bits(w) THEN Kept(rest[e]) ELSE rest[e]]
  /\ UNCHANGED <<codec, phase, doing, cnt, flag, target>>

DecodeWord(t) ==
  /\ phase = "decode" /\ ~ Scattered
  /\ \E w \in Words :
       /\ TakesUp(t, w)
       /\ target' = [e \in Entries |->
                       IF e \in Bits(w) THEN target[e] + Added(message[w][e])
                       ELSE target[e]]
  /\ UNCHANGED <<codec, phase, doing, rest, message, cnt, flag>>

-----------------------------------------------------------------------------

Finished == todo = {} /\ \A t \in CodecTeam : doing[t] = Between

\* The barrier at the end of the loop, and the next call.
CodecReturn ==
  /\ Finished
  /\ \/ /\ phase = "encode"
        /\ phase' = "decode"
        /\ todo' = IF Scattered THEN Slots ELSE Words
     \/ /\ phase = "decode"
        /\ phase' = "returned"
        /\ UNCHANGED todo
  /\ UNCHANGED <<codec, doing, rest, message, cnt, flag, target>>

CodecStep(t) ==
  \/ LoadFlag(t) \/ Stays(t) \/ Claim(t) \/ RaiseFlag(t)
  \/ ReadTarget(t) \/ WriteTarget(t) \/ EncodeWord(t) \/ DecodeWord(t)

CodecNext == (\E t \in CodecTeam : CodecStep(t)) \/ CodecReturn

CodecSpec == CodecStart /\ [][CodecNext]_codecVars

-----------------------------------------------------------------------------
(* Properties.                                                             *)

\* Type invariant: each loop runs its own iterations, and nobody is still in
\* the one before.
CodecTypeOK ==
  /\ phase \in {"encode", "decode", "returned"}
  /\ rest \in [Entries -> Int] /\ target \in [Entries -> Int]
  /\ cnt \in Nat /\ flag \in BOOLEAN
  /\ DOMAIN message = IF Scattered THEN Slots ELSE Words
  /\ Scattered => message \in [Slots -> Int]
  /\ phase = "encode" =>
       /\ todo \subseteq IF Scattered THEN Entries ELSE Words
       /\ \A t \in CodecTeam : doing[t] # Between =>
            doing[t].step \in {"loaded", "full"} /\ doing[t].e \in Entries
  /\ phase = "decode" =>
       /\ todo \subseteq IF Scattered THEN Slots ELSE Words
       /\ \A t \in CodecTeam : doing[t] # Between =>
            doing[t].step = "add" /\ doing[t].slot \in Slots
  /\ phase = "returned" => Finished

\* Whoever claims slots in whatever order, and however late the others see the
\* flag, the message that leaves the encoder has no empty slot (the decoder
\* would write before its array: type_conversions.h:687 of element 0) and
\* names no element twice (its additions are not atomic).
MessageComplete ==
  Scattered /\ phase # "encode" =>
    \A s \in Slots : /\ Named(s) \in Entries
                     /\ \A r \in Slots : Named(r) = Named(s) => r = s

\* Nothing is lost or made up: what a sender keeps and what a receiver adds are
\* together what there was (type_conversions.h:653, specials.h:635).
UpdatesConserved ==
  phase = "returned" =>
    \A e \in Entries : codec.update[e] = rest[e] + target[e]

\* A thread that finds no slot raises the flag before it looks at another
\* element: the counter, an int that nothing else bounds, passes the slots by
\* no more than one for each thread.
ClaimsBounded == cnt <= flimit + Cardinality(CodecTeam)
=============================================================================
