------------------------ MODULE TxValidationProofs ------------------------
(* What check_input accepts, for every pinpad, message and input. *)
EXTENDS TxValidation, TLAPS

\* On a pinpad of at most ten keys, the key an accepted code point stands for
\* is the one it touches, and no other.
LEMMA TouchesToDigit ==
  ASSUME NEW n \in Nat, n <= 10, NEW c \in Nat, NEW k \in 0 .. n - 1
  PROVE  Touches(c, k) => ToDigit(c) = k
BY DEF Touches, ToDigit

\* Conversely, the key check_input computes for a code point is one it touches.
LEMMA ToDigitTouches ==
  ASSUME NEW c \in Nat
  PROVE  ToDigit(c) \in Nat /\ Touches(c, ToDigit(c))
BY DEF Touches, ToDigit

\* Touched keys are positions of the pinpad.
LEMMA BelowLength ==
  ASSUME NEW n \in Nat, NEW t
  PROVE  /\ t \in 0 .. n - 1 => t < n
         /\ t \in Nat /\ t < n => t \in 0 .. n - 1 /\ t + 1 \in 1 .. n
OBVIOUS

\* The loop of check_input computes the message exactly for the inputs that
\* spell it: the conversion of ASCII digits and the lookup in the permutation
\* against the statement of what the user sees and touches.
LEMMA ComputedIffSpells ==
  ASSUME NEW package \in DisplayValidationPackage, NEW input \in Seq(Nat)
  PROVE  (/\ InRange(package.pinpad_digits, input)
          /\ package.message_digits = computed_inputs_from_permutation(package.pinpad_digits, input))
         <=> SpellsMessage(package, input)
<1> DEFINE m == package.message_digits
           p == package.pinpad_digits
<1>1. m \in Seq(Nat) /\ p \in Seq(Nat) /\ Len(p) \in Nat /\ Len(p) <= 10 /\ Len(input) \in Nat
  BY TxValidationAssumption DEF DisplayValidationPackage, Bounded
<1>2. \A i \in 1 .. Len(input) : input[i] \in Nat
  OBVIOUS
<1> HIDE DEF m, p
<1>3. ASSUME InRange(p, input), m = computed_inputs_from_permutation(p, input)
      PROVE  SpellsMessage(package, input)
  <2>1. Len(input) = Len(m)
    BY <1>1, <1>3 DEF computed_inputs_from_permutation
  <2>2. ASSUME NEW i \in 1 .. Len(input)
        PROVE  \E k \in 0 .. Len(p) - 1 : Touches(input[i], k) /\ p[k + 1] = m[i]
    <3>1. ToDigit(input[i]) \in 0 .. Len(p) - 1 /\ Touches(input[i], ToDigit(input[i]))
      <4>1. ToDigit(input[i]) \in Nat /\ Touches(input[i], ToDigit(input[i]))
        BY <1>2, <2>2, ToDigitTouches
      <4>2. ToDigit(input[i]) < Len(p)
        BY <1>3, <2>2, Zenon DEF InRange
      <4>3. QED
        BY <1>1, <4>1, <4>2, BelowLength
    <3>2. m[i] = p[ToDigit(input[i]) + 1]
      BY <1>3, <2>2 DEF computed_inputs_from_permutation
    <3>3. QED
      BY <3>1, <3>2
  <2>3. QED
    BY <2>1, <2>2 DEF SpellsMessage, m, p
<1>4. ASSUME SpellsMessage(package, input)
      PROVE  InRange(p, input) /\ m = computed_inputs_from_permutation(p, input)
  <2>1. Len(input) = Len(m)
    BY <1>4 DEF SpellsMessage, m
  <2>2. \A i \in 1 .. Len(input) : ToDigit(input[i]) \in 0 .. Len(p) - 1
                                   /\ p[ToDigit(input[i]) + 1] = m[i]
    <3>1. TAKE i \in 1 .. Len(input)
    <3>2. PICK k \in 0 .. Len(p) - 1 : Touches(input[i], k) /\ p[k + 1] = m[i]
      BY <1>4 DEF SpellsMessage, m, p
    <3>3. ToDigit(input[i]) = k
      BY <3>2, <1>1, <1>2, TouchesToDigit
    <3>4. QED
      BY <3>2, <3>3
  <2>3. InRange(p, input)
    <3>1. SUFFICES ASSUME NEW i \in 1 .. Len(input) PROVE ToDigit(input[i]) < Len(p)
      BY Zenon DEF InRange
    <3>2. QED
      BY <1>1, <2>2, BelowLength
  <2>4. m = computed_inputs_from_permutation(p, input)
    BY <1>1, <2>1, <2>2, SMTT(30) DEF computed_inputs_from_permutation
  <2>5. QED
    BY <2>3, <2>4
<1>5. QED
  BY <1>3, <1>4 DEF m, p

\* For every stored package, an input passes exactly when it spells the message
\* (and the log line of check_input does not panic on the pinpad).
THEOREM CheckResultOk ==
  ASSUME NEW package \in DisplayValidationPackage, package # None, NEW input \in Seq(Nat)
  PROVE  CheckResult(package, input) = "Ok"
         <=> SpellsMessage(package, input) /\ ~LogPanics(package.pinpad_digits)
BY ComputedIffSpells DEF CheckResult

\* On a pinpad that shows each key once, two inputs that pass touch the same
\* keys: nobody passes check_input by another sequence than the one shown.
THEOREM UniqueCode ==
  ASSUME NEW package \in DisplayValidationPackage, package # None,
         Injective(package.pinpad_digits),
         NEW x \in Seq(Nat), NEW y \in Seq(Nat),
         CheckResult(package, x) = "Ok", CheckResult(package, y) = "Ok"
  PROVE  input_digits_int(x) = input_digits_int(y)
<1> DEFINE m == package.message_digits
           p == package.pinpad_digits
<1>1. /\ p \in Seq(Nat) /\ Len(p) \in Nat /\ Len(x) \in Nat /\ Len(y) \in Nat
      /\ \A i \in 1 .. Len(x) : x[i] \in Nat
      /\ \A i \in 1 .. Len(y) : y[i] \in Nat
  BY DEF DisplayValidationPackage
<1> HIDE DEF m, p
<1>2. /\ InRange(p, x) /\ m = computed_inputs_from_permutation(p, x)
      /\ InRange(p, y) /\ m = computed_inputs_from_permutation(p, y)
  BY DEF CheckResult, m, p
<1>3. Len(x) = Len(y)
  BY <1>1, <1>2, CheckResultOk DEF SpellsMessage
<1>4. \A i \in 1 .. Len(x) : ToDigit(x[i]) = ToDigit(y[i])
  <2>1. TAKE i \in 1 .. Len(x)
  <2>2. ToDigit(x[i]) \in Nat /\ ToDigit(y[i]) \in Nat
    BY <1>1, <1>3, ToDigitTouches
  <2>3. ToDigit(x[i]) + 1 \in 1 .. Len(p) /\ ToDigit(y[i]) + 1 \in 1 .. Len(p)
    <3>1. ToDigit(x[i]) < Len(p) /\ ToDigit(y[i]) < Len(p)
      BY <1>2, <1>3, Zenon DEF InRange
    <3>2. QED
      BY <1>1, <2>2, <3>1, BelowLength
  <2>4. p[ToDigit(x[i]) + 1] = p[ToDigit(y[i]) + 1]
    <3>1. m[i] = p[ToDigit(x[i]) + 1]
      BY <1>2 DEF computed_inputs_from_permutation
    <3>2. m[i] = p[ToDigit(y[i]) + 1]
      BY <1>2, <1>3 DEF computed_inputs_from_permutation
    <3>3. QED
      BY <3>1, <3>2
  <2>5. ToDigit(x[i]) + 1 = ToDigit(y[i]) + 1
    BY <2>3, <2>4, Zenon DEF Injective, p
  <2>6. QED
    BY <2>2, <2>5
<1>5. QED
  BY <1>3, <1>4 DEF input_digits_int
-----------------------------------------------------------------------------
(* The pallet as a state machine.                                          *)

\* the recorded verdict is that of the package the input was checked against
LastChecked ==
    last.call = "check_input" /\ last.package # None =>
        /\ last.package \in DisplayValidationPackage
        /\ last.input \in Seq(Nat)
        /\ last.result = CheckResult(last.package, last.input)

TxInv == TypeOK /\ LastChecked

\* check_input returns Ok, TxWrongCodeGiven or panics.
LEMMA CheckResultType ==
  ASSUME NEW package, NEW input
  PROVE  CheckResult(package, input) \in {"Ok", "TxWrongCodeGiven", "panic"}
BY DEF CheckResult

\* Nothing is stored and nothing was checked initially.
LEMMA TxInit == Init => TxInv
<1> SUFFICES ASSUME Init PROVE TxInv
  OBVIOUS
<1>1. TypeOK
  BY DEF Init, TypeOK
<1>2. LastChecked
  BY DEF Init, LastChecked
<1>3. QED
  BY <1>1, <1>2 DEF TxInv

\* store_metadata keeps the invariant, stored or rolled back.
LEMMA StoreInv ==
  ASSUME TxInv, NEW who \in Accounts, NEW cid \in Cids,
         NEW message \in MessageVectors, NEW pinpad \in PinpadVectors,
         store_metadata(who, cid, message, pinpad)
  PROVE  TxInv'
<1>1. last'.call = "store_metadata" /\ last'.result \in {"Ok", "panic"}
  BY DEF store_metadata
<1>2. LastChecked'
  BY <1>1 DEF LastChecked
<1>3. CASE StorePanics(cid, message, pinpad)
  BY <1>1, <1>2, <1>3 DEF store_metadata, store_metadata_aux, TxInv, TypeOK
<1>4. CASE store_metadata_aux(who, cid, message, pinpad)
  <2> DEFINE new == [message_digits |-> message, pinpad_digits |-> pinpad]
  <2>1. message \in Seq(Nat) /\ pinpad \in Seq(Nat)
    BY TxValidationAssumption
  <2>2. new \in DisplayValidationPackage /\ cid \notin LongCids
    BY <1>4, <2>1 DEF store_metadata_aux, StorePanics, DisplayValidationPackage
  <2> HIDE DEF new
  <2>3. CircuitServerMetadataMap' = [CircuitServerMetadataMap EXCEPT ![<<who, cid>>] = new]
    BY <1>4 DEF store_metadata_aux, new
  <2>4. verdicts' \in [Accounts \X Cids -> Nat]
    <3>1. verdicts' = [verdicts EXCEPT ![<<who, cid>>] = 0]
      BY <1>4 DEF store_metadata, store_metadata_aux
    <3>2. QED
      BY <3>1 DEF TxInv, TypeOK
  <2>5. TypeOK'
    BY <1>1, <2>2, <2>3, <2>4 DEF TxInv, TypeOK
  <2>6. QED
    BY <1>2, <2>5 DEF TxInv
<1>5. QED
  BY <1>3, <1>4 DEF store_metadata

\* check_input keeps the invariant and gives the right verdict.
LEMMA CheckInv ==
  ASSUME TxInv, NEW who \in Accounts, NEW cid \in Cids, NEW input \in Inputs,
         check_input(who, cid, input)
  PROVE  TxInv'
<1> DEFINE package == CircuitServerMetadataMap[<<who, cid>>]
           result == IF cid \in LongCids THEN "panic" ELSE CheckResult(package, input)
<1>1. /\ last' = [call |-> "check_input", input |-> input, package |-> package, result |-> result]
      /\ CircuitServerMetadataMap' = CircuitServerMetadataMap
      /\ verdicts' = IF result = "panic" THEN verdicts
                     ELSE [verdicts EXCEPT ![<<who, cid>>] = @ + 1]
  BY DEF check_input
<1>2. result \in {"Ok", "TxWrongCodeGiven", "panic"}
  BY CheckResultType
<1>3. package # None => /\ package \in DisplayValidationPackage
                        /\ result = CheckResult(package, input)
  BY DEF TxInv, TypeOK
<1>4. input \in Seq(Nat)
  BY TxValidationAssumption
<1> HIDE DEF package, result
<1>5. LastChecked'
  BY <1>1, <1>3, <1>4 DEF LastChecked
<1>6. verdicts' \in [Accounts \X Cids -> Nat]
  BY <1>1 DEF TxInv, TypeOK
<1>7. TypeOK'
  BY <1>1, <1>2, <1>6 DEF TxInv, TypeOK
<1>8. QED
  BY <1>5, <1>7 DEF TxInv

\* Every extrinsic keeps the invariant.
LEMMA TxStep == TxInv /\ [Next]_txvars => TxInv'
<1>1. TxInv /\ Next => TxInv'
  BY StoreInv, CheckInv DEF Next
<1>2. TxInv /\ UNCHANGED txvars => TxInv'
  BY DEF TxInv, TypeOK, LastChecked, txvars
<1>3. QED
  BY <1>1, <1>2

\* The invariant holds of every reachable state.
LEMMA TxInvariant == Spec => []TxInv
  BY TxInit, TxStep, PTL DEF Spec

\* Whatever store_metadata was called with, the stored vectors are within their
\* bounds and no entry has a cid that does not fit the key of the map.
THEOREM TxTypeCorrect == Spec => []TypeOK
<1>1. TxInv => TypeOK
  BY DEF TxInv
<1>2. QED
  BY <1>1, TxInvariant, PTL

\* Every verdict check_input ever gives is the right one.
THEOREM PassesWhatSpellsMessageHolds == Spec => []PassesWhatSpellsMessage
<1>1. TxInv => PassesWhatSpellsMessage
  BY CheckResultOk DEF TxInv, LastChecked, PassesWhatSpellsMessage
<1>2. QED
  BY <1>1, TxInvariant, PTL

\* Whatever is stored, by whomever: one sequence of keys per entry at most.
THEOREM OneCodePassesHolds == Spec => []OneCodePasses
<1>1. TxInv => OneCodePasses
  <2>1. SUFFICES ASSUME TxInv, NEW who \in Accounts, NEW cid \in Cids,
                        CircuitServerMetadataMap[<<who, cid>>] # None,
                        Injective(CircuitServerMetadataMap[<<who, cid>>].pinpad_digits),
                        NEW x \in Inputs, NEW y \in Inputs,
                        CheckResult(CircuitServerMetadataMap[<<who, cid>>], x) = "Ok",
                        CheckResult(CircuitServerMetadataMap[<<who, cid>>], y) = "Ok"
                 PROVE  input_digits_int(x) = input_digits_int(y)
    BY DEF OneCodePasses
  <2>2. CircuitServerMetadataMap[<<who, cid>>] \in DisplayValidationPackage
    BY <2>1 DEF TxInv, TypeOK
  <2>3. x \in Seq(Nat) /\ y \in Seq(Nat)
    BY TxValidationAssumption
  <2>4. QED
    BY <2>1, <2>2, <2>3, UniqueCode
<1>2. QED
  BY <1>1, TxInvariant, PTL
=============================================================================
