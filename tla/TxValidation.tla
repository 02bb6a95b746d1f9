---------------------------- MODULE TxValidation ----------------------------
(***************************************************************************)
(* pallet-tx-validation: for an account and the cid of a garbled message   *)
(* circuit, the digits the circuit shows (message_digits) and the order in *)
(* which its pinpad shows the keys (pinpad_digits).  check_input takes the *)
(* positions the user touched, as raw numbers or as ASCII digits, and      *)
(* passes the transaction when the touched keys spell the message.         *)
(*                                                                         *)
(* A panic rolls the extrinsic back; an Err keeps the events it deposited. *)
(***************************************************************************)
EXTENDS Naturals, Sequences

CONSTANTS
    Accounts,
    Cids,           \* the ipfs cids in use
    LongCids,       \* those longer than the 64 bytes of the map's key
    MessageVectors, \* what callers give as message_digits
    PinpadVectors,  \* what callers give as pinpad_digits
    Inputs,         \* what callers give as input_digits, as code points (bytes
                    \* that are not utf8 panic at once and are left out)
    NonUtf8,        \* the stored vectors that are not utf8
    MaxDigits,      \* capacity of the stored digit vectors (10)
    LogInfo,        \* the node logs at level info: arguments are evaluated
    MaxVerdicts,    \* bound: verdicts given on one entry
    None            \* Option::None

ASSUME TxValidationAssumption ==
    /\ MaxDigits \in Nat /\ MaxDigits <= 10
    /\ LogInfo \in BOOLEAN
    /\ MaxVerdicts \in Nat
    /\ \A v \in NonUtf8 : \E i \in DOMAIN v : v[i] >= 128
    /\ \A v \in MessageVectors \cup PinpadVectors \cup Inputs : v \in Seq(Nat)

VARIABLES
    CircuitServerMetadataMap,  \* account and cid -> package or None
    verdicts,                  \* history: verdicts on the entry since it was stored
    last                       \* history: the last extrinsic and its result

txvars == <<CircuitServerMetadataMap, verdicts, last>>

-----------------------------------------------------------------------------
(* Data *)

Bounded(v) == Len(v) <= MaxDigits

\* struct DisplayValidationPackage
DisplayValidationPackage ==
    [message_digits : {v \in Seq(Nat) : Bounded(v)}, pinpad_digits : {v \in Seq(Nat) : Bounded(v)}]

\* Mutant: the ASCII digits of the front-end are not converted.
ToDigit_RawOnly(c) == c

\* char::to_digit(10), or the code point itself
ToDigit(c) == IF c \in 48 .. 57 THEN c - 48 ELSE c

input_digits_int(input) == [i \in 1 .. Len(input) |-> ToDigit(input[i])]

\* pinpad_permutation.get(index).unwrap() succeeds for every input; an index
\* that does not fit a u8 is past the end of the pinpad too
InRange(pinpad, input) == \A i \in 1 .. Len(input) : ToDigit(input[i]) < Len(pinpad)

computed_inputs_from_permutation(pinpad, input) ==
    [i \in 1 .. Len(input) |-> pinpad[ToDigit(input[i]) + 1]]

\* from_utf8(pinpad_permutation).expect() in the arguments of log::info!
LogPanics(pinpad) == LogInfo /\ pinpad \in NonUtf8

\* Mutant: the comparison stops at the end of the shorter vector.
CheckResult_PrefixPasses(package, input) ==
    IF package = None \/ LogPanics(package.pinpad_digits) \/ ~InRange(package.pinpad_digits, input)
    THEN "panic"
    ELSE IF \A i \in 1 .. Len(input) : i <= Len(package.message_digits) =>
              package.message_digits[i]
                  = computed_inputs_from_permutation(package.pinpad_digits, input)[i]
    THEN "Ok" ELSE "TxWrongCodeGiven"

\* what check_input returns for a stored package (None: no entry, unwrap panics)
CheckResult(package, input) ==
    IF package = None \/ LogPanics(package.pinpad_digits) \/ ~InRange(package.pinpad_digits, input)
    THEN "panic"
    ELSE IF package.message_digits = computed_inputs_from_permutation(package.pinpad_digits, input)
    THEN "Ok" ELSE "TxWrongCodeGiven"

-----------------------------------------------------------------------------
Init ==
    /\ CircuitServerMetadataMap = [k \in Accounts \X Cids |-> None]
    /\ verdicts = [k \in Accounts \X Cids |-> 0]
    /\ last = [call |-> "none", input |-> <<>>, package |-> None, result |-> "Ok"]

\* Mutant: the length of the pinpad is not checked.
StorePanics_AnyPinpad(cid, message, pinpad) ==
    cid \in LongCids \/ ~Bounded(message) \/ pinpad = None

\* the unwraps of the bounded conversions
StorePanics(cid, message, pinpad) == cid \in LongCids \/ ~Bounded(message) \/ ~Bounded(pinpad)

\* store_metadata_aux when nothing panics; an older entry of the key is replaced
store_metadata_aux(who, cid, message, pinpad) ==
    /\ ~StorePanics(cid, message, pinpad)
    /\ CircuitServerMetadataMap' =
           [CircuitServerMetadataMap EXCEPT ![<<who, cid>>] =
               [message_digits |-> message, pinpad_digits |-> pinpad]]

store_metadata(who, cid, message, pinpad) ==
    \/ /\ store_metadata_aux(who, cid, message, pinpad)
       /\ verdicts' = [verdicts EXCEPT ![<<who, cid>>] = 0]
       /\ last' = [call |-> "store_metadata", input |-> <<>>, package |-> None, result |-> "Ok"]
    \/ /\ StorePanics(cid, message, pinpad)
       /\ last' = [call |-> "store_metadata", input |-> <<>>, package |-> None, result |-> "panic"]
       /\ UNCHANGED <<CircuitServerMetadataMap, verdicts>>

\* TxPass and Ok, TxFail and Err(TxWrongCodeGiven), or a panic.  The entry stays.
check_input(who, ipfs_cid, input) ==
    LET package == CircuitServerMetadataMap[<<who, ipfs_cid>>]
        result  == IF ipfs_cid \in LongCids THEN "panic" ELSE CheckResult(package, input)
    IN  /\ last' = [call |-> "check_input", input |-> input, package |-> package, result |-> result]
        /\ verdicts' = IF result = "panic" THEN verdicts
                       ELSE [verdicts EXCEPT ![<<who, ipfs_cid>>] = @ + 1]
        /\ UNCHANGED CircuitServerMetadataMap

Next ==
    \E who \in Accounts, cid \in Cids :
        \/ \E message \in MessageVectors, pinpad \in PinpadVectors :
              store_metadata(who, cid, message, pinpad)
        \/ /\ verdicts[<<who, cid>>] < MaxVerdicts
           /\ \E input \in Inputs : check_input(who, cid, input)

Spec == Init /\ [][Next]_txvars

-----------------------------------------------------------------------------
(* Properties *)

\* Map, counters and history have their types; no vector is over its bound and
\* no entry is stored under a cid that does not fit the key.
TypeOK ==
    /\ DOMAIN CircuitServerMetadataMap = Accounts \X Cids
    /\ \A who \in Accounts, cid \in Cids :
          LET package == CircuitServerMetadataMap[<<who, cid>>]
          IN  package # None => package \in DisplayValidationPackage /\ cid \notin LongCids
    /\ verdicts \in [Accounts \X Cids -> Nat]
    /\ last.result \in {"Ok", "TxWrongCodeGiven", "panic"}

\* key k of the pinpad (0 is the leftmost) was meant by code point c
Touches(c, k) == c = k \/ c = 48 + k

\* the touched keys show, one by one, the digits of the message
SpellsMessage(package, input) ==
    /\ Len(input) = Len(package.message_digits)
    /\ \A i \in 1 .. Len(input) : \E k \in 0 .. Len(package.pinpad_digits) - 1 :
          Touches(input[i], k) /\ package.pinpad_digits[k + 1] = package.message_digits[i]

\* check_input passes exactly the inputs that spell the message on the pinpad,
\* whichever of the two encodings (or a mixture) the front-end uses.
PassesWhatSpellsMessage ==
    last.call = "check_input" /\ last.package # None =>
        (last.result = "Ok" <=> /\ SpellsMessage(last.package, last.input)
                                /\ ~LogPanics(last.package.pinpad_digits))

Injective(v) == \A i, j \in 1 .. Len(v) : v[i] = v[j] => i = j

\* On a pinpad that shows every key once, one sequence of keys passes, not two:
\* two accepted inputs are the same positions, differently encoded.
OneCodePasses ==
    \A who \in Accounts, cid \in Cids :
        LET package == CircuitServerMetadataMap[<<who, cid>>]
            passing == {input \in Inputs : CheckResult(package, input) = "Ok"}
        IN  package # None /\ Injective(package.pinpad_digits) =>
                \A x, y \in passing : input_digits_int(x) = input_digits_int(y)
=============================================================================
