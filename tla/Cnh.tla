--------------------------------- MODULE Cnh ---------------------------------
(***************************************************************************)
(* validateCnh: the two check digits of a CNH number, and the answer       *)
(* ValidationService gives for the number a user has typed, perhaps with   *)
(* two digits out of order.                                                *)
(***************************************************************************)
EXTENDS Naturals

CONSTANTS
    Bodies,         \* the first nine digits of the numbers that are typed
    Known           \* [the numbers the provider knows -> their status]

ASSUME CnhAssumption ==
    /\ \A body \in Bodies : body \in [1..9 -> 0..9]
    /\ \A digits \in DOMAIN Known :
         digits \in [1..11 -> 0..9] /\ Known[digits] \in {"VALID", "EXPIRED", "SUSPENDED"}

VARIABLES
    typed,          \* the eleven digits in the form
    answer          \* the status of the last answer, if any

cnhVars == <<typed, answer>>

Body == 1..9

\* The weights of the two sums: 9 down to 1, and 1 up to 9.
DescendingWeight == [i \in Body |-> 10 - i]
AscendingWeight == [i \in Body |-> i]

\* Mutant: every digit weighs the same in both sums.
Weighted_Alike(digits, weight) ==
    9 * (digits[1] + digits[2] + digits[3] + digits[4] + digits[5]
         + digits[6] + digits[7] + digits[8] + digits[9])

\* The sum of a loop of nine turns, written out so that proofs can calculate with it.
Weighted(digits, weight) ==
    digits[1] * weight[1] + digits[2] * weight[2] + digits[3] * weight[3]
    + digits[4] * weight[4] + digits[5] * weight[5] + digits[6] * weight[6]
    + digits[7] * weight[7] + digits[8] * weight[8] + digits[9] * weight[9]

\* What the second digit is reduced by when the first one came to ten.
Discount(digits) == IF Weighted(digits, DescendingWeight) % 11 = 10 THEN 2 ELSE 0

FirstDigit(digits) ==
    LET d == Weighted(digits, DescendingWeight) % 11 IN IF d = 10 THEN 0 ELSE d

\* One less two is ten, which is no digit: such a number is never valid.
SecondDigit(digits) ==
    LET r == Weighted(digits, AscendingWeight) % 11
        dsc == Discount(digits) IN
    IF r = 10 THEN 0 ELSE IF r < dsc THEN r + 11 - dsc ELSE r - dsc

AllEqual(digits) == \A i \in 1..11 : digits[i] = digits[1]

ValidCnh(digits) ==
    /\ ~AllEqual(digits)
    /\ digits[10] = FirstDigit(digits) /\ digits[11] = SecondDigit(digits)

\* A body with the digits computed from it.
Completed(body) ==
    [i \in 1..11 |-> IF i \in Body THEN body[i]
                     ELSE IF i = 10 THEN FirstDigit(body) ELSE SecondDigit(body) % 10]

\* Numbers of eleven digits; of any other length the answer is LOCAL_INVALID at once.
CnhInit ==
    /\ (\E body \in Bodies : typed = Completed(body)) \/ typed \in DOMAIN Known
    /\ answer = "none"

Swapped(digits, i) == [digits EXCEPT ![i] = digits[i + 1], ![i + 1] = digits[i]]

\* A valid number is typed with two neighbouring digits of the body in the wrong order.
Mistype(i) ==
    /\ ValidCnh(typed)
    /\ typed' = Swapped(typed, i)
    /\ answer' = "none"

ProviderAnswer(digits) == IF digits \in DOMAIN Known THEN Known[digits] ELSE "NOT_FOUND"

\* The provider is asked only about numbers that pass the check digits.
AskValidation ==
    /\ answer = "none"
    /\ answer' = IF ValidCnh(typed) THEN ProviderAnswer(typed) ELSE "LOCAL_INVALID"
    /\ UNCHANGED typed

CnhNext == (\E i \in 1..8 : Mistype(i)) \/ AskValidation

CnhSpec == CnhInit /\ [][CnhNext]_cnhVars

(***************************************************************************)
(* Properties                                                              *)
(***************************************************************************)
\* A number in the form has eleven digits.
CnhTypeOK ==
    /\ typed \in [1..11 -> 0..9]
    /\ answer \in {"none", "LOCAL_INVALID", "VALID", "EXPIRED", "SUSPENDED", "NOT_FOUND"}

\* A valid number is not valid with two neighbouring digits of its body swapped:
\* ten folded into zero in the first digit does not hide the mistake, because the
\* second digit is then reduced by two.
SwapIsCaught ==
    ValidCnh(typed) =>
        \A i \in 1..8 : typed[i] # typed[i + 1] => ~ValidCnh(Swapped(typed, i))
=============================================================================
