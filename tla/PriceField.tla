----------------------------- MODULE PriceField -----------------------------
(***************************************************************************)
(* The price field of ProductDetailViewController, character by character: *)
(* the delegate that restricts what can be typed or pasted, the text it is *)
(* filled with from the product, and Int(...)!, which savePressed and      *)
(* updateSelectedValues apply to whatever it holds.  It says which texts   *)
(* AppState's "overpriced" stands for.                                     *)
(***************************************************************************)
EXTENDS Integers, Sequences, SequencesExt

CONSTANTS
    Digit,      \* the ASCII digits users type
    ForeignDigit,    \* a decimal digit of another script
    OtherChar,      \* any other character
    Width,      \* bits of Int: 64 in the app
    MaxLength,  \* bound on the length of the field
    MaxTyped    \* bound on what is typed or pasted at once

ASSUME Field == /\ Digit \subseteq 0..9 /\ 0 \in Digit
                /\ ForeignDigit # OtherChar /\ {ForeignDigit, OtherChar} \cap Digit = {}
                /\ Width \in Nat \ {0}
                /\ MaxLength \in Nat /\ MaxTyped \in 0..MaxLength

VARIABLES
    text,       \* the field
    price,      \* selectedProduct.price
    unwrappedNil     \* Int(...) was nil and has been unwrapped

priceVars == <<text, price, unwrappedNil>>

Char   == Digit \cup {ForeignDigit, OtherChar}
MaxInt == 2 ^ (Width - 1) - 1

Texts(length) == UNION {[1..n -> Char] : n \in 0..length}

-----------------------------------------------------------------------------
\* CharacterSet.decimalDigits is the Unicode category Nd, of every script.
DecimalDigits == Digit \cup {ForeignDigit}

\* Mutant: one decimal digit among the characters is enough.
AllowedIfAnyDigit(string) ==
    string = <<>> \/ ToSet(string) \cap DecimalDigits # {}

\* textField(_:shouldChangeCharactersIn:replacementString:).
Allowed(string) == ToSet(string) \subseteq DecimalDigits

\* Int(String): ASCII digits only, at least one, and no overflow.
Number(string) == FoldLeft(LAMBDA n, digit : 10 * n + digit, 0, string)

IsInt(string) ==
    string # <<>> /\ ToSet(string) \subseteq Digit /\ Number(string) <= MaxInt

\* String(Int): the shortest text of the number.
Formatted(n) ==
    CHOOSE string \in Texts(MaxLength) :
        /\ IsInt(string) /\ Number(string) = n
        /\ Len(string) > 1 => Head(string) # 0

Prices == {Number(string) : string \in {s \in Texts(MaxLength) : IsInt(s)}}

-----------------------------------------------------------------------------
PriceInit == price \in Prices /\ text = Formatted(price) /\ unwrappedNil = FALSE

\* Typing, pasting or deleting: the characters after the first i, up to the
\* j-th, are replaced, if the delegate allows it.
EditPrice ==
    \E i \in 0..Len(text), j \in 0..Len(text), string \in Texts(MaxTyped) :
        /\ i <= j
        /\ Allowed(string)
        /\ Len(text) - (j - i) + Len(string) <= MaxLength
        /\ text' = SubSeq(text, 1, i) \o string \o SubSeq(text, j + 1, Len(text))
        /\ UNCHANGED <<price, unwrappedNil>>

\* "Cancel" fills the form from selectedProduct again.
FillPrice == text' = Formatted(price) /\ UNCHANGED <<price, unwrappedNil>>

\* savePressed, answered at once: its guard on an empty price, then the price
\* unwrapped and put into selectedProduct.
SavePrice ==
    /\ text # <<>>
    /\ \/ IsInt(text) /\ price' = Number(text) /\ UNCHANGED unwrappedNil
       \/ ~IsInt(text) /\ unwrappedNil' = TRUE /\ UNCHANGED price
    /\ UNCHANGED text

PriceNext == ~unwrappedNil /\ (EditPrice \/ FillPrice \/ SavePrice)

PriceSpec == PriceInit /\ [][PriceNext]_priceVars

-----------------------------------------------------------------------------
\* What the delegate achieves: a saved field fails to be a price only by its
\* size or by a digit of another script.
OnlyLargeOrForeign ==
    unwrappedNil =>
        \/ ForeignDigit \in ToSet(text)
        \/ ToSet(text) \subseteq Digit /\ Number(text) > MaxInt
=============================================================================
