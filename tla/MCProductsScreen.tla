-------------------------- MODULE MCProductsScreen --------------------------
(***************************************************************************)
(* Small catalogues for TLC.  k1 is a product that was created outside the *)
(* app, with a photo of its own; k2 is a key childByAutoId may return, so  *)
(* its picture is the placeholder.                                         *)
(***************************************************************************)
EXTENDS ProductsScreen, TLC

CONSTANTS food, gifts, k1, k2, photo, blank, t1, t2

\* Two products of food; with a second category, gifts, it has none.
TwoCategoryOf == (k1 :> food) @@ (k2 :> food)
TwoPictureOf  == (k1 :> photo) @@ (k2 :> blank)

\* One product, which the popup can create.
OneCategoryOf == k2 :> food
OnePictureOf  == k2 :> blank

\* What users type: one text, or two and a price that is no Int.
TypedText    == {t1}
TypedTooMuch == {t1, t2, "overpriced"}

\* Detail views are interchangeable (where only safety is checked).
Symmetry == Permutations(View)
=============================================================================
