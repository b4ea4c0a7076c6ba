------------------------------ MODULE MCNanopb ------------------------------
(***************************************************************************)
(* Message types and messages for Nanopb: every kind of field, an older    *)
(* and a newer version of a type, submessages in submessages, extensions   *)
(* and oneofs.                                                             *)
(***************************************************************************)
EXTENDS Nanopb, TLC

Unset(v) == [has |-> FALSE, v |-> v]
Set(v) == [has |-> TRUE, v |-> v]
Array(f, n) == [f EXCEPT !.max = n]
Sub(f, type) == [f EXCEPT !.sub = type]
Callback(f, call) == [atype |-> "callback", call |-> call] @@ f
Default(f, v) == [f EXCEPT !.default = <<v>>]

\* Numbers of one and two bytes, a string that ends at its NUL, a packed array.
Person == <<Field(1, "VARINT", "REQUIRED", 2), Field(2, "STRING", "OPTIONAL", 3),
            Array(Field(3, "UVARINT", "REPEATED", 1), 2)>>
Persons == {(1 :> n) @@ (2 :> s) @@ (3 :> a) :
    n \in {-128, -1, 0, 127}, s \in {Unset(<<>>), Set(<<>>), Set(<<1, 2>>), Set(<<5, 0>>)},
    a \in {<<>>, <<0>>, <<15, 3>>}}
OlderPerson == <<Person[1]>>
StricterPerson == Person \o <<Field(4, "FIXED32", "REQUIRED", 2)>>

\* A version of it that reads with callbacks.
NewerPerson == <<Callback(Field(4, "BYTES", "OPTIONAL", 4), "all"),
                 Default(Field(5, "SVARINT", "OPTIONAL", 4), 7),
                 Person[1], Person[2], Callback(Person[3], "numbers")>>
NewerPersons == {(1 :> n) @@ (2 :> s) @@ (3 :> a) @@ (4 :> b) @@ (5 :> c) :
    n \in {-1, 9}, s \in {Unset(<<>>), Set(<<>>)}, a \in {<<>>, <<0, 300>>},
    b \in {<<>>, <<<<1, 9>>>>}, c \in {Unset(-1), Set(7), Set(-1), Set(-32768), Set(300)}}

\* A submessage that may pass for zero.
Item == <<Field(1, "SVARINT", "SINGULAR", 1), Array(Field(2, "UVARINT", "REPEATED", 1), 2)>>
Items == {(1 :> n) @@ (2 :> a) : n \in {0, -8}, a \in {<<>>, <<0, 5>>, <<2>>}}
Order == <<Sub(Field(1, "SUBMESSAGE", "SINGULAR", 0), Item), Field(2, "BYTES", "SINGULAR", 4),
           Field(3, "FIXED64", "SINGULAR", 4), [Field(4, "STRING", "OPTIONAL", 0) EXCEPT !.atype = "pointer"]>>
Orders == {(1 :> i) @@ (2 :> b) @@ (3 :> n) @@ (4 :> <<>>) :
    i \in Items, b \in {<<>>, <<0, 8>>}, n \in {0, 4321}}

\* A submessage, an array of submessages, a oneof and an extension.
Pair == <<Field(1, "FIXED_LENGTH_BYTES", "OPTIONAL", 2)>>
Extension == Sub(Field(8, "EXTENSION", "OPTIONAL", 0),
                 <<Field(9, "UVARINT", "OPTIONAL", 4), Field(10, "BYTES", "OPTIONAL", 3)>>)
Basket == <<Sub(Field(1, "SUBMESSAGE", "OPTIONAL", 0), Person),
            Array(Sub(Field(2, "SUBMESSAGE", "REPEATED", 0), Item), 2),
            Field(3, "FIXED32", "ONEOF", 2), Sub(Field(4, "SUBMESSAGE", "ONEOF", 0), Pair), Extension>>
ItemBaskets == {(1 :> Unset(SetToDefaults(Person))) @@ (2 :> i) @@ (Which :> 3) @@ (Union :> 70)
                    @@ (9 :> e) @@ (10 :> x) :
    i \in {<<>>} \cup {<<j, (1 :> 0) @@ (2 :> <<>>)>> : j \in Items},
    e \in {Set(0), Set(999)}, x \in {Set(<<4>>), Unset(<<>>)}}
PersonBaskets == {(1 :> Set(p)) @@ (2 :> <<>>) @@ (Which :> 4) @@ (Union :> (1 :> u))
                    @@ (9 :> Unset(0)) @@ (10 :> Unset(<<>>)) :
    p \in {q \in Persons : q[1] = -1}, u \in {Set(<<3, 0>>), Unset(<<0, 0>>)}}

\* As many required fields as a word has bits.
FullWord == [t \in 1..PbWord |-> Field(t, "UVARINT", "REQUIRED", 1)]

Exchange(from, messages, to) == [from |-> from, messages |-> messages, to |-> to]
Exchanges ==
    <<Exchange(Person, Persons, Person), Exchange(Person, Persons, OlderPerson),
      Exchange(Person, Persons, NewerPerson), Exchange(Person, Persons, StricterPerson),
      Exchange(NewerPerson, NewerPersons, NewerPerson), Exchange(NewerPerson, NewerPersons, OlderPerson),
      Exchange(Basket, ItemBaskets, Basket), Exchange(Basket, PersonBaskets, Basket),
      Exchange(Order, Orders, Order), Exchange(FullWord, {[t \in 1..PbWord |-> t]}, FullWord)>>
=============================================================================
