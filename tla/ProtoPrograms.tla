---------------------------- MODULE ProtoPrograms ----------------------------
(***************************************************************************)
(* The generated parts of the proto benchmark: what the functions          *)
(* Message<m>_Set_<k> of proto/access_message<m>.cc do to a message, and   *)
(* the operations of ProtoLifecycle::Run (proto/lifecycle.cc) in their     *)
(* order, in pieces of at most 150 lines of the source.                    *)
(*                                                                         *)
(* A message stands for the number of elements in its repeated fields, at  *)
(* any depth.  The .proto files have no oneof and no map, so that number   *)
(* is what merging adds and copying, swapping, clearing, serializing and   *)
(* parsing preserve.                                                       *)
(***************************************************************************)
EXTENDS Integers, Sequences, TLC

\* How many elements a Set function adds, and the longest string it takes
\* from the string of kMaxValueStringSize characters.
Sets(added, longest) == [added |-> added, longest |-> longest]

Message0_Set_1 == Sets(66, 176)
Message0_Set_2 == Sets(92, 6668)
Message0_Set_3 == Sets(78, 53)
Message1_Set_1 == Sets(54, 472)
Message1_Set_2 == Sets(25, 355)
Message1_Set_3 == Sets(40, 1682)
Message2_Set_1 == Sets(8, 18)
Message2_Set_2 == Sets(8, 53)
Message3_Set_1 == Sets(11, 108)
Message3_Set_2 == Sets(1385, 35)
Message3_Set_3 == Sets(13, 92)
Message3_Set_4 == Sets(30, 5)
Message4_Set_1 == Sets(8, 442)
Message4_Set_2 == Sets(4, 117)
Message4_Set_3 == Sets(15, 95)
Message4_Set_4 == Sets(16, 125)
Message5_Set_1 == Sets(91, 38)
Message5_Set_2 == Sets(89, 365)
Message6_Set_1 == Sets(5, 24)
Message6_Set_2 == Sets(5, 40)
Message6_Set_3 == Sets(9, 24)
Message7_Set_1 == Sets(71, 956)
Message7_Set_2 == Sets(139, 107)
Message7_Set_3 == Sets(28, 450)
Message7_Set_4 == Sets(30, 3648)
Message8_Set_1 == Sets(14, 412)
Message8_Set_2 == Sets(5, 63)
Message9_Set_1 == Sets(4, 48)
Message9_Set_2 == Sets(10, 30)
Message9_Set_3 == Sets(6, 29)
Message9_Set_4 == Sets(4, 18)

MessageSet ==
  0 :> <<Message0_Set_1, Message0_Set_2, Message0_Set_3>> @@
  1 :> <<Message1_Set_1, Message1_Set_2, Message1_Set_3>> @@
  2 :> <<Message2_Set_1, Message2_Set_2>> @@
  3 :> <<Message3_Set_1, Message3_Set_2, Message3_Set_3, Message3_Set_4>> @@
  4 :> <<Message4_Set_1, Message4_Set_2, Message4_Set_3, Message4_Set_4>> @@
  5 :> <<Message5_Set_1, Message5_Set_2>> @@
  6 :> <<Message6_Set_1, Message6_Set_2, Message6_Set_3>> @@
  7 :> <<Message7_Set_1, Message7_Set_2, Message7_Set_3, Message7_Set_4>> @@
  8 :> <<Message8_Set_1, Message8_Set_2>> @@
  9 :> <<Message9_Set_1, Message9_Set_2, Message9_Set_3, Message9_Set_4>>

-----------------------------------------------------------------------------
(***************************************************************************)
(* The operations on message<m>_.message[i]; with an o, on other_message.  *)
(***************************************************************************)
E(m)     == <<"Empty", m, "message">>         \* Create, Clear
D(m)     == <<"Destroy", m, "message">>
Do(m)    == <<"Destroy", m, "other">>
N(m)     == <<"New", m, "message">>           \* = Arena::Create<Message>(arena_)
No(m)    == <<"New", m, "other">>
S(m, k)  == <<"Set", m, "message", k>>
So(m, k) == <<"Set", m, "other", k>>
C(m)     == <<"Copy", m, "message">>          \* from other_message, as the next two
G(m)     == <<"Merge", m, "message">>
W(m)     == <<"Swap", m, "message">>
Z(m)     == <<"Serialize", m, "message">>
Zo(m)    == <<"Serialize", m, "other">>
P(m)     == <<"Deserialize", m, "message">>
Po(m)    == <<"Deserialize", m, "other">>
U(m)     == <<"Use", m, "message">>           \* Get, Reflection, Descriptor, ByteSize,
                                              \* SpaceUsed, any number of them

Run_1 ==
  <<E(0), E(2), U(2), E(4), E(5), W(4), D(4), N(4), S(4,2), E(6), E(7), U(6), U(7), C(7), Zo(6),
    U(4), E(1), E(9), D(4), N(4), S(4,2), C(4), U(7), U(5), D(1), N(1), S(1,2), U(1), C(7),
    D(0), N(0), S(0,2), C(9), U(4), E(8), Z(9), C(6), U(8), Zo(6), U(8), D(7), N(7), S(7,2),
    U(7), U(1), C(9), U(5), U(0), W(2), D(4), N(4), S(4,2), U(2), U(7), C(4), U(0), E(3), U(7),
    U(6), U(7), Zo(1), C(3), C(5), U(1), D(4), N(4), S(4,2), D(8), N(8), S(8,2), C(5), C(9),
    C(1), P(3), C(1), U(8), C(0), C(7), C(9), U(8), Z(7), U(6), G(4), U(4), So(9,2), Do(9),
    No(9), So(9,2), C(5), U(8), U(7), C(3), U(8), C(1), U(7), G(8), D(0), N(0), S(0,2), U(7),
    U(8), Do(2), No(2), So(2,2), D(6), N(6), S(6,2), C(5), C(9), U(9), U(0), U(2), D(0), N(0),
    S(0,2), W(3), C(7), D(0), N(0), S(0,2), C(0), U(5), D(0), N(0), S(0,2), U(2), U(4), Zo(0),
    Z(3), U(9), D(1), N(1), S(1,2), C(4), Zo(7), U(2), Po(6), So(0,2), U(1), Do(3), No(3),
    So(3,2), Po(6), C(0), U(0), U(4), U(5), Do(2)>>

Run_2 ==
  <<No(2), So(2,2), Z(6), C(7), W(0), Po(5), U(2), Zo(8), C(8), U(3), Zo(1), U(3), So(1,2),
    U(4), Z(4), C(1), W(6), U(2), D(5), N(5), S(5,2), Do(4), No(4), So(4,2), U(1), C(3), U(2),
    U(0), Po(9), D(4), N(4), S(4,2), C(5), C(6), U(0), U(8), U(7), U(2), C(7), G(9), D(8), N(8),
    S(8,2), C(4), U(9), Z(7), W(0), U(8), Do(8), No(8), So(8,2), C(1), U(1), U(5), U(1), E(1),
    C(1), U(4), U(1), U(2), S(7,2), U(5), U(2), D(2), N(2), S(2,2), U(9), G(4), D(7), N(7),
    S(7,2), W(6), C(6), U(3), D(3), N(3), S(3,2), C(1), C(9), U(1), S(8,2), U(7), U(1), C(0),
    Do(7), No(7), So(7,2), D(2), N(2), S(2,2), U(7), Zo(0), U(3), W(1), U(8), D(3), N(3),
    S(3,2), U(1), D(2), N(2), S(2,2), Do(3), No(3), So(3,2), G(3), U(9), U(6), D(6), N(6),
    S(6,2), U(9), U(1), C(6), U(1), U(2), Do(1), No(1), So(1,2), C(0), Do(9), No(9), So(9,2),
    C(9), C(7), C(8), U(7), C(0), C(6), C(9), U(8), U(9), P(7), S(5,2), W(6), C(5), C(3), P(5),
    U(0), C(9), U(5), C(1), S(0,3), Do(7), No(7), So(7,2), D(9), N(9), S(9,2)>>

Run_3 ==
  <<D(3), N(3), S(3,2), Do(4), No(4), So(4,2), Z(6), C(6), C(1), U(2), U(0), C(1), U(4), P(9),
    C(5), C(0), Po(8), C(2), D(7), N(7), S(7,2), U(6), C(2), C(8), C(0), C(5), U(0), C(6), C(2),
    U(9), C(9), U(2), U(3), Z(1), Po(2), C(7), U(3), U(0), C(5), C(2), U(4), C(9), C(5), D(9),
    N(9), S(9,2), U(1), U(3), P(0), Zo(3), C(9), U(1), U(8), C(3), U(6), Do(0), No(0), So(0,2),
    C(8), D(5), N(5), S(5,2), U(9), C(1), U(4), C(8), U(6), C(9), C(5), U(3), U(8), D(4), N(4),
    S(4,2), U(6), U(7), U(3), C(5), U(1), C(0), Do(0), No(0), So(0,2), U(9), U(6), C(1), C(7),
    D(3), N(3), S(3,2), U(6), Do(2), No(2), So(2,2), D(4), N(4), S(4,2), C(7), C(1), C(4), D(3),
    N(3), S(3,2), C(3), U(8), S(7,3), Z(0), Do(2), No(2), So(2,2), U(1), D(0), N(0), S(0,2),
    G(8), Z(0), U(5), U(2), U(7), Po(5), P(9), Z(3), U(2), Zo(8), C(8), U(2), U(1), U(3), P(7),
    U(1), C(2), Po(3), C(5), C(1), Zo(6), W(5), U(6), C(8), C(4), C(8), Z(6), C(8), Po(3), Z(1),
    Po(0), U(3), Do(4), No(4), So(4,2)>>

Run_4 ==
  <<U(2), C(2), Po(0), C(3), U(6), U(4), Po(9), U(4), U(9), C(2), Do(0), No(0), So(0,2), U(9),
    D(6), N(6), S(6,2), U(5), U(4), U(9), U(6), C(2), U(0), Po(6), U(6), C(0), C(2), U(5), D(2),
    N(2), S(2,2), Do(1), No(1), So(1,2), U(2), U(1), U(9), C(0), D(7), N(7), S(7,2), U(1), C(5),
    C(5), U(6), C(5), P(8), Do(7), No(7), So(7,2), C(0), U(9), U(3), U(1), C(9), P(1), W(8),
    U(7), C(9), U(1), G(3), Zo(7), U(5), U(1), U(6), C(9), U(9), C(3), C(9), U(1), C(6), U(5),
    U(7), U(3), U(2), D(1), N(1), S(1,2), G(3), C(6), U(7), C(6), C(0), G(6), Z(3), U(4), U(3),
    C(8), U(6), C(5), Do(3), No(3), So(3,2), U(8), U(2), Zo(3), U(8), C(7), D(5), N(5), S(5,2),
    So(4,2), P(5), U(7), So(7,4), W(2), C(0), U(3), U(5), Po(0), C(4), C(3), Po(1), C(0), U(1),
    U(2), G(0), U(7), U(5), C(2), C(4), Zo(7), Zo(2), U(7), C(4), C(8), C(5), D(4), N(4),
    S(4,2), D(1), N(1), S(1,2), C(1), U(0), C(8), D(5), N(5), S(5,2), S(3,2), D(6), N(6),
    S(6,2), U(6), Po(9), U(3), C(0), U(1)>>

Run_5 ==
  <<U(0), C(5), C(2), W(8), W(3), U(4), C(3), U(1), C(9), C(8), C(3), Z(8), C(6), D(9), N(9),
    S(9,2), C(6), C(1), U(6), D(1), N(1), S(1,2), U(7), C(0), Z(0), G(1), U(9), U(5), C(7),
    U(9), C(8), U(3), C(8), C(8), U(4), C(6), U(3), U(6), U(2), Z(3), Do(4), No(4), So(4,2),
    C(6), C(0), U(2), U(4), Po(7), C(1), U(0), U(7), U(3), C(4), U(6), Po(7), U(4), D(3), N(3),
    S(3,2), D(3), N(3), S(3,2), C(5), U(1), U(0), C(2), W(3), U(6), C(1), U(5), P(2), U(4),
    Po(4), D(3), N(3), S(3,2), Z(5), C(8), Z(0), U(5), U(2), S(3,3), Zo(4), C(9), U(1), U(9),
    Z(9), U(7), U(3), D(9), N(9), S(9,2), C(8), Zo(3), C(8), Z(0), U(5), U(1), C(2), U(3), C(8),
    S(4,3), Do(2), No(2), So(2,2), Z(1), D(2), N(2), S(2,2), U(8), U(7), U(6), U(0), U(7), U(6),
    U(4), U(6), U(1), P(0), U(3), U(8), D(4), N(4), S(4,2), G(4), D(0), N(0), S(0,2), C(3),
    U(4), U(1), C(9), G(5), U(0), U(7), U(2), W(8), Zo(4), Do(4), No(4), So(4,2), U(4), C(3),
    U(0), C(3), P(2), U(5), D(2), N(2)>>

Run_6 ==
  <<S(2,2), U(8), U(0), C(9), U(2), U(0), D(6), N(6), S(6,2), U(2), U(0), P(2), P(8), Zo(4),
    C(1), Zo(2), Po(0), C(2), P(8), C(3), U(7), U(0), Do(9), No(9), So(9,2), U(4), C(4), U(7),
    Z(9), So(3,4), C(7), U(4), U(2), U(4), U(6), C(4), U(5), C(8), So(1,3), D(0), N(0), S(0,2),
    W(2), C(3), U(5), U(1), U(8), P(1), D(5), N(5), S(5,2), U(7), C(3), U(4), U(0), C(8), Po(6),
    C(5), Do(4), No(4), So(4,2), U(0), Z(8), C(9), G(7), P(8), P(3), U(7), D(5), N(5), S(5,2),
    C(7), U(3), U(7), C(3), Po(7), U(9), U(6), U(0), U(4), C(1), C(6), U(2), C(2), C(1), C(5),
    C(9), C(8), C(6), C(1), P(3), U(5), C(1), Po(4), U(7), U(9), So(4,4), U(0), P(5), G(4),
    C(0), U(1), D(1), N(1), S(1,2), S(2,2), U(0), C(7), Do(5), No(5), So(5,2), U(6), C(8), U(2),
    C(8), C(0), C(1), U(0), Po(8), U(7), U(6), U(5), Z(4), U(3), C(2), U(4), C(5), U(7), G(5),
    U(0), C(5), C(5), C(1), U(7), C(8), C(4), Zo(6), G(4), D(2), N(2), S(2,2), C(9), U(8), U(0),
    U(4), U(3), U(5)>>

Run_7 ==
  <<Zo(1), C(0), Zo(1), S(9,3), U(7), Zo(2), U(1), U(0), So(6,2), Do(7), No(7), So(7,2), C(2),
    U(7), C(0), U(7), C(8), C(5), Do(5), No(5), So(5,2), S(6,3), Z(1), C(2), So(9,4), C(0),
    C(6), W(0), C(1), U(7), Z(0), P(9), C(4), U(7), U(4), U(5), C(2), U(0), C(7), Zo(2), D(1),
    Do(1), C(8), C(0), P(8), C(8), C(0), C(4), U(5), U(3), Do(0), No(0), So(0,2), U(6), Do(4),
    No(4), So(4,2), Po(7), U(5), U(6), U(2), Po(4), D(4), Do(4), U(0), G(9), C(9), U(8), C(5),
    G(7), C(0), U(2), Do(7), No(7), So(7,2), C(7), U(8), D(2), N(2), S(2,2), Po(3), U(2), U(6),
    U(3), U(6), C(2), Zo(3), U(3), C(8), C(7), Zo(8), D(9), N(9), S(9,2), C(0), U(6), C(0),
    P(3), C(3), C(3), D(0), N(0), S(0,2), C(9), Do(6), No(6), So(6,2), C(0), W(3), U(3), D(8),
    N(8), S(8,2), U(0), Po(3), P(9), C(6), C(7), U(7), Zo(2), U(0), U(5), U(7), D(7), N(7),
    S(7,2), U(9), U(6), D(7), Do(7), Do(6), No(6), So(6,2), C(3), D(3), N(3), S(3,2), C(9),
    U(6), U(8), Do(5), No(5), So(5,2), U(3), U(6), C(8), G(6), U(5), C(0)>>

Run_8 ==
  <<Po(8), C(0), C(3), U(2), U(8), U(2), C(3), U(0), Zo(9), C(2), P(3), U(6), C(8), U(9), U(8),
    C(2), U(6), U(5), U(9), Zo(2), Po(6), C(9), Zo(6), C(8), U(2), U(0), C(5), C(5), U(5), U(0),
    D(8), N(8), S(8,2), Po(3), U(6), Do(2), No(2), So(2,2), U(6), U(3), D(2), Do(2), Po(0),
    Do(9), No(9), So(9,2), C(5), U(9), D(9), N(9), S(9,2), U(8), C(5), D(6), Do(6), Z(3), C(9),
    Do(5), No(5), So(5,2), U(3), U(5), P(9), U(3), U(8), W(9), U(5), Po(9), D(3), Do(3), C(8),
    U(8), U(0), C(0), D(9), Do(9), C(5), U(0), C(5), D(8), N(8), S(8,2), U(8), C(0), Po(5),
    C(5), U(5), Zo(5), U(5), U(8), D(0), Do(0), C(8), U(8), G(8), U(8), D(8), Do(8), U(5), P(5),
    U(5), C(5), U(5), C(5), P(5), D(5), Do(5)>>

Run ==
  Run_1 \o Run_2 \o Run_3 \o Run_4 \o Run_5 \o Run_6 \o Run_7 \o Run_8
==============================================================================
