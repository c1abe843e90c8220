---------------------------- MODULE CordPrograms ----------------------------
(***************************************************************************)
(* What the generated cord benchmarks do (stl/generated_cord_benchmarks.cc,*)
(* stl/generated_cord_benchmarks.h): for each benchmark the operations of  *)
(* its setup and of its code, in their order, in pieces of at most 150     *)
(* lines of the source.  A cord is known by its number, cord_tmp0 and      *)
(* cord_tmp1 are t0 and t1.  The characters are all 'x', so a string is    *)
(* its length.  Left out: the declarations of a setup, which make empty    *)
(* cords, and reads (size, empty, TryFlat): they always follow an          *)
(* operation on the cord they read, which is checked to be one to read.    *)
(***************************************************************************)
EXTENDS Integers, Sequences

t0 == -1
t1 == -2

S(k, n) == <<"FromString", k, n>>   \* cord_k(std::string(n, 'x')), =; n = 0: empty
K(k, c) == <<"FromCords", k, c>>    \* cord_k(cords[c]), cord_k = cords[c]
C(k, j) == <<"Copy", k, j>>         \* cord_k(cord_j), cord_k = cord_j
M(k, j) == <<"Move", k, j>>         \* cord_k(std::move(cord_j))
A(k, n) == <<"Grow", k, n>>         \* Append, Prepend(std::string(n, 'x'))
X(k, n) == <<"External", k, n>>     \* Prepend(MakeCordFromExternal(n characters))
R(k, n) == <<"RemovePrefix", k, n>>
Q(k, c) == <<"Compare", k, c>>      \* cord_k.Compare(cords[c])
P(k)    == <<"CopyCord", k, k>>     \* CopyCord(cord_k, arr, &str)

CordBenchmarkFleetSetup_1 ==
  <<A(0,17), X(1,3086), R(1,1), A(2,285), A(4,388), A(5,85), A(6,1452), A(7,16), A(9,8),
    A(10,383), A(11,250), A(12,61), A(13,1189), A(14,22), A(15,220), A(16,147), A(17,139),
    A(18,3), A(19,136), A(21,71), A(22,61), A(23,20), A(24,364), A(25,3), A(26,19), A(27,76),
    A(28,20), A(29,248), A(30,38), A(31,61), A(32,44), A(33,27), A(37,104), A(38,61), A(39,234),
    A(40,61), A(41,355), A(42,14), X(43,1079), R(43,1), A(44,107), A(45,17), A(46,186),
    A(47,21), A(49,60), R(49,1), A(49,124), R(49,1), A(49,998), A(50,34), A(51,86), A(53,76),
    A(54,16), A(55,61), A(57,377), A(59,40), A(60,362), A(61,217), A(63,40), A(64,140),
    A(65,136), A(66,16), A(67,1608), R(67,1), A(69,10)>>

CordBenchmarkFleetSetup_2 ==
  <<A(70,151), A(71,113), A(72,86), A(73,45), A(73,2), A(74,28), A(75,93), A(76,56), A(77,61),
    A(79,2079), R(79,1), A(80,61), A(81,18), A(82,18), A(84,278), A(85,7), A(86,77), A(87,136),
    A(88,0), A(90,61), A(91,85), A(93,21), X(94,2049), R(94,1), A(95,14), A(96,61), A(97,217),
    A(98,21), A(99,42)>>

CordBenchmarkFleetSetup ==
  CordBenchmarkFleetSetup_1 \o CordBenchmarkFleetSetup_2

CordBenchmarkFleet_1 ==
  <<S(0,0), S(t0,0), S(t1,0), K(1,0), S(2,114), K(3,1), C(t0,3), K(t0,2), S(t0,58), C(4,t0),
    S(4,87), K(4,4), C(t0,4), C(t1,t0), S(5,1095), K(6,5), C(7,6), S(8,111), C(9,8), K(9,6),
    S(9,34), K(10,7), C(t0,10), C(t1,t0), S(11,398), S(12,0), A(12,7471), A(12,37), P(12),
    Q(12,8), Q(12,8), A(12,454), P(12), Q(12,8), P(12), Q(12,8), P(12), P(12), P(12), A(12,517),
    K(12,9), M(13,12), S(13,19), K(14,10), C(15,14), S(16,29), K(17,11), M(18,17), S(19,20),
    K(19,12), C(t0,19), S(t0,36), K(20,13), Q(20,13), A(20,62), K(21,14)>>

CordBenchmarkFleet_2 ==
  <<C(t0,21), S(22,186), C(t0,22), K(t0,15), S(t0,79), C(23,t0), K(23,16), S(24,17), C(t0,24),
    C(t1,t0), C(t0,t1), C(t1,t0), K(25,17), P(25), A(25,219), Q(25,17), K(25,18), S(26,484),
    C(t0,26), C(t1,t0), K(t1,19), P(t1), C(t0,t1), Q(t0,19), A(t0,21), P(t0), C(27,t0),
    S(28,16), K(29,21), A(29,16), P(29), Q(29,21), Q(29,21), K(29,22), S(29,357), C(t0,29),
    K(30,23), C(t0,30), C(t1,t0), S(31,16), K(32,24), Q(32,24), A(32,32), M(33,32), K(34,25),
    S(35,32), K(36,26), S(36,21), C(37,36), C(t0,37), K(t0,27), C(t1,t0), C(t0,t1), S(38,96),
    K(39,28), S(39,21)>>

CordBenchmarkFleet_3 ==
  <<K(39,29), S(39,29), M(40,39), K(41,30), S(42,69), C(t0,42), K(t0,31), C(t1,t0), S(t1,44),
    K(43,32), A(43,69), P(43), K(44,33), S(45,17), S(46,73), S(47,17), S(47,41), K(48,37),
    C(t0,48), C(t1,t0), C(t0,t1), S(t0,259), K(t0,38), S(t0,61), C(t1,t0), K(t1,39), P(t1),
    Q(t1,39), A(t1,336), P(t1), K(t1,40), C(t0,t1), S(t0,61), K(t0,41), C(t1,t0), C(t0,t1),
    C(t1,t0), S(49,16), K(50,42), C(t0,50), K(51,43), C(t0,51), K(52,44), C(53,52), S(54,57),
    K(55,45), M(56,55), A(56,18), A(56,47), P(56), K(57,46), S(58,16)>>

CordBenchmarkFleet_4 ==
  <<C(t0,58), K(59,47), S(59,22), S(60,37), K(61,49), C(t0,61), A(t0,16), P(t0), Q(t0,49),
    C(t1,t0), K(62,50), C(t0,62), C(63,t0), S(63,59), M(64,63), C(65,64), K(65,51), C(t0,65),
    S(66,24), C(t0,66), S(67,0), A(67,24), A(67,55), Q(67,52), Q(67,52), Q(67,52), A(67,18),
    Q(67,52), A(67,1606), Q(67,52), K(68,53), S(68,61), C(69,68), C(70,69), K(71,54), C(t0,71),
    S(72,16), C(t0,72), K(t0,55), S(t0,65), C(t1,t0), S(73,230), K(73,57), C(t0,73), C(t1,t0),
    S(74,101), C(t0,74), S(75,0), A(75,23), K(76,59), S(77,84), K(78,60), S(79,165), M(80,79),
    K(80,61), S(80,21), C(81,80), S(82,25), K(83,63)>>

CordBenchmarkFleet_5 ==
  <<S(84,23), K(84,64), M(85,84), S(85,21), K(86,65), M(87,86), S(88,3700), S(88,61), S(88,61),
    K(89,66), S(90,31), C(t0,90), C(t1,t0), K(91,67), C(t0,91), S(92,110), K(92,69), C(t0,92),
    K(t0,70), S(t0,61), C(93,t0), K(94,71), S(95,103), C(t0,95), K(96,72), C(97,96), C(98,97),
    S(99,16), K(99,73), S(99,61), P(99), C(100,99), A(100,176), C(101,100), C(t0,101), K(t0,74),
    S(t0,23), K(102,75), C(103,102), C(104,103), S(104,53), C(105,104), M(106,105), C(107,106),
    C(108,107), C(109,108), K(110,76), S(111,76), C(112,111), K(112,77)>>

CordBenchmarkFleet_6 ==
  <<C(t0,112), S(t0,18), S(t0,402), K(113,79), C(t0,113), C(t1,t0), C(114,t1), M(115,114),
    M(116,115), K(116,80), S(116,21), C(t0,116), K(t0,81), C(t1,t0), C(117,t1), M(118,117),
    M(119,118), S(119,25), K(120,82), C(t0,120), C(t1,t0), S(121,31), S(122,26), K(123,84),
    C(t0,123), M(124,t0), S(124,2187), M(125,124), C(t0,125), K(126,85), S(127,17), K(128,86),
    S(129,102), M(130,129), K(131,87), M(132,131), S(133,138), K(134,88), C(t0,134), C(t1,t0),
    S(135,53), S(136,55), K(136,90), S(136,99), C(t0,136), K(137,91), M(138,137), S(139,176)>>

CordBenchmarkFleet_7 ==
  <<S(140,86), K(141,93), S(141,61), C(142,141), C(t0,142), M(143,t0), K(144,94), C(t0,144),
    C(t1,t0), C(145,t1), K(146,95), S(147,247), K(148,96), S(148,18), C(149,148), C(150,149),
    C(t0,150), C(t1,t0), C(151,t1), K(151,97), S(151,111), C(152,151), K(153,98), C(154,153),
    S(154,19), C(155,154), C(156,155), C(t0,156), C(157,t0), C(158,157), K(159,99)>>

CordBenchmarkFleet ==
  CordBenchmarkFleet_1 \o CordBenchmarkFleet_2 \o CordBenchmarkFleet_3
    \o CordBenchmarkFleet_4 \o CordBenchmarkFleet_5 \o CordBenchmarkFleet_6
    \o CordBenchmarkFleet_7

CordBenchmark0Setup ==
  <<A(0,43), A(1,35), A(2,22), A(3,9), A(4,17), A(5,23), A(7,34), A(8,17), A(9,28), A(10,198),
    A(11,17), A(12,69), A(13,61), A(14,43), A(15,8), A(16,16), A(17,16), A(18,250), A(19,20),
    A(20,76)>>

CordBenchmark0_1 ==
  <<S(0,0), S(t0,0), S(t1,0), K(1,0), C(t0,1), C(t1,t0), S(2,19), K(3,1), S(4,19), C(5,4),
    K(6,2), S(7,209), C(t0,7), C(t1,t0), K(8,3), S(8,82), S(8,43), S(8,16), S(8,32), S(8,28),
    S(8,83), S(8,31), S(8,16), S(8,52), S(8,16), S(8,28), S(8,21), S(8,39), S(8,34), S(8,78),
    C(9,8), S(9,33), S(9,34), S(9,16), S(9,30), S(9,57), S(9,26)>>

CordBenchmark0_2 ==
  <<S(9,103), S(9,84), S(9,21), S(10,38), S(10,85), S(10,38), S(10,21), S(10,65), S(10,81),
    S(10,22), S(10,16), K(11,4), C(12,11), S(13,21), C(t0,13), K(14,5), C(15,14), S(16,80),
    S(17,106), K(18,7), C(19,18), S(20,19), K(21,8), S(22,59), C(23,22), K(24,9), S(25,46),
    C(t0,25), C(t1,t0), K(26,10), M(27,26), S(27,22), S(27,17), S(27,80), S(27,22), S(28,80),
    S(28,91), S(28,17), S(28,83)>>

CordBenchmark0_3 ==
  <<S(28,16), S(28,84), S(28,42), S(28,25), S(28,16), S(28,223), S(28,31), S(28,17), S(28,83),
    S(28,24), S(28,23), S(28,206), S(28,17), S(28,30), S(28,84), S(28,39), S(28,58), S(28,29),
    S(28,31), S(28,39), S(28,57), S(28,53), S(28,34), S(28,26), S(28,87), S(28,82), S(28,32),
    S(28,54), S(28,17), S(28,83), S(28,28), S(28,38), S(28,24), S(28,32), S(28,21), S(28,18),
    S(28,89), S(28,83), S(28,31), S(28,93), S(28,20), S(28,22), S(28,58), S(28,33)>>

CordBenchmark0_4 ==
  <<S(28,102), S(28,61), S(28,38), S(28,30), S(28,23), S(28,16), S(28,16), S(28,39), S(28,93),
    S(28,84), S(28,19), S(28,22), S(28,83), S(28,28), S(28,42), S(28,17), S(28,87), S(28,20),
    S(28,83), S(28,81), S(28,93), S(28,38), K(29,11), S(30,85), C(t0,30), C(t1,t0), K(31,12),
    S(32,1260), C(t0,32), K(t0,13), S(t0,16), C(t1,t0), K(33,14), S(34,36), C(t0,34), K(35,15),
    S(36,34), C(t0,36), C(t1,t0), K(37,16), S(38,28), C(t0,38), C(t1,t0), K(39,17)>>

CordBenchmark0_5 ==
  <<C(t0,39), C(t1,t0), S(40,27), K(41,18), C(42,41), S(43,69), K(44,19), C(t0,44), C(t1,t0),
    S(45,62), K(46,20), S(46,83), S(46,29), S(46,18), S(46,64), S(46,16), S(46,63), S(46,27),
    S(46,51), S(46,28), S(46,28), S(46,183), S(46,57), S(46,16), S(46,29), S(46,84), S(46,17),
    S(46,31), S(46,36), S(46,22), S(46,16), S(46,61), S(46,63), C(47,46), S(47,34), S(47,25)>>

CordBenchmark0_6 ==
  <<S(47,32), S(47,28), S(47,36), S(47,21), S(47,58), S(47,31), S(47,16), S(48,112), S(48,30),
    S(48,16), S(48,80), S(48,21), S(48,118), S(48,43), S(48,107), S(48,16), S(48,42), S(48,16),
    S(48,36), S(48,35), S(48,42), S(48,22), S(48,41), S(48,16), S(48,17), S(48,38), S(48,97),
    S(48,31), S(48,16), S(48,16), S(48,16), S(48,97), S(48,39), S(48,53), S(48,74), S(48,18),
    S(48,33), S(48,37)>>

CordBenchmark0_7 ==
  <<S(48,187), S(48,97), S(48,22), S(48,83), S(48,18), S(48,31), S(48,22), S(48,16), S(48,16),
    S(48,177), S(48,16), S(48,83), S(48,22), S(48,22), S(48,22), S(48,44), S(48,52), S(48,16),
    S(48,113)>>

CordBenchmark0_8 ==
  <<S(48,97), S(48,16), S(48,37), S(48,22), S(48,25), S(48,125), S(48,18), S(48,35), S(48,17),
    S(48,96), S(48,28), S(48,18), S(48,29), S(48,36), S(48,16), S(48,16), S(48,16), S(48,207),
    S(48,35), S(48,27)>>

CordBenchmark0 ==
  CordBenchmark0_1 \o CordBenchmark0_2 \o CordBenchmark0_3
    \o CordBenchmark0_4 \o CordBenchmark0_5 \o CordBenchmark0_6
    \o CordBenchmark0_7 \o CordBenchmark0_8

CordBenchmark1Setup_1 ==
  <<A(0,6923), A(0,1011), X(1,464), R(1,1), A(2,161), A(3,6538), A(3,1011), A(4,166), X(5,45),
    R(5,1), A(6,22), A(7,182), X(8,1835), R(8,1), A(9,5679), A(9,1011), A(10,1011), A(10,6975),
    A(10,1011), A(11,6878), A(11,1011), A(12,167), A(13,26), A(14,337), A(15,217), A(16,251),
    A(16,7143), A(16,1011), A(17,123), A(17,499), A(17,7039), A(17,1011), X(18,583), R(18,1),
    X(19,350), R(19,1), A(20,104), A(21,3), A(22,161), A(23,3), A(24,123), A(24,7097),
    A(24,1011), A(25,61), A(26,162), A(27,216), A(28,1814), A(29,108), A(30,165), A(31,582),
    A(32,1162), A(33,6801), A(33,1011), A(33,1011), X(34,652), R(34,1), A(35,99), A(36,51),
    X(37,45), R(37,1), A(38,499)>>

CordBenchmark1Setup_2 ==
  <<A(38,6945), A(38,1011), A(39,251), A(39,7094), A(39,1011), A(40,127), X(41,316), R(41,1),
    A(42,1011), A(42,6773), A(42,1011), A(43,8260), A(43,1011), A(43,1011), X(44,580), R(44,1),
    A(45,12), A(47,22), X(48,636), R(48,1), A(49,107), A(50,12), X(51,528), R(51,1), A(52,123),
    A(52,1011), A(52,6164), A(52,1011)>>

CordBenchmark1Setup ==
  CordBenchmark1Setup_1 \o CordBenchmark1Setup_2

CordBenchmark1_1 ==
  <<S(0,0), S(t0,0), S(t1,0), K(0,0), P(0), Q(0,0), A(0,207), C(t0,0), K(t0,1), C(t1,t0),
    C(t0,t1), K(1,2), C(t0,1), S(2,268), K(2,3), C(t0,2), A(t0,110), P(t0), K(3,4), S(3,35),
    S(3,31), S(3,75), S(3,31), S(3,90), S(3,36), S(3,80), S(3,31), S(3,28), S(3,38), S(3,34),
    S(4,42), S(4,34), S(4,182), S(4,31), S(4,61), S(4,31), S(4,36), S(4,32), S(4,31), S(4,34),
    S(4,72), S(4,77), S(4,33)>>

CordBenchmark1_2 ==
  <<S(4,69), S(4,28), S(4,20), S(4,107), S(4,34), S(4,31), S(4,55), S(4,31), S(4,31), S(4,122),
    S(4,68), S(4,56), S(4,34), S(4,31), S(4,34), S(4,31), S(4,35), S(4,30), S(4,31), S(4,35),
    S(4,51), S(4,35), S(4,34), S(4,70), S(4,68), S(4,34), S(4,39), S(4,284), S(4,34), S(4,104),
    S(4,34), S(4,47), S(4,80), C(5,4), S(5,31), S(5,34), S(5,19), S(5,31), S(5,31), S(5,34),
    S(5,31), S(5,34), S(5,61), S(5,96), S(5,121), S(5,64), S(5,290), K(5,5), C(t0,5), C(t1,t0),
    K(6,6), S(7,1119), C(t0,7)>>

CordBenchmark1_3 ==
  <<C(t1,t0), K(8,7), C(t0,8), S(9,274), K(9,8), C(t0,9), C(t1,t0), K(t1,9), P(t1), Q(t1,9),
    A(t1,104), C(t0,t1), K(t0,10), P(t0), A(t0,202), C(t1,t0), Q(t1,10), K(t1,11), A(t1,890),
    P(t1), C(t0,t1), K(10,12), S(11,190), C(12,11), K(13,13), C(14,13), K(15,14), S(15,31),
    S(15,31), S(15,31), S(15,34), S(15,43), S(15,35), S(15,33), S(15,34), S(15,30), S(15,31),
    S(15,33), S(15,73), S(15,70), S(15,56), S(15,51), S(15,36), S(15,34), S(15,31), S(15,86),
    S(15,47), S(15,34), S(15,83), S(15,111), S(15,72), S(15,65), S(15,34), S(15,34), S(15,91),
    S(15,101)>>

CordBenchmark1_4 ==
  <<S(15,42), S(15,31), S(15,81), S(16,129), C(17,16), S(17,50), S(17,28), S(17,34), S(17,34),
    S(17,44), S(17,31), S(17,111), S(17,31), S(17,39), S(17,156), S(17,34), S(17,73), S(17,78),
    S(17,31), S(17,41), S(17,73), S(17,32), S(17,18), S(17,31), S(17,31), S(17,46), S(17,63),
    S(17,64), S(17,32), S(17,39), S(17,31), S(17,33), S(17,30), S(17,58), S(17,20), S(17,33),
    S(17,21), S(17,30), S(17,34), S(17,111), S(17,31), S(17,34), S(17,32), S(17,34), S(17,51),
    S(17,46), S(17,74), S(17,31), S(17,31), S(17,34), S(17,56), S(17,34), S(17,34), S(17,47),
    S(17,46), S(17,41), S(17,31), S(17,31), S(17,74), S(17,34), S(17,61)>>

CordBenchmark1_5 ==
  <<S(17,31), S(17,50), S(17,283), S(17,31), S(17,31), S(17,52), S(17,31), S(17,31), S(17,56),
    S(17,31), S(17,31), S(17,73), K(18,15), C(19,18), S(20,80), K(20,16), A(20,104), C(t0,20),
    P(t0), K(t0,17), P(t0), Q(t0,17), A(t0,1231), A(t0,24), P(t0), Q(t0,17), P(t0), Q(t0,17),
    C(t1,t0), K(t1,18), C(t0,t1), C(t1,t0), K(t1,19), C(t0,t1), C(t1,t0), K(21,20), S(22,66),
    M(23,22), K(23,21), C(t0,23), C(t1,t0), K(24,22), C(t0,24), S(25,77), K(26,23), S(27,90),
    C(28,27), K(28,24), P(28), A(28,460), Q(28,24), A(28,34), C(t0,28)>>

CordBenchmark1_6 ==
  <<K(29,25), C(t0,29), S(30,109), K(31,26), C(t0,31), S(32,30), K(33,27), S(34,113), C(t0,34),
    K(35,28), A(35,117), P(35), C(36,35), K(37,29), S(38,67), C(t0,38), K(39,30), S(40,94),
    K(41,31), C(42,41), S(43,74), K(44,32), Q(44,32), A(44,434), C(45,44), K(45,33), Q(45,33),
    P(45), A(45,1841), C(t0,45), A(t0,28), P(t0), Q(t0,33), Q(t0,33), K(t0,34), C(t1,t0),
    C(t0,t1), K(46,35), S(47,1203), C(t0,47), K(t0,36), C(t1,t0), S(t1,30), K(t1,37), C(t0,t1),
    C(t1,t0), K(t1,38), C(t0,t1), A(t0,198), P(t0), Q(t0,38), K(t0,39), P(t0), A(t0,848), P(t0),
    P(t0), C(t1,t0), Q(t1,39), K(48,40), C(t0,48)>>

CordBenchmark1_7 ==
  <<S(49,66), K(49,41), C(t0,49), C(t1,t0), K(t1,42), Q(t1,42), A(t1,1274), C(t0,t1), P(t0),
    P(t0), K(t0,43), A(t0,219), Q(t0,43), C(t1,t0), K(t1,44), C(t0,t1), C(t1,t0), K(t1,45),
    A(t1,19), Q(t1,45), C(t0,t1), A(t0,396), Q(t0,45), S(t0,156), K(50,47), S(51,61), C(52,51),
    K(52,48), C(t0,52), C(t1,t0), K(53,49), C(t0,53), S(54,1101), K(54,50), C(t0,54), C(t1,t0),
    K(t1,51), C(t0,t1), C(t1,t0), K(t1,52), Q(t1,52), P(t1), A(t1,398), P(t1), Q(t1,52),
    A(t1,422), C(t0,t1)>>

CordBenchmark1 ==
  CordBenchmark1_1 \o CordBenchmark1_2 \o CordBenchmark1_3
    \o CordBenchmark1_4 \o CordBenchmark1_5 \o CordBenchmark1_6
    \o CordBenchmark1_7

CordBenchmark2Setup_1 ==
  <<A(0,61), A(1,61), A(3,76), A(4,43), A(5,61), A(6,61), A(7,61), A(8,61), A(11,46), A(15,61),
    A(17,61), A(19,61), A(20,61), A(22,51), A(24,61), A(25,61), A(26,54), A(28,61), A(29,19),
    A(30,19), A(31,61), A(33,61), A(35,61), A(37,27), A(38,27), A(39,36), A(41,61), A(42,61),
    A(44,164), A(45,61), A(46,61), A(47,461), A(49,61), A(50,61), A(52,61), A(55,61), A(56,72),
    A(60,61), A(62,61), A(64,36), A(65,61), A(67,61), A(69,61), A(70,51), A(71,51), A(72,41),
    A(74,61), A(76,61), A(79,61), A(83,33), A(86,36), A(87,61), A(89,51), A(92,510), A(93,61)>>

CordBenchmark2Setup_2 ==
  <<A(94,51), A(97,51), A(98,57), A(99,61)>>

CordBenchmark2Setup ==
  CordBenchmark2Setup_1 \o CordBenchmark2Setup_2

CordBenchmark2_1 ==
  <<S(0,0), S(t0,0), S(t1,0), K(0,0), S(0,53), C(t0,0), K(t0,1), C(t1,t0), S(t1,57), S(t1,58),
    K(1,3), S(2,58), K(3,4), P(3), A(3,30), Q(3,4), K(3,5), S(3,34), C(t0,3), K(t0,6), C(t1,t0),
    S(t1,71), K(t1,7), C(t0,t1), S(t0,31), K(t0,8), S(t0,50), C(t1,t0), S(t1,34), S(t1,50),
    K(t1,11), A(t1,716), S(4,0), A(4,41), S(5,0), A(5,41), S(5,31), K(5,15), C(t0,5), S(t0,42),
    S(t0,42), K(t0,17), C(t1,t0), S(t1,58), S(t1,70), K(t1,19), C(t0,t1), S(t0,31), K(t0,20),
    C(t1,t0), S(t1,70), S(t1,42), K(6,22), C(t0,6), C(7,t0), S(7,45), C(t0,7), S(t0,34),
    K(t0,24)>>

CordBenchmark2_2 ==
  <<S(t0,70), C(t1,t0), K(t1,25), C(t0,t1), S(t0,55), K(t0,26), P(t0), Q(t0,26), A(t0,18),
    S(t0,70), K(t0,28), S(t0,31), C(t1,t0), K(8,29), P(8), Q(8,29), A(8,26), Q(8,29), S(8,31),
    K(9,30), Q(9,30), A(9,27), S(9,34), P(9), K(9,31), C(t0,9), S(t0,58), S(t0,20), K(t0,33),
    S(t0,33), C(t1,t0), S(10,0), A(10,17), K(10,35), S(10,34), C(t0,10), S(t0,71), K(t0,37),
    P(t0), A(t0,538), P(t0), Q(t0,37), K(t0,38), P(t0), Q(t0,38), A(t0,239), P(t0), K(t0,39),
    Q(t0,39), Q(t0,39), A(t0,32), P(t0), S(t0,53), K(t0,41), S(t0,44), C(t1,t0), K(t1,42),
    S(t1,34), C(t0,t1), S(11,118), K(12,44), C(t0,12), M(13,t0), K(13,45), S(13,31), C(t0,13),
    K(14,46), S(14,50), M(15,14)>>

CordBenchmark2_3 ==
  <<C(16,15), C(t0,16), C(t1,t0), K(t1,47), A(t1,804), Q(t1,47), P(t1), S(17,0), A(17,23),
    K(17,49), C(t0,17), S(t0,34), K(t0,50), S(t0,39), C(t1,t0), S(t1,39), K(18,52), C(19,18),
    C(t0,19), C(t1,t0), S(t1,31), S(t1,53), S(t1,39), K(t1,55), S(t1,31), C(t0,t1), K(20,56),
    S(21,124), S(22,0), A(22,45), S(22,23), S(22,50), K(22,60), C(t0,22), S(t0,33), S(t0,39),
    K(t0,62), S(t0,31), C(t1,t0), S(t1,31), K(t1,64), A(t1,41), Q(t1,64), P(t1), K(t1,65),
    C(t0,t1), S(t0,138), S(23,0), A(23,41), K(23,67), S(23,23), C(t0,23), S(24,0), A(24,2021),
    K(24,69), C(t0,24), S(t0,71), K(25,70), C(t0,25), C(26,t0)>>

CordBenchmark2_4 ==
  <<M(27,26), M(28,27), C(t0,28), S(t0,42), C(29,t0), K(30,71), C(t0,30), C(t1,t0), S(t1,39),
    K(31,72), P(31), P(31), Q(31,72), A(31,635), S(31,45), K(31,74), C(t0,31), S(t0,31),
    S(32,0), A(32,608), K(32,76), S(32,42), C(t0,32), S(t0,34), S(t0,50), K(t0,79), C(t1,t0),
    S(t1,42), S(t1,50), S(t1,44), S(t1,58), K(33,83), S(33,53), Q(33,83), A(33,41), S(33,57),
    S(34,0), A(34,685), K(34,86), A(34,42), P(34), K(34,87), S(34,33), C(t0,34), S(t0,42),
    K(t0,89), S(t0,31), C(t1,t0), S(35,124), S(35,34), K(35,92), Q(35,92), P(35), A(35,194),
    K(35,93), S(35,53), C(t0,35), K(36,94), S(36,33), C(t0,36), C(t1,t0), S(t1,57), S(t1,34),
    K(t1,97), C(t0,t1), S(t0,56), K(37,98), S(38,101), K(38,99)>>

CordBenchmark2_5 ==
  <<S(38,31), C(t0,38)>>

CordBenchmark2 ==
  CordBenchmark2_1 \o CordBenchmark2_2 \o CordBenchmark2_3
    \o CordBenchmark2_4 \o CordBenchmark2_5

CordBenchmark3Setup ==
  <<A(0,11), A(1,205), A(2,37), A(3,31), A(4,6), A(5,41), A(6,14), A(7,5), A(8,889), A(9,219),
    A(10,31), A(11,270), A(12,778), A(13,12), A(14,39), A(15,33), A(16,10), A(17,1015),
    A(18,39), A(19,13), A(21,979), A(22,983), A(23,30), A(24,1), A(25,14), A(26,40), A(27,27),
    A(28,33), A(29,201), A(30,2), A(31,28), A(32,188), A(34,897), A(35,250), A(36,8), A(37,27),
    A(38,30), A(39,27), A(40,189), A(41,187), A(42,5), A(43,837), A(44,1), A(45,61), A(46,185),
    A(47,30), A(48,11), A(49,203), A(50,15), A(51,33), A(52,977), A(53,683), A(54,0), A(55,225),
    A(56,29)>>

CordBenchmark3_1 ==
  <<S(0,0), S(t0,0), S(t1,0), K(1,0), M(2,1), M(3,2), Q(3,0), P(3), A(3,47), C(t0,3), M(4,t0),
    K(5,1), C(t0,5), S(t0,50), C(6,t0), M(7,6), C(8,7), K(9,2), C(10,9), C(t0,10), C(11,t0),
    M(12,11), S(12,64), K(13,3), M(14,13), M(15,14), S(15,35), C(t0,15), C(16,t0), K(17,4),
    C(18,17), C(19,18), M(20,19), C(t0,20), S(t0,64), K(21,5), S(21,85), C(22,21), C(23,22),
    C(t0,23), M(24,t0), K(25,6), C(t0,25), M(26,t0), C(27,26), M(28,27), S(28,33)>>

CordBenchmark3_2 ==
  <<K(29,7), C(t0,29), C(30,t0), S(30,33), C(31,30), M(32,31), K(33,8), M(34,33), C(35,34),
    P(35), A(35,42), Q(35,8), C(36,35), C(t0,36), K(37,9), M(38,37), C(t0,38), S(t0,33),
    M(39,t0), M(40,39), K(41,10), M(42,41), C(43,42), M(44,43), C(t0,44), S(t0,35), K(45,11),
    C(46,45), S(46,166), C(t0,46), C(47,t0), C(48,47), K(49,12), A(49,19), Q(49,12), M(50,49),
    C(51,50), C(52,51), C(t0,52), K(53,13), S(53,50), C(t0,53), M(54,t0), C(55,54), C(56,55),
    K(57,14), C(58,57)>>

CordBenchmark3_3 ==
  <<C(t0,58), C(59,t0), S(59,35), M(60,59), K(61,15), C(t0,61), M(62,t0), M(63,62), S(63,35),
    M(64,63), K(65,16), S(66,49), K(67,17), A(67,50), P(67), P(67), C(t0,67), C(68,t0),
    C(69,68), M(70,69), K(71,18), C(72,71), S(72,64), C(t0,72), C(73,t0), C(74,73), K(75,19),
    C(t0,75), S(t0,35), M(76,t0), C(77,76), M(78,77), S(79,0), A(79,43), K(80,21), A(80,34),
    C(t0,80), M(81,t0), M(82,81), Q(82,21), M(83,82), P(83), K(84,22), M(85,84), M(86,85),
    M(87,86)>>

CordBenchmark3_4 ==
  <<Q(87,22), A(87,33), C(t0,87), P(t0), K(88,23), S(88,33), C(t0,88), M(89,t0), M(90,89),
    M(91,90), K(92,24), M(93,92), M(94,93), S(94,33), M(95,94), C(t0,95), K(96,25), S(97,49),
    K(98,26), S(99,49), K(100,27), S(101,49), K(102,28), S(102,167), M(103,102), C(104,103),
    C(t0,104), M(105,t0), K(106,29), S(106,64), C(t0,106), C(107,t0), C(108,107), C(109,108),
    K(110,30), S(111,49), K(112,31), S(112,33), C(t0,112), M(113,t0), C(114,113), M(115,114),
    K(116,32), C(117,116), S(117,50), C(t0,117), M(118,t0), C(119,118)>>

CordBenchmark3_5 ==
  <<S(120,0), A(120,38), K(121,34), Q(121,34), P(121), A(121,27), C(122,121), M(123,122),
    C(t0,123), C(124,t0), K(125,35), M(126,125), M(127,126), M(128,127), S(128,33), C(t0,128),
    K(129,36), S(129,90), M(130,129), C(t0,130), C(131,t0), C(132,131), K(133,37), M(134,133),
    C(135,134), C(t0,135), S(t0,166), M(136,t0), K(137,38), C(t0,137), M(138,t0), C(139,138),
    S(139,64), C(140,139), K(141,39), M(142,141), S(142,90), C(t0,142), M(143,t0), M(144,143),
    K(145,40), C(146,145), S(146,64), M(147,146), M(148,147)>>

CordBenchmark3_6 ==
  <<C(t0,148), K(149,41), C(t0,149), M(150,t0), S(150,85), M(151,150), C(152,151), K(153,42),
    C(t0,153), M(154,t0), S(154,33), M(155,154), M(156,155), K(157,43), P(157), Q(157,43),
    C(t0,157), M(158,t0), M(159,158), M(160,159), A(160,41), K(161,44), S(162,49), K(163,45),
    M(164,163), C(165,164), C(166,165), C(t0,166), S(t0,50), K(167,46), C(168,167), C(169,168),
    C(t0,169), S(t0,31), M(170,t0), K(171,47), C(t0,171), C(172,t0), S(172,90), C(173,172),
    C(174,173), K(175,48), S(176,49), K(177,49), S(178,49), K(179,50)>>

CordBenchmark3_7 ==
  <<M(180,179), C(181,180), C(182,181), C(t0,182), S(t0,35), K(183,51), M(184,183), M(185,184),
    M(186,185), C(t0,186), S(t0,64), K(187,52), M(188,187), Q(188,52), P(188), A(188,35),
    C(189,188), C(t0,189), C(190,t0), K(191,53), A(191,18), C(t0,191), C(192,t0), Q(192,53),
    M(193,192), P(193), Q(193,53), M(194,193), K(195,54), M(196,195), C(t0,196), M(197,t0),
    M(198,197), S(198,41), K(199,55), C(200,199), C(t0,200), M(201,t0), S(201,35), C(202,201),
    K(203,56), M(204,203), S(204,18), C(t0,204), C(205,t0), M(206,205)>>

CordBenchmark3 ==
  CordBenchmark3_1 \o CordBenchmark3_2 \o CordBenchmark3_3
    \o CordBenchmark3_4 \o CordBenchmark3_5 \o CordBenchmark3_6
    \o CordBenchmark3_7

CordBenchmark4Setup_1 ==
  <<A(0,225), A(1,61), A(4,94), A(5,54), A(6,11), A(7,84), A(10,61), A(13,87), A(14,107),
    A(16,5), A(18,61), A(19,16), A(20,8), A(21,50), A(22,32), A(26,86), A(28,164), A(30,17),
    A(31,61), A(32,126), A(35,1), A(36,8), A(39,8), A(44,14), A(46,114), A(47,321), A(49,61),
    A(50,19), A(55,7), A(59,61), A(61,51), A(63,102), A(65,96), A(67,155), A(69,7), A(70,61),
    A(73,82), A(74,55), A(76,107), A(77,5), A(78,130), A(79,20), X(80,4119), R(80,1), A(81,57),
    A(84,0), A(86,61), A(87,59), A(90,61)>>

CordBenchmark4Setup_2 ==
  <<A(93,207), A(94,61), A(96,43), A(97,17), A(97,2), A(98,13), A(99,61)>>

CordBenchmark4Setup ==
  CordBenchmark4Setup_1 \o CordBenchmark4Setup_2

CordBenchmark4_1 ==
  <<S(0,0), S(t0,0), S(t1,0), K(1,0), S(2,118), K(2,1), C(t0,2), S(t0,25), S(3,75), S(4,7),
    K(5,4), S(6,189), K(7,5), S(8,189), K(9,6), S(10,68), K(11,7), S(12,100), S(13,98),
    S(14,49), K(14,10), C(t0,14), S(t0,49), S(t0,25), S(15,101), K(16,13), S(17,88), K(17,14),
    S(17,144), C(t0,17), S(18,127), K(18,16), C(t0,18), S(t0,433), S(19,110), K(19,18),
    S(19,21), C(t0,19), K(20,19), S(21,204), K(21,20), C(t0,21), S(t0,18), K(22,21), S(23,185),
    K(24,22), S(25,80), S(26,18), S(27,94), S(28,0), A(28,9), K(29,26), S(30,47), S(31,95),
    K(31,28), A(31,818), P(31), S(32,121), K(33,30), S(34,114), K(34,31), C(t0,34), S(t0,51),
    K(35,32), S(36,60), S(37,61), S(38,85), K(39,35)>>

CordBenchmark4_2 ==
  <<S(39,43), K(40,36), S(41,77), S(42,55), S(43,100), K(43,39), C(t0,43), S(t0,23), S(44,109),
    S(45,103), S(46,4), S(46,18), K(47,44), S(48,86), S(49,35), K(50,46), S(51,107), K(51,47),
    P(51), Q(51,47), A(51,657), S(52,91), K(52,49), C(t0,52), S(t0,160), K(53,50), A(53,718),
    M(54,53), Q(54,50), M(55,54), P(55), C(56,55), M(57,56), S(58,155), S(59,197), S(60,105),
    S(61,3), K(61,55), S(61,33), C(t0,61), S(62,153), S(63,150), S(64,80), K(64,59), C(t0,64),
    S(t0,36), S(65,137), K(65,61), S(65,74), C(t0,65), S(66,151), K(67,63), S(68,135),
    S(69,139), K(70,65), S(71,18), S(72,80), K(73,67), S(74,112), S(75,99), K(75,69), C(t0,75),
    S(t0,46), K(t0,70), C(t1,t0), S(t1,315), S(76,86), S(77,107), K(78,73), S(79,70)>>

CordBenchmark4_3 ==
  <<K(80,74), S(81,119), S(82,57), K(82,76), C(t0,82), S(t0,64), K(t0,77), C(t1,t0), S(t1,192),
    K(83,78), S(84,63), K(85,79), S(86,98), K(86,80), K(87,81), S(88,17), S(89,47), S(90,0),
    A(90,2488), K(91,84), S(92,102), S(93,57), K(93,86), S(93,39), C(t0,93), K(94,87), S(95,40),
    S(96,17), S(97,67), K(97,90), S(97,63), C(t0,97), S(t0,42), S(98,57), K(99,93), S(100,96),
    K(101,94), C(t0,101), S(t0,160), C(t1,t0), S(102,0), A(102,1556), K(102,96), S(102,31),
    C(t0,102), C(103,t0), K(104,97), M(105,104), M(106,105), C(107,106), C(108,107), C(109,108),
    M(110,109), C(111,110), C(112,111), C(113,112), M(114,113), M(115,114), M(116,115),
    S(117,58), P(117)>>

CordBenchmark4_4 ==
  <<C(118,117), C(119,118), C(t0,119), M(120,t0), A(120,1109), K(120,98), S(120,40), C(t0,120),
    K(t0,99), S(t0,49), C(t1,t0)>>

CordBenchmark4 ==
  CordBenchmark4_1 \o CordBenchmark4_2 \o CordBenchmark4_3 \o CordBenchmark4_4

CordBenchmark5Setup_1 ==
  <<A(0,438), A(1,418), A(2,120), A(3,28), A(4,418), A(5,418), A(6,18), X(7,1408), X(8,375),
    A(9,418), A(10,28), A(11,33), A(12,44), A(13,25), A(14,132), A(15,45), A(16,418), A(17,42),
    A(18,26), A(20,36), A(21,64), A(22,29), A(23,36), A(25,368), A(26,164), A(27,418), A(28,40),
    A(29,360), A(30,36), X(31,1481), A(34,27), A(36,47), A(37,418), A(39,57), A(40,71),
    A(41,22), A(42,44), A(43,60), A(44,418), A(45,48), A(46,128), A(47,38), A(48,418), A(49,23),
    A(51,435), A(52,422), A(53,75), A(55,36), A(57,399), A(58,54), A(59,418), A(60,70),
    A(61,48), A(62,142), A(64,36), A(65,52), A(67,56), A(68,27)>>

CordBenchmark5Setup_2 ==
  <<A(69,69), A(70,133), A(71,371), A(72,49), A(73,70), A(74,416), A(75,41), A(76,37),
    A(77,375), A(78,129), A(79,70), A(80,56), A(82,418)>>

CordBenchmark5Setup ==
  CordBenchmark5Setup_1 \o CordBenchmark5Setup_2

CordBenchmark5_1 ==
  <<S(0,0), S(t0,0), S(t1,0), K(0,0), C(t0,0), S(1,35), C(t0,1), C(t1,t0), C(t0,t1), C(t1,t0),
    C(t0,t1), K(t0,1), S(2,34), C(t0,2), C(t1,t0), C(t0,t1), K(t0,2), S(3,135), C(t0,3),
    C(t1,t0), K(t1,3), C(t0,t1), S(4,131), C(t0,4), K(t0,4), C(t1,t0), S(5,72), C(t0,5),
    C(t1,t0), C(t0,t1), K(t0,5), S(6,319), C(t0,6), C(t1,t0), K(7,6), S(8,111), C(9,8), K(10,7),
    K(11,8), K(11,9), S(12,127), C(t0,12), C(t1,t0), C(t0,t1), C(t1,t0)>>

CordBenchmark5_2 ==
  <<K(t1,10), C(t0,t1), S(13,42), C(t0,13), C(t1,t0), K(14,11), S(15,89), M(16,15), K(16,12),
    S(17,136), C(t0,17), C(t1,t0), K(18,13), S(19,55), M(20,19), K(20,14), C(t0,20), C(t1,t0),
    C(t0,t1), C(t1,t0), S(21,42), K(21,15), C(t0,21), S(22,138), C(t0,22), C(t1,t0), K(t1,16),
    C(t0,t1), C(t1,t0), S(23,304), K(24,17), C(25,24), S(26,91), K(27,18), C(28,27), S(29,303),
    S(30,219), K(30,20), C(t0,30), C(t1,t0), S(31,102), C(t0,31), C(t1,t0), C(t0,t1)>>

CordBenchmark5_3 ==
  <<K(32,21), S(33,28), C(34,33), K(35,22), C(36,35), S(37,256), K(38,23), S(39,70), C(40,39),
    S(41,1100), K(41,25), C(t0,41), C(t1,t0), S(42,60), C(t0,42), K(t0,26), C(t1,t0), C(t0,t1),
    S(43,60), C(t0,43), K(t0,27), C(t1,t0), S(44,173), K(45,28), S(46,211), C(47,46), K(47,29),
    S(48,154), C(t0,48), C(t1,t0), K(t1,30), C(t0,t1), C(t1,t0), S(49,62), C(t0,49), K(50,31),
    S(51,50), S(52,190), K(53,34), S(54,87), C(55,54), S(56,37), K(56,36), C(t0,56), S(57,569),
    C(t0,57), K(t0,37), C(t1,t0), C(t0,t1), S(58,205)>>

CordBenchmark5_4 ==
  <<C(t0,58), S(59,33), K(59,39), C(t0,59), C(t1,t0), C(t0,t1), S(60,29), K(61,40), C(62,61),
    C(t0,62), S(t0,34), K(63,41), C(64,63), S(65,1381), K(65,42), C(t0,65), C(t1,t0), S(66,112),
    K(66,43), C(t0,66), S(67,249), C(t0,67), C(t1,t0), K(t1,44), C(t0,t1), C(t1,t0), S(68,18),
    C(t0,68), C(t1,t0), K(69,45), C(70,69), S(71,434), K(71,46), S(72,41), C(t0,72), C(t1,t0),
    K(73,47), M(74,73), S(75,31)>>

CordBenchmark5_5 ==
  <<K(75,48), C(t0,75), S(76,40), C(t0,76), K(77,49), S(78,93), C(79,78), S(80,288), K(80,51),
    S(81,89), C(t0,81), K(t0,52), C(t1,t0), C(t0,t1), C(t1,t0), C(t0,t1), S(82,140), C(t0,82),
    K(83,53), C(84,83), S(85,101), S(86,115), K(86,55), C(t0,86), C(t1,t0), C(t0,t1), S(87,146),
    S(88,155), K(88,57), C(t0,88), C(t1,t0), S(89,29), C(t0,89), C(t1,t0), K(t1,58), C(t0,t1),
    S(90,81), C(t0,90), K(t0,59), C(t1,t0), S(91,109), K(91,60), C(t0,91), C(t1,t0), S(92,88),
    C(t0,92), K(93,61), C(94,93), S(95,173), K(95,62)>>

CordBenchmark5_6 ==
  <<C(t0,95), C(t1,t0), C(t0,t1), S(96,58), C(t0,96), S(97,58), K(97,64), C(t0,97), C(t1,t0),
    S(98,55), K(98,65), S(99,344), C(t0,99), C(t1,t0), S(100,29), K(101,67), S(102,60),
    C(103,102), K(104,68), C(105,104), S(106,466), K(106,69), C(t0,106), C(t1,t0), S(107,59),
    C(t0,107), K(t0,70), C(t1,t0), S(108,34), C(t0,108), K(t0,71), C(t1,t0), C(t0,t1), C(t1,t0),
    C(t0,t1), S(109,34), C(t0,109), C(t1,t0), K(t1,72), S(110,30), C(t0,110), C(t1,t0),
    K(t1,73), S(111,185), C(t0,111)>>

CordBenchmark5_7 ==
  <<C(t1,t0), K(t1,74), C(t0,t1), S(112,29), K(113,75), S(114,43), C(115,114), K(115,76),
    S(116,37), C(t0,116), C(t1,t0), C(t0,t1), K(t0,77), S(117,79), C(t0,117), C(t1,t0),
    C(t0,t1), C(t1,t0), C(t0,t1), C(t1,t0), K(t1,78), C(t0,t1), S(118,70), K(119,79),
    S(120,158), C(121,120), K(122,80), S(123,135), C(124,123), S(125,41), K(125,82), S(126,213),
    C(t0,126), C(t1,t0), C(t0,t1)>>

CordBenchmark5 ==
  CordBenchmark5_1 \o CordBenchmark5_2 \o CordBenchmark5_3
    \o CordBenchmark5_4 \o CordBenchmark5_5 \o CordBenchmark5_6
    \o CordBenchmark5_7

CordBenchmark6Setup_1 ==
  <<A(0,103), A(2,127), A(3,48), A(4,124), A(5,127), A(7,306), A(8,128), A(11,163), A(13,158),
    A(14,127), A(16,56), A(20,60), A(21,122), A(22,1257), A(23,89), A(24,43), A(26,42),
    A(27,50), A(28,144), A(29,128), A(32,170), A(33,66), A(35,85), A(36,95), A(37,66), A(42,76),
    A(43,68), A(46,101), A(49,45), A(50,108), A(51,120), A(52,135), A(53,558), A(55,55),
    A(56,107), A(58,127), A(59,71), A(64,57), A(71,127), A(72,79), X(74,153), A(83,50),
    A(84,152), A(85,20), A(87,86), A(89,85), A(90,88), A(92,61)>>

CordBenchmark6Setup_2 ==
  <<A(95,96), A(96,55), A(98,93)>>

CordBenchmark6Setup ==
  CordBenchmark6Setup_1 \o CordBenchmark6Setup_2

CordBenchmark6_1 ==
  <<S(0,0), S(t0,0), S(t1,0), K(1,0), S(2,104), S(3,96), K(4,2), S(5,82), K(6,3), S(7,127),
    K(8,4), S(9,73), K(10,5), S(11,138), S(12,107), K(12,7), A(12,28), P(12), Q(12,7), K(13,8),
    S(14,114), S(15,122), S(15,39), K(16,11), S(17,60), S(18,134), K(18,13), Q(18,13), P(18),
    P(18), A(18,17), K(19,14), S(20,91), S(21,96), K(22,16), S(23,77), S(24,73), S(25,88),
    S(26,91), K(27,20), S(28,161), K(29,21), S(30,117), K(31,22), S(32,45), K(33,23), S(34,71),
    K(35,24), S(36,182), S(37,125), K(38,26), S(39,102), K(40,27), S(41,137), K(42,28),
    S(43,118), K(44,29), S(45,113), S(46,103), S(47,137), K(48,32), S(49,187), K(50,33),
    S(51,131), S(52,115), K(53,35), S(54,57), K(55,36), S(56,149), K(57,37), S(58,85), S(59,95),
    S(60,79), S(61,124), S(62,92)>>

CordBenchmark6_2 ==
  <<K(63,42), S(64,101), K(65,43), S(66,116), S(67,152), S(68,170), K(69,46), S(70,142),
    S(71,44), S(72,11), K(73,49), A(73,1446), Q(73,49), S(73,53), P(73), K(74,50), S(75,27),
    K(76,51), S(77,62), K(78,52), S(79,97), K(79,53), P(79), A(79,28), S(79,38), K(80,55),
    S(81,114), K(82,56), S(83,105), S(84,59), K(85,58), S(86,122), K(87,59), S(88,65), S(89,54),
    S(90,73), S(91,118), S(92,123), K(93,64), S(94,137), S(95,103), S(96,66), S(97,137),
    S(98,60), S(99,124), S(100,55), K(101,71), S(102,123), K(103,72), S(104,92), S(105,35),
    K(106,74), M(107,106), S(108,0), A(108,28), S(109,79), S(110,112), S(111,159), S(112,161),
    S(113,72), S(114,117), S(115,135), K(116,83), S(117,123), K(118,84), S(119,138), K(119,85),
    A(119,28), P(119), Q(119,85), S(120,127), K(121,87), S(122,129), S(123,173), K(124,89),
    S(125,127), K(126,90), S(127,72), S(128,98), K(128,92)>>

CordBenchmark6_3 ==
  <<C(t0,128), S(t0,41), S(129,185), S(130,100), K(130,95), C(t0,130), A(t0,20), Q(t0,95),
    K(131,96), S(132,110), S(133,58), K(134,98), S(135,129), S(136,75)>>

CordBenchmark6 ==
  CordBenchmark6_1 \o CordBenchmark6_2 \o CordBenchmark6_3

CordBenchmark7Setup_1 ==
  <<A(0,18), A(1,15), A(2,67), A(3,17), A(5,61), A(6,17), A(7,9), A(8,13), A(9,17), A(10,17),
    A(11,18), A(12,61), A(13,16), A(14,17), A(15,18), A(16,18), A(17,158), A(19,51), A(20,66),
    A(22,18), A(23,17), A(24,17), X(25,1246), A(26,17), A(27,61), A(28,77), A(29,61), A(30,6),
    A(31,48), A(32,61), A(33,61), A(34,10), A(35,18), A(36,0), A(37,61), A(38,18), A(39,2),
    A(40,17), A(41,135), A(42,18), A(43,4), A(44,61), A(45,61), A(46,61), A(47,18), A(48,9),
    A(49,61), A(50,61), A(51,61), A(52,61), A(53,1), A(54,61), A(55,11), A(56,10), A(57,17),
    A(58,10), A(59,61), A(60,13), A(61,61), A(62,18), A(63,61), A(64,18), A(65,17), A(66,17),
    A(67,61), A(68,61), A(69,17), A(70,61), A(71,7)>>

CordBenchmark7Setup_2 ==
  <<A(72,69), A(73,4), A(74,18), A(75,68), A(76,17), A(77,61), A(78,18), A(79,17), A(80,61),
    A(81,18), A(82,8), A(83,18), A(84,61), A(85,17), A(86,61), A(87,18), A(88,18), A(89,17),
    A(90,61), A(91,61), A(92,549), A(93,61), A(94,61), A(95,61), A(97,51), A(98,66), A(99,18)>>

CordBenchmark7Setup ==
  CordBenchmark7Setup_1 \o CordBenchmark7Setup_2

CordBenchmark7_1 ==
  <<S(0,0), S(t0,0), S(t1,0), K(0,0), S(1,16), K(1,1), C(t0,1), S(t0,63), K(2,2), S(3,19),
    C(4,3), K(4,3), S(5,16), S(6,0), A(6,141), K(6,5), C(t0,6), S(t0,26), K(t0,6), S(7,17),
    K(7,7), S(8,155), K(8,8), S(8,53), C(t0,8), K(t0,9), S(9,32), K(9,10), S(10,16), K(10,11),
    S(11,18), K(11,12), C(t0,11), S(t0,33), K(t0,13), S(12,18), K(12,14), S(13,23), K(13,15),
    S(14,74), K(14,16), S(15,96), K(16,17), P(16), C(17,16), C(18,17), P(18), C(19,18),
    A(19,72), C(20,19), Q(20,17), C(21,20), M(22,21), C(23,22), S(23,49), K(24,19), C(25,24),
    S(25,161), C(t0,25)>>

CordBenchmark7_2 ==
  <<C(t1,t0), K(26,20), C(27,26), S(28,18), S(29,0), A(29,37), K(29,22), S(30,17), K(30,23),
    S(31,25), K(31,24), S(32,29), K(33,25), C(34,33), K(34,26), S(35,24), K(35,27), C(t0,35),
    S(t0,72), K(36,28), S(36,27), K(36,29), C(t0,36), S(t0,53), K(t0,30), S(37,64), K(37,31),
    A(37,66), P(37), K(37,32), S(37,59), C(t0,37), K(t0,33), C(t1,t0), S(t1,60), K(t1,34),
    S(t1,73), C(t0,t1), K(t0,35), S(38,16), K(39,36), C(40,39), S(40,31), C(t0,40), C(t1,t0),
    K(41,37), S(41,31), C(t0,41), C(t1,t0), K(t1,38), S(42,110), K(43,39), C(44,43)>>

CordBenchmark7_3 ==
  <<C(t0,44), S(t0,56), C(45,t0), C(46,45), C(t0,46), K(t0,40), S(47,18), K(47,41), Q(47,41),
    Q(47,41), A(47,100), K(47,42), S(48,31), K(48,43), S(49,41), K(49,44), S(49,48), C(t0,49),
    K(t0,45), S(t0,16), C(t1,t0), K(t1,46), C(t0,t1), S(t0,21), K(t0,47), S(50,16), K(50,48),
    S(51,57), K(51,49), C(t0,51), S(t0,34), K(52,50), S(52,33), C(t0,52), C(t1,t0), K(t1,51),
    S(t1,38), C(t0,t1), K(t0,52), S(t0,132), C(t1,t0), K(t1,53), S(53,31), K(54,54), M(55,54),
    C(56,55), S(56,22), C(t0,56), C(t1,t0), C(57,t1)>>

CordBenchmark7_4 ==
  <<C(58,57), K(58,55), S(58,138), C(t0,58), K(t0,56), S(t0,56), C(t1,t0), K(t1,57), S(59,17),
    K(59,58), S(60,110), K(60,59), S(60,39), C(t0,60), K(61,60), S(61,57), K(61,61), C(t0,61),
    S(t0,39), K(t0,62), S(62,322), K(62,63), S(62,135), C(t0,62), K(t0,64), S(63,110), K(63,65),
    S(64,16), K(64,66), S(65,89), K(65,67), C(t0,65), S(t0,26), K(t0,68), C(t1,t0), S(t1,81),
    K(t1,69), S(66,16), K(66,70), S(66,24), C(t0,66), K(t0,71), S(67,288), K(67,72), K(67,73),
    S(68,64), K(68,74), S(69,204), K(70,75), S(71,35), C(72,71), K(72,76), S(73,34), K(73,77),
    C(t0,73)>>

CordBenchmark7_5 ==
  <<S(t0,27), K(t0,78), S(74,79), K(74,79), S(75,16), K(76,80), C(77,76), C(78,77), C(79,78),
    C(t0,79), S(t0,24), C(t1,t0), K(t1,81), S(80,62), K(81,82), C(82,81), C(83,82), C(84,83),
    S(84,84), K(84,83), S(85,19), K(85,84), S(85,19), C(t0,85), K(t0,85), K(t0,86), S(t0,38),
    C(t1,t0), K(t1,87), S(86,18), K(86,88), S(87,99), K(87,89), S(88,16), K(88,90), C(t0,88),
    S(t0,25), K(89,91), C(t0,89), C(t1,t0), S(t1,24), K(90,92), P(90), Q(90,92), A(90,166),
    C(91,90), C(92,91), K(92,93), S(92,68), C(t0,92), K(t0,94), S(t0,66), C(t1,t0)>>

CordBenchmark7_6 ==
  <<K(t1,95), S(t1,137), C(t0,t1), S(t0,134), K(93,97), C(t0,93), C(94,t0), S(94,50), C(t0,94),
    C(95,t0), K(96,98), C(97,96), C(98,97), S(99,37), K(99,99), S(100,16)>>

CordBenchmark7 ==
  CordBenchmark7_1 \o CordBenchmark7_2 \o CordBenchmark7_3
    \o CordBenchmark7_4 \o CordBenchmark7_5 \o CordBenchmark7_6

CordBenchmark8Setup_1 ==
  <<A(0,61), A(1,815), R(1,1), A(2,11), A(3,24), A(3,2), A(4,135), A(5,61), A(6,799), R(6,1),
    A(7,0), A(8,633), R(8,1), X(9,1491), R(9,1), A(10,544), R(10,1), A(11,3433), R(11,1),
    A(12,61), A(13,61), A(14,61), A(15,702), R(15,1), A(16,61), A(17,542), R(17,1), A(19,279),
    A(20,61), A(21,12), X(22,632), R(22,1), A(23,12), A(24,281), A(25,1880), R(25,1), A(26,61),
    A(27,61), A(28,61), A(29,967), R(29,1), A(30,7536), R(30,1), A(31,61), X(32,14801), R(32,1),
    X(32,512), R(32,1), A(33,6080), R(33,1), A(33,1011), R(33,1), A(34,1179), R(34,1), A(35,1),
    A(36,455), A(37,61), X(38,554), R(38,1), A(39,3777), R(39,1), A(39,1011), R(39,1),
    A(40,459), A(41,685), R(41,1), A(42,810), R(42,1), A(43,61)>>

CordBenchmark8Setup_2 ==
  <<A(44,1068), R(44,1), A(45,61), A(46,576), R(46,1), A(47,51), A(48,0), A(49,632), R(49,1),
    A(50,61), A(51,9677), R(51,1), A(51,1011), R(51,1), A(52,61), A(53,8), A(54,526), A(55,9),
    A(56,61), A(57,9), A(58,3), A(59,1065), R(59,1), A(60,954), R(60,1), A(61,645), R(61,1),
    A(62,6), A(63,1083), R(63,1), A(64,663), R(64,1), A(65,3), A(66,61), A(67,61), A(68,630),
    R(68,1), A(69,61), A(70,61), A(71,670), R(71,1), A(72,61), A(73,837), R(73,1), A(74,1011),
    R(74,1), A(74,449), R(74,1), A(75,704), R(75,1), A(76,686), R(76,1), A(77,61), A(78,51),
    A(79,123), R(79,1), A(79,251), A(79,591), A(80,61), A(81,61), A(82,532), R(82,1), A(83,61),
    A(84,61), A(85,61), A(86,11564), R(86,1), A(86,1011), R(86,1), X(86,512), A(87,10),
    A(88,686), R(88,1), A(89,10), A(90,6226), R(90,1), A(90,1011), R(90,1), A(91,12),
    X(92,1122), R(92,1)>>

CordBenchmark8Setup_3 ==
  <<X(92,512), R(92,1), A(93,718), R(93,1), A(94,6), A(95,3), A(96,279), A(97,1177), X(98,1821),
    R(98,1), A(99,61)>>

CordBenchmark8Setup ==
  CordBenchmark8Setup_1 \o CordBenchmark8Setup_2 \o CordBenchmark8Setup_3

CordBenchmark8_1 ==
  <<S(0,0), S(t0,0), S(t1,0), K(0,0), S(0,34), C(t0,0), K(1,1), C(2,1), C(t0,2), C(t1,t0),
    M(3,t1), K(4,2), C(t0,4), C(t1,t0), K(5,3), C(t0,5), P(t0), M(6,t0), C(t0,6), Q(t0,3),
    S(t0,31), C(7,t0), A(7,396), K(7,4), A(7,227), Q(7,4), K(7,5), S(7,36), C(t0,7), K(8,6),
    C(9,8), C(10,9), C(t0,10), C(t1,t0), K(t1,7), C(t0,t1), S(t0,28), K(11,8), C(t0,11),
    K(12,9), C(t0,12), K(13,10), C(t0,13), K(14,11), C(t0,14), K(t0,12), S(t0,35), C(t1,t0),
    K(t1,13), C(t0,t1), S(t0,46), K(t0,14), S(t0,44), C(t1,t0)>>

CordBenchmark8_2 ==
  <<K(15,15), C(t0,15), C(16,t0), C(t0,16), M(17,t0), K(17,16), S(17,38), C(t0,17), K(18,17),
    C(t0,18), S(19,719), K(20,19), C(t0,20), S(t0,28), C(t1,t0), C(21,t1), C(22,21), K(22,20),
    C(t0,22), S(t0,32), K(23,21), C(t0,23), C(24,t0), C(25,24), C(t0,25), K(26,22), C(t0,26),
    K(27,23), C(t0,27), K(28,24), C(29,28), C(30,29), C(t0,30), S(t0,50), C(t1,t0), K(31,25),
    C(t0,31), K(t0,26), C(t1,t0), S(t1,32), K(t1,27), C(t0,t1), S(t0,42), K(t0,28), C(t1,t0),
    S(t1,52), K(32,29), C(t0,32)>>

CordBenchmark8_3 ==
  <<K(33,30), C(t0,33), K(t0,31), S(t0,35), C(t1,t0), K(34,32), C(t0,34), K(35,33), C(t0,35),
    K(36,34), C(t0,36), K(37,35), C(38,37), C(t0,38), M(39,t0), C(t0,39), K(40,36), M(41,40),
    C(t0,41), C(42,t0), S(42,37), C(t0,42), M(43,t0), K(43,37), S(43,28), C(t0,43), K(44,38),
    C(t0,44), K(45,39), C(t0,45), K(46,40), C(t0,46), C(47,t0), C(t0,47), S(t0,31), M(48,t0),
    K(49,41), C(50,49), C(t0,50), M(51,t0), C(t0,51), K(52,42), C(t0,52), K(t0,43), C(t1,t0),
    S(t1,36)>>

CordBenchmark8_4 ==
  <<K(53,44), C(54,53), C(55,54), C(t0,55), C(t1,t0), K(t1,45), C(t0,t1), S(t0,33), K(56,46),
    C(t0,56), K(t0,47), C(t1,t0), S(t1,36), K(57,48), C(t0,57), C(58,t0), C(t0,58), C(59,t0),
    K(60,49), C(61,60), C(t0,61), C(t1,t0), C(62,t1), K(62,50), S(62,53), C(t0,62), K(63,51),
    C(t0,63), K(t0,52), S(t0,30), C(t1,t0), K(t1,53), K(64,54), C(t0,64), C(t1,t0), K(t1,55),
    C(t0,t1), S(t0,34), K(t0,56), S(t0,36), C(t1,t0), K(65,57), C(66,65), C(t0,66), C(t1,t0),
    C(67,t1), K(67,58), C(t0,67)>>

CordBenchmark8_5 ==
  <<S(t0,36), K(68,59), C(69,68), C(70,69), C(t0,70), C(t1,t0), C(71,t1), K(72,60), M(73,72),
    C(t0,73), C(t1,t0), C(74,t1), K(75,61), C(76,75), C(t0,76), M(77,t0), C(t0,77), K(t0,62),
    S(t0,35), C(t1,t0), K(78,63), C(t0,78), K(79,64), C(t0,79), M(80,t0), C(t0,80), C(81,t0),
    K(82,65), C(t0,82), K(t0,66), S(t0,70), C(t1,t0), K(t1,67), C(t0,t1), S(t0,38), K(83,68),
    C(t0,83), K(84,69), C(t0,84), S(t0,32), C(t1,t0), K(t1,70), S(t1,40), C(t0,t1), K(85,71),
    C(t0,85), K(t0,72), S(t0,28), C(t1,t0), K(86,73)>>

CordBenchmark8_6 ==
  <<C(t0,86), K(87,74), C(t0,87), K(88,75), C(t0,88), C(t1,t0), K(89,76), C(t0,89), K(t0,77),
    C(t1,t0), S(t1,40), K(t1,78), S(t1,27), C(t0,t1), K(90,79), C(t0,90), C(t1,t0), K(t1,80),
    S(t1,35), C(t0,t1), K(t0,81), C(t1,t0), S(t1,36), K(91,82), C(t0,91), K(t0,83), S(t0,31),
    C(t1,t0), K(t1,84), C(t0,t1), S(t0,48), K(t0,85), S(t0,54), C(t1,t0), K(92,86), C(t0,92),
    K(93,87), C(94,93), A(94,32), C(95,94), C(t0,95), S(t0,31), Q(t0,87), C(t1,t0), P(t1),
    K(96,88), C(t0,96), C(t1,t0), C(97,t1), C(98,97), K(98,89)>>

CordBenchmark8_7 ==
  <<S(98,24), C(t0,98), K(99,90), C(t0,99), K(100,91), C(101,100), C(t0,101), C(102,t0),
    C(103,102), C(t0,103), K(104,92), C(t0,104), K(105,93), C(t0,105), C(106,t0), M(107,106),
    C(t0,107), K(t0,94), C(t1,t0), S(t1,28), K(108,95), C(t0,108), K(109,96), S(109,35),
    C(t0,109), C(t1,t0), C(110,t1), C(111,110), K(112,97), C(t0,112), C(t1,t0), K(113,98),
    C(t0,113), K(t0,99), S(t0,33), C(t1,t0)>>

CordBenchmark8 ==
  CordBenchmark8_1 \o CordBenchmark8_2 \o CordBenchmark8_3
    \o CordBenchmark8_4 \o CordBenchmark8_5 \o CordBenchmark8_6
    \o CordBenchmark8_7

CordBenchmark9Setup_1 ==
  <<A(0,595), A(1,2), A(2,64), A(5,168), A(6,71), A(8,64), A(9,64), A(10,28), A(11,61), A(12,1),
    A(13,108), A(14,187), A(15,360), A(17,30), A(18,18), A(20,64), A(21,64), A(22,40), A(23,56),
    A(25,64), A(26,28), A(27,173), A(30,57), A(32,30), A(35,318), A(36,257), A(38,40), A(39,64),
    A(40,12), A(42,16), A(43,157), A(46,7), A(47,64), A(50,64), A(52,28), A(53,64), A(54,95),
    A(55,3), R(55,1), A(55,60), A(59,64), A(60,66), A(61,14), A(62,44), A(64,7), A(66,61),
    A(67,95), A(68,51), A(69,61), A(70,64), A(71,63), A(72,28), A(73,64), A(74,64), A(75,132),
    A(76,70), A(79,61), A(80,30), A(82,64), A(83,175), A(85,64), A(86,28)>>

CordBenchmark9Setup_2 ==
  <<A(89,193), A(90,257), A(91,65), A(92,8643), R(92,1), A(92,1011), R(92,1), A(92,1011),
    A(92,1011), A(93,40), A(94,61), A(95,27), A(96,361), A(97,6), A(98,64)>>

CordBenchmark9Setup ==
  CordBenchmark9Setup_1 \o CordBenchmark9Setup_2

CordBenchmark9_1 ==
  <<S(0,0), S(t0,0), S(t1,0), K(1,0), C(2,1), A(2,35), P(2), Q(2,0), C(t0,2), C(t1,t0), K(3,1),
    Q(3,1), P(3), A(3,17), K(4,2), C(5,4), S(6,64), S(7,0), A(7,49), S(8,0), A(8,42), K(8,5),
    S(8,49), K(9,6), C(t0,9), C(t1,t0), S(t1,31), S(10,0), A(10,63), K(11,8), S(12,25),
    C(13,12), C(14,13), K(15,9), S(16,25), C(17,16), K(17,10), S(17,49), K(17,11), C(t0,17),
    S(t0,51), K(t0,12), S(t0,51), K(t0,13), S(t0,49), K(18,14), C(t0,18), C(t1,t0), S(t1,49),
    K(t1,15), S(t1,39), S(19,0), A(19,61), K(19,17), S(19,47), K(20,18), S(21,64), S(22,0),
    A(22,49), K(22,20), S(22,49), K(23,21), S(24,28)>>

CordBenchmark9_2 ==
  <<C(25,24), C(26,25), K(27,22), A(27,42), Q(27,22), K(27,23), S(27,50), S(28,0), A(28,36),
    K(29,25), C(30,29), S(31,17), C(32,31), K(32,26), S(32,48), K(32,27), S(32,51), S(33,0),
    A(33,37), S(34,26), K(35,30), C(t0,35), S(t0,48), C(t1,t0), S(36,0), A(36,31), K(37,32),
    C(t0,37), S(t0,48), C(t1,t0), S(38,0), A(38,42), S(39,0), A(39,23), K(39,35), S(39,50),
    K(39,36), C(t0,39), C(40,t0), S(40,49), S(41,0), A(41,93), K(42,38), A(42,55), P(42),
    Q(42,38), K(43,39), C(44,43), M(45,44), S(46,113), K(46,40), S(46,46), C(t0,46), S(t0,42),
    K(47,42), S(48,22), K(48,43), C(49,48), S(49,51), S(49,49), S(50,0), A(50,0), K(50,46),
    S(50,42), C(51,50), K(52,47)>>

CordBenchmark9_3 ==
  <<C(53,52), S(54,28), M(55,54), S(55,49), S(56,0), A(56,17), K(57,50), S(58,65), C(59,58),
    C(60,59), S(61,0), A(61,7579), K(62,52), S(63,44), K(64,53), M(65,64), S(66,25), K(66,54),
    C(t0,66), S(t0,49), K(t0,55), S(t0,49), S(67,16), S(68,0), A(68,33), K(69,59), S(70,23),
    C(71,70), C(72,71), K(73,60), S(73,48), C(t0,73), C(t1,t0), K(t1,61), K(74,62), C(75,74),
    S(76,25), S(77,0), A(77,73), K(77,64), M(78,77), S(78,49), S(79,76), K(79,66), C(t0,79),
    S(t0,49), K(t0,67), S(t0,17), C(t1,t0), K(80,68), C(t0,80), S(t0,50), C(t1,t0), C(81,t1)>>

CordBenchmark9_4 ==
  <<K(81,69), C(t0,81), S(t0,51), K(82,70), M(83,82), S(84,111), K(85,71), C(86,85), S(87,17),
    C(88,87), K(88,72), S(88,31), K(89,73), S(90,25), M(91,90), K(92,74), S(93,17), C(94,93),
    K(94,75), S(94,49), C(95,94), K(96,76), Q(96,76), A(96,2246), Q(96,76), S(97,0), A(97,37),
    S(97,42), K(97,79), S(97,49), C(t0,97), K(98,80), C(t0,98), S(t0,49), C(t1,t0), S(t1,50),
    K(99,82), M(100,99), S(101,24), M(102,101), K(102,83), S(102,49), C(103,102), S(104,0),
    A(104,41), K(105,85), M(106,105), S(107,17), K(107,86), S(107,49), S(107,50), S(108,0),
    A(108,35), K(108,89), S(108,49), K(108,90), C(109,108), S(109,49)>>

CordBenchmark9_5 ==
  <<C(t0,109), K(110,91), S(111,63), C(112,111), M(113,112), K(113,92), K(114,93), Q(114,93),
    P(114), A(114,42), K(114,94), C(t0,114), S(t0,51), K(t0,95), S(t0,49), K(t0,96), S(t0,49),
    K(115,97), C(116,115), S(117,17), C(118,117), K(119,98), C(120,119), S(121,18), C(122,121),
    S(123,0), A(123,240)>>

CordBenchmark9 ==
  CordBenchmark9_1 \o CordBenchmark9_2 \o CordBenchmark9_3
    \o CordBenchmark9_4 \o CordBenchmark9_5

(***************************************************************************)
(* GetBenchmarks: the code and the setup of each, how many cords the setup *)
(* returns and how long the string is that cords are copied to (0: none).  *)
(***************************************************************************)
GetBenchmarks ==
  <<[setup |-> CordBenchmarkFleetSetup, code |-> CordBenchmarkFleet,
      cords |-> 100, str |-> 8479],
    [setup |-> CordBenchmark0Setup, code |-> CordBenchmark0,
      cords |-> 21, str |-> 0],
    [setup |-> CordBenchmark1Setup, code |-> CordBenchmark1,
      cords |-> 53, str |-> 10692],
    [setup |-> CordBenchmark2Setup, code |-> CordBenchmark2,
      cords |-> 100, str |-> 2021],
    [setup |-> CordBenchmark3Setup, code |-> CordBenchmark3,
      cords |-> 57, str |-> 1065],
    [setup |-> CordBenchmark4Setup, code |-> CordBenchmark4,
      cords |-> 100, str |-> 4118],
    [setup |-> CordBenchmark5Setup, code |-> CordBenchmark5,
      cords |-> 83, str |-> 0],
    [setup |-> CordBenchmark6Setup, code |-> CordBenchmark6,
      cords |-> 100, str |-> 1491],
    [setup |-> CordBenchmark7Setup, code |-> CordBenchmark7,
      cords |-> 100, str |-> 1246],
    [setup |-> CordBenchmark8Setup, code |-> CordBenchmark8,
      cords |-> 100, str |-> 15311],
    [setup |-> CordBenchmark9Setup, code |-> CordBenchmark9,
      cords |-> 100, str |-> 11674]>>
=============================================================================
