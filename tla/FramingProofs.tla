--------------------------- MODULE FramingProofs ---------------------------
(***************************************************************************)
(* Packets come out of the stream as they went in, for any packets, any    *)
(* widths and any limit of a recv().  A number is read back from its bytes *)
(* by induction over their count; from there a packet that has arrived     *)
(* whole is read back (ReadWhole).  The invariant then says where the      *)
(* packets stand in the stream while the reader is in step, and of every   *)
(* cell, in step or not, that it stands behind the cells it was sent with. *)
(***************************************************************************)
EXTENDS Framing, TLAPS, FiniteSetTheorems, SequenceTheorems

-----------------------------------------------------------------------------
(* Numbers. *)

\* Induction over the naturals, for a set of them: of the intervals that end outside of
\* the set one is the least.
LEMMA NaturalsBelongTo ==
    ASSUME NEW S, 0 \in S, \A n \in Nat : n \in S => n + 1 \in S
    PROVE  Nat \subseteq S
<1>1. SUFFICES ASSUME NEW b \in Nat, b \notin S PROVE FALSE
  OBVIOUS
<1> DEFINE T == {0..n : n \in Nat \ S}
<1>2. T # {} /\ T \subseteq FiniteSubsetsOf(Nat)
  <2>1. 0..b \in T
    BY <1>1
  <2>2. ASSUME NEW n \in Nat PROVE 0..n \in FiniteSubsetsOf(Nat)
    <3>1. IsFiniteSet(0..n) /\ 0..n \subseteq Nat
      BY FS_Interval
    <3>. QED
      BY <3>1 DEF FiniteSubsetsOf
  <2>. QED
    BY <2>1, <2>2
<1>3. PICK I \in T : \A J \in T : <<J, I>> \notin StrictSubsetOrdering(Nat)
  <2>. HIDE DEF T
  <2>. QED
    BY <1>2, FS_StrictSubsetOrderingWellFounded, WFMin, Zenon
<1>4. PICK n \in Nat \ S : I = 0..n
  BY <1>3
<1>5. n - 1 \in Nat \ S
  BY <1>4
<1>6. 0..(n - 1) \in T
  BY <1>5
<1>7. 0..(n - 1) \subseteq 0..n /\ 0..(n - 1) # 0..n /\ 0..(n - 1) \in SUBSET Nat /\ 0..n \in SUBSET Nat
  BY <1>5
<1>8. <<0..(n - 1), 0..n>> \in StrictSubsetOrdering(Nat)
  BY <1>7 DEF StrictSubsetOrdering
<1>. QED
  BY <1>3, <1>4, <1>6, <1>8

LEMMA BaseTyped == Base \in Nat /\ Base > 4 /\ Range16 = Base * Base /\ Range16 \in Nat /\ Range16 > 20
<1>1. Base * Base >= 5 * Base
  BY PacketsAssumption
<1>. QED
  BY <1>1, PacketsAssumption DEF Range16

LEMMA Division ==
    ASSUME NEW x \in Nat
    PROVE  /\ x \div Base \in Nat
           /\ x % Base \in 0..(Base - 1)
           /\ Base * (x \div Base) + (x % Base) = x
<1>1. x \div Base \in Int
  BY BaseTyped
<1>2. x \div Base >= 0
  BY BaseTyped
<1>3. x % Base \in 0..(Base - 1)
  BY BaseTyped
<1>4. Base * (x \div Base) + (x % Base) = x
  BY BaseTyped
<1>. QED
  BY <1>1, <1>2, <1>3, <1>4

LEMMA LeftRecursion ==
    ASSUME NEW n \in Nat, NEW length \in Nat
    PROVE  /\ Left(n, length) \in [0..length -> Nat]
           /\ Left(n, length)[0] = n
           /\ \A i \in 1..length : Left(n, length)[i] = Left(n, length)[i - 1] \div Base
<1> DEFINE Is(left, k) == left = [i \in 0..k |-> IF i = 0 THEN n ELSE left[i - 1] \div Base]
<1> DEFINE S == {k \in Nat : \E left \in [0..k -> Nat] : Is(left, k)}
<1>1. 0 \in S
  <2>1. Is([i \in 0..0 |-> n], 0)
    OBVIOUS
  <2>. QED
    BY <2>1
<1>2. ASSUME NEW k \in Nat, k \in S PROVE k + 1 \in S
  <2>1. PICK left \in [0..k -> Nat] : Is(left, k)
    BY <1>2
  <2> DEFINE next == [i \in 0..(k + 1) |-> IF i = k + 1 THEN left[k] \div Base ELSE left[i]]
  <2>2. left[k] \div Base \in Nat
    BY Division
  <2>3. next \in [0..(k + 1) -> Nat]
    BY <2>2
  <2>4. \A i \in 0..(k + 1) : next[i] = IF i = 0 THEN n ELSE next[i - 1] \div Base
    <3>. TAKE i \in 0..(k + 1)
    <3>1. CASE i = k + 1
      BY <3>1
    <3>2. CASE i \in 0..k
      <4>1. left[i] = IF i = 0 THEN n ELSE left[i - 1] \div Base
        BY <2>1, <3>2
      <4>. QED
        BY <3>2, <4>1
    <3>. QED
      BY <3>1, <3>2
  <2>5. Is(next, k + 1)
    <3>. HIDE DEF next
    <3>. QED
      BY <2>3, <2>4
  <2>. QED
    <3>. HIDE DEF next, Is
    <3>. QED
      BY <2>3, <2>5
<1>3. length \in S
  <2>. HIDE DEF S
  <2>. QED
    BY <1>1, <1>2, NaturalsBelongTo
<1>4. PICK left \in [0..length -> Nat] : Is(left, length)
  BY <1>3
<1>5. Left(n, length) = CHOOSE f : Is(f, length)
  BY DEF Left
<1>6. Is(Left(n, length), length)
  <2>. HIDE DEF Is
  <2>. QED
    BY <1>4, <1>5, Zenon
<1>7. Left(n, length)[0] = n /\ \A i \in 1..length : Left(n, length)[i] = Left(n, length)[i - 1] \div Base
  <2>. DEFINE l == Left(n, length)
  <2>1. Is(l, length)
    BY <1>6
  <2>. HIDE DEF l
  <2>2. \A i \in 0..length : l[i] = IF i = 0 THEN n ELSE l[i - 1] \div Base
    BY <2>1
  <2>3. l[0] = n /\ \A i \in 1..length : l[i] = l[i - 1] \div Base
    BY <2>2
  <2>. QED
    BY <2>3 DEF l
<1> DEFINE N == {k \in Nat : k =< length => Left(n, length)[k] \in Nat}
<1>8. 0 \in N /\ \A k \in Nat : k \in N => k + 1 \in N
  <2>1. 0 \in N
    BY <1>7
  <2>2. ASSUME NEW k \in Nat, k \in N, k + 1 =< length PROVE Left(n, length)[k + 1] \in Nat
    <3>1. Left(n, length)[k] \in Nat /\ k + 1 \in 1..length
      BY <2>2
    <3>2. Left(n, length)[k + 1] = Left(n, length)[(k + 1) - 1] \div Base /\ (k + 1) - 1 = k
      BY <1>7, <3>1
    <3>. QED
      BY <3>1, <3>2, Division
  <2>. QED
    BY <2>1, <2>2
<1>9. \A k \in 0..length : Left(n, length)[k] \in Nat
  <2>1. Nat \subseteq N
    <3>. HIDE DEF N
    <3>. QED
      BY <1>8, NaturalsBelongTo
  <2>. QED
    BY <2>1
<1>10. Left(n, length) \in [0..length -> Nat]
  <2>. DEFINE l == Left(n, length)
  <2>1. Is(l, length) /\ \A k \in 0..length : l[k] \in Nat
    BY <1>6, <1>9
  <2>. HIDE DEF l
  <2>2. l \in [0..length -> Nat]
    BY <2>1
  <2>. QED
    BY <2>2 DEF l
<1>. QED
  BY <1>7, <1>10

\* The value of the bytes up to each of them.
LEMMA NumberRecursion ==
    ASSUME NEW n \in Nat, NEW bytes \in [1..n -> {"byte"} \X Nat]
    PROVE  \E value \in [0..n -> Int] :
               /\ value[0] = 0 /\ value[n] = Number(bytes)
               /\ \A i \in 1..n : value[i] = Base * value[i - 1] + bytes[i][2]
<1> DEFINE Is(value, k) == value = [i \in 0..k |-> IF i = 0 THEN 0 ELSE Base * value[i - 1] + bytes[i][2]]
<1> DEFINE S == {k \in Nat : k =< n => \E value \in [0..k -> Int] : Is(value, k)}
<1>1. 0 \in S
  <2> DEFINE zero == [i \in 0..0 |-> 0]
  <2>1. zero \in [0..0 -> Int] /\ Is(zero, 0)
    OBVIOUS
  <2>. HIDE DEF zero, Is
  <2>. QED
    BY <2>1
<1>2. ASSUME NEW k \in Nat, k + 1 =< n, NEW value \in [0..k -> Int], Is(value, k)
      PROVE  \E next \in [0..(k + 1) -> Int] : Is(next, k + 1)
  <2> DEFINE next == [i \in 0..(k + 1) |-> IF i = k + 1 THEN Base * value[k] + bytes[k + 1][2] ELSE value[i]]
  <2>3. Base * value[k] + bytes[k + 1][2] \in Int
    <3>1. bytes[k + 1][2] \in Nat /\ value[k] \in Int
      BY <1>2
    <3>. QED
      BY <3>1, BaseTyped
  <2>4. next \in [0..(k + 1) -> Int]
    BY <2>3
  <2>5. \A i \in 0..(k + 1) : next[i] = IF i = 0 THEN 0 ELSE Base * next[i - 1] + bytes[i][2]
    <3>. TAKE i \in 0..(k + 1)
    <3>1. CASE i = k + 1
      BY <3>1
    <3>2. CASE i \in 0..k
      <4>1. value[i] = IF i = 0 THEN 0 ELSE Base * value[i - 1] + bytes[i][2]
        BY <1>2, <3>2
      <4>. QED
        BY <3>2, <4>1
    <3>. QED
      BY <3>1, <3>2
  <2>6. Is(next, k + 1)
    <3>. HIDE DEF next
    <3>. QED
      BY <2>4, <2>5
  <2>. QED
    <3>. HIDE DEF next, Is
    <3>. QED
      BY <2>4, <2>6
<1>3. n \in S
  <2>1. ASSUME NEW k \in Nat, k \in S PROVE k + 1 \in S
    <3>1. ASSUME k + 1 =< n PROVE \E next \in [0..(k + 1) -> Int] : Is(next, k + 1)
      <4>1. PICK value \in [0..k -> Int] : Is(value, k)
        BY <2>1, <3>1
      <4>. HIDE DEF Is
      <4>. QED
        BY <1>2, <3>1, <4>1
    <3>. HIDE DEF Is
    <3>. QED
      BY <3>1
  <2>. HIDE DEF S
  <2>. QED
    BY <1>1, <2>1, NaturalsBelongTo
<1>4. PICK some \in [0..n -> Int] : Is(some, n)
  BY <1>3
<1>5. Len(bytes) = n
  OBVIOUS
<1> DEFINE value == CHOOSE f : Is(f, n)
<1>6. Number(bytes) = value[n]
  BY <1>5 DEF Number
<1>7. Is(value, n)
  <2>. HIDE DEF Is
  <2>. QED
    BY <1>4, Zenon
<1>. HIDE DEF value
<1>8. value = [i \in 0..n |-> value[i]] /\ \A i \in 0..n : value[i] = IF i = 0 THEN 0 ELSE Base * value[i - 1] + bytes[i][2]
  BY <1>7
<1>9. value[0] = 0 /\ \A i \in 1..n : value[i] = Base * value[i - 1] + bytes[i][2]
  <2>1. 0 \in 0..n /\ \A i \in 1..n : i \in 0..n /\ i # 0
    OBVIOUS
  <2>2. \A i \in 0..n : value[i] = IF i = 0 THEN 0 ELSE Base * value[i - 1] + bytes[i][2]
    BY <1>8
  <2>. QED
    BY <2>1, <2>2, Zenon
<1> DEFINE N == {k \in Nat : k =< n => value[k] \in Int}
<1>10. Nat \subseteq N
  <2>1. 0 \in N
    BY <1>9
  <2>2. ASSUME NEW k \in Nat, k \in N, k + 1 =< n PROVE value[k + 1] \in Int
    <3>1. value[k] \in Int /\ k + 1 \in 1..n
      BY <2>2
    <3>2. value[k + 1] = Base * value[k] + bytes[k + 1][2]
      BY <1>9, <3>1
    <3>. QED
      BY <3>1, <3>2, BaseTyped
  <2>3. ASSUME NEW k \in Nat, k \in N PROVE k + 1 \in N
    <3>1. k + 1 \in Nat
      BY <2>3
    <3>2. k + 1 =< n => value[k + 1] \in Int
      BY <2>2, <2>3
    <3>. QED
      BY <3>1, <3>2
  <2>. HIDE DEF N
  <2>. QED
    BY <2>1, <2>3, NaturalsBelongTo
<1>11. value \in [0..n -> Int]
  <2>1. \A k \in 0..n : value[k] \in Int
    BY <1>10
  <2>. QED
    BY <1>8, <2>1
<1>. QED
  BY <1>6, <1>9, <1>11

LEMMA IsSequence ==
    ASSUME NEW S, NEW n \in Nat, NEW f \in [1..n -> S]
    PROVE  f \in Seq(S) /\ Len(f) = n /\ DOMAIN f = 1..n
<1>1. f \in Seq(S)
  BY SeqDef
<1>. QED
  BY <1>1

LEMMA BytesTyped ==
    ASSUME NEW n \in Nat, NEW length \in Nat
    PROVE  /\ Bytes(n, length) \in [1..length -> {"byte"} \X Nat]
           /\ \A i \in 1..length : Bytes(n, length)[i] = <<"byte", Left(n, length)[length - i] % Base>>
           /\ Len(Bytes(n, length)) = length
<1>1. \A i \in 1..length : Left(n, length)[length - i] % Base \in Nat
  <2>. TAKE i \in 1..length
  <2>1. length - i \in 0..length
    OBVIOUS
  <2>2. Left(n, length)[length - i] \in Nat
    BY <2>1, LeftRecursion
  <2>. QED
    BY <2>2, Division
<1>2. Bytes(n, length) = [i \in 1..length |-> <<"byte", Left(n, length)[length - i] % Base>>]
  BY DEF Bytes
<1> DEFINE digit(i) == Left(n, length)[length - i] % Base
<1>3. \A i \in 1..length : <<"byte", digit(i)>> \in {"byte"} \X Nat
  BY <1>1
<1>. HIDE DEF digit
<1>4. Bytes(n, length) = [i \in 1..length |-> <<"byte", digit(i)>>]
  BY <1>2 DEF digit
<1>5. /\ Bytes(n, length) \in [1..length -> {"byte"} \X Nat]
      /\ \A i \in 1..length : Bytes(n, length)[i] = <<"byte", digit(i)>>
  BY <1>3, <1>4
<1>6. Len(Bytes(n, length)) = length
  BY <1>5
<1>. QED
  BY <1>5, <1>6 DEF digit

\* A number is what its bytes say.
LEMMA NumberOfBytes ==
    ASSUME NEW n, NEW length \in Nat, Fits(n, length)
    PROVE  Number(Bytes(n, length)) = n
<1>1. n \in Nat /\ Left(n, length)[length] = 0
  BY DEF Fits
<1> DEFINE bytes == Bytes(n, length)
<1> DEFINE left == Left(n, length)
<1>2. /\ bytes \in [1..length -> {"byte"} \X Nat]
      /\ \A i \in 1..length : bytes[i][2] = left[length - i] % Base
  <2>1. \A i \in 1..length : Bytes(n, length)[i] = <<"byte", Left(n, length)[length - i] % Base>>
    BY <1>1, BytesTyped
  <2>2. \A i \in 1..length : bytes[i][2] = left[length - i] % Base
    BY <2>1
  <2>. QED
    BY <1>1, <2>2, BytesTyped
<1>3. left \in [0..length -> Nat] /\ left[0] = n /\ \A i \in 1..length : left[i] = left[i - 1] \div Base
  BY <1>1, LeftRecursion
<1>. HIDE DEF bytes, left
<1>4. PICK value \in [0..length -> Int] :
          /\ value[0] = 0 /\ value[length] = Number(bytes)
          /\ \A i \in 1..length : value[i] = Base * value[i - 1] + bytes[i][2]
  BY <1>2, NumberRecursion
<1> DEFINE N == {k \in Nat : k =< length => value[k] = left[length - k]}
<1>5. 0 \in N
  BY <1>1, <1>4 DEF left
<1>6. ASSUME NEW k \in Nat, k \in N, k + 1 =< length PROVE value[k + 1] = left[length - (k + 1)]
  <2>1. value[k] = left[length - k]
    BY <1>6
  <2> DEFINE j == length - (k + 1)
  <2>2. j \in 0..length /\ j + 1 \in 1..length /\ length - k = j + 1 /\ (j + 1) - 1 = j
    BY <1>6
  <2>3. left[j] \in Nat /\ left[j + 1] = left[j] \div Base
    BY <1>3, <2>2
  <2>4. value[k + 1] = Base * value[k] + bytes[k + 1][2] /\ bytes[k + 1][2] = left[j] % Base
    BY <1>2, <1>4, <1>6
  <2>. HIDE DEF j
  <2>5. value[k + 1] = Base * (left[j] \div Base) + (left[j] % Base)
    BY <2>1, <2>2, <2>3, <2>4
  <2>6. value[k + 1] = left[j]
    BY <2>3, <2>5, Division
  <2>. QED
    BY <2>6 DEF j
<1>7. Nat \subseteq N
  <2>1. \A k \in Nat : k \in N => k + 1 \in N
    BY <1>6
  <2>. HIDE DEF N
  <2>. QED
    BY <1>5, <2>1, NaturalsBelongTo
<1>8. value[length] = left[0]
  BY <1>7
<1>. QED
  BY <1>3, <1>4, <1>8 DEF bytes

LEMMA ShortFits ==
    ASSUME NEW n \in 0..(Range16 - 1)
    PROVE  Fits(n, 2) /\ n % Range16 = n
<1> DEFINE q == n \div Base
<1>1. q \in Nat /\ n % Base \in 0..(Base - 1) /\ Base * q + (n % Base) = n
  BY Division, BaseTyped
<1>2. q < Base
  <2>. HIDE DEF q
  <2>1. Base * q < Base * Base
    BY <1>1, BaseTyped
  <2>. QED
    BY <1>1, <2>1, BaseTyped
<1>3. q \div Base = 0
  <2>. HIDE DEF q
  <2>1. q \div Base \in Nat /\ q % Base \in 0..(Base - 1) /\ Base * (q \div Base) + (q % Base) = q
    BY <1>1, Division
  <2>2. Base * (q \div Base) < Base
    BY <1>1, <1>2, <2>1, BaseTyped
  <2>. QED
    BY <2>1, <2>2, BaseTyped
<1>4. n \in Nat /\ 2 \in Nat /\ 1 \in 1..2 /\ 2 \in 1..2 /\ 2 - 1 = 1 /\ 1 - 1 = 0
  BY BaseTyped
<1>5. Left(n, 2)[1] = n \div Base /\ Left(n, 2)[2] = Left(n, 2)[1] \div Base
  <2>1. \A i \in 1..2 : Left(n, 2)[i] = Left(n, 2)[i - 1] \div Base
    BY <1>4, LeftRecursion
  <2>2. Left(n, 2)[0] = n
    BY <1>4, LeftRecursion
  <2>3. Left(n, 2)[1] = Left(n, 2)[1 - 1] \div Base /\ Left(n, 2)[2] = Left(n, 2)[2 - 1] \div Base
    BY <1>4, <2>1, Zenon
  <2>. QED
    BY <1>4, <2>2, <2>3
<1>6. n % Range16 = n
  BY BaseTyped
<1>. QED
  BY <1>3, <1>4, <1>5, <1>6 DEF Fits

LEMMA ShortRead ==
    ASSUME NEW n \in 0..(Range16 - 1)
    PROVE  Number(putShort(n)) = n
BY ShortFits, NumberOfBytes DEF putShort

LEMMA ShortTyped ==
    ASSUME NEW n \in Nat
    PROVE  /\ putShort(n) \in Seq({"byte"} \X Nat) /\ Len(putShort(n)) = 2
           /\ putShort(n)[1][1] = "byte" /\ putShort(n)[2][1] = "byte"
<1>1. n % Range16 \in Nat
  BY BaseTyped
<1> DEFINE short == putShort(n)
<1>2. short \in [1..2 -> {"byte"} \X Nat]
  BY <1>1, BytesTyped DEF putShort
<1>. HIDE DEF short
<1>3. short \in Seq({"byte"} \X Nat) /\ Len(short) = 2 /\ short[1] \in {"byte"} \X Nat /\ short[2] \in {"byte"} \X Nat
  <2>1. short \in Seq({"byte"} \X Nat) /\ Len(short) = 2
    BY <1>2, IsSequence
  <2>3. 1 \in 1..2 /\ 2 \in 1..2
    OBVIOUS
  <2>. HIDE DEF short
  <2>. QED
    BY <1>2, <2>1, <2>3, Zenon
<1>4. short[1][1] = "byte" /\ short[2][1] = "byte"
  BY <1>3
<1>. QED
  BY <1>3, <1>4 DEF short

-----------------------------------------------------------------------------
(* Opcodes and cells. *)

LEMMA OpcodesTyped ==
    /\ DOMAIN OpcodeNames \subseteq 1..(Range16 - 1)
    /\ \A n \in DOMAIN OpcodeNames : OpcodeNames[n] \in
           {"LOGIN_AUTHENTICATION_IDENTITY", "VERSION_MISMATCH", "REQUEST_CHARACTERS", "CHARACTER_SELECT",
            "LOGIN_AUTHENTICATION_CHALLENGE", "LOGIN_AUTHENTICATION_RESPONSE", "MAP_SERVER_REGISTRATION_REQUEST",
            "MAP_SERVER_REGISTRATION_RESPONSE", "MAP_SERVER_MAP_LIST", "MAP_SERVER_NOT_NEEDED", "MAP_SERVER_ACK",
            "MAP_SERVER_CONNECTION_INSTRUCTIONS", "PLAYER_CHARACTERS", "NO_MAP_SERVER_ERROR",
            "SERVER_PUBKEY", "MALFORMED_PACKET"}
<1>1. DOMAIN ClientOpcodes = 1..4 /\ DOMAIN ServerOpcodes = 1..12
  BY DEF ClientOpcodes, ServerOpcodes
<1>2. DOMAIN OpcodeNames = 1..4 \cup {Range16 - 1 - i : i \in 1..12}
  BY <1>1 DEF OpcodeNames
<1>3. DOMAIN OpcodeNames \subseteq 1..(Range16 - 1)
  BY <1>2, BaseTyped
<1>4. ASSUME NEW n \in 1..4 PROVE OpcodeNames[n] = ClientOpcodes[n]
  BY <1>1, <1>2, <1>4 DEF OpcodeNames
<1>5. ASSUME NEW i \in 1..12 PROVE OpcodeNames[Range16 - 1 - i] = ServerOpcodes[i]
  <2>1. Range16 - 1 - i \notin 1..4 /\ Range16 - 1 - (Range16 - 1 - i) = i
    BY <1>5, BaseTyped
  <2>2. Range16 - 1 - i \in DOMAIN OpcodeNames
    BY <1>2
  <2>. QED
    BY <1>1, <2>1, <2>2 DEF OpcodeNames
<1>6. \A n \in 1..4 : ClientOpcodes[n] \in
          {"LOGIN_AUTHENTICATION_IDENTITY", "VERSION_MISMATCH", "REQUEST_CHARACTERS", "CHARACTER_SELECT"}
  BY DEF ClientOpcodes
<1>7. \A i \in 1..12 : ServerOpcodes[i] \in
          {"LOGIN_AUTHENTICATION_CHALLENGE", "LOGIN_AUTHENTICATION_RESPONSE", "MAP_SERVER_REGISTRATION_REQUEST",
           "MAP_SERVER_REGISTRATION_RESPONSE", "MAP_SERVER_MAP_LIST", "MAP_SERVER_NOT_NEEDED", "MAP_SERVER_ACK",
           "MAP_SERVER_CONNECTION_INSTRUCTIONS", "PLAYER_CHARACTERS", "NO_MAP_SERVER_ERROR",
           "SERVER_PUBKEY", "MALFORMED_PACKET"}
  BY DEF ServerOpcodes
<1>. QED
  BY <1>2, <1>3, <1>4, <1>5, <1>6, <1>7

LEMMA OpcodeRead ==
    ASSUME NEW n \in DOMAIN OpcodeNames
    PROVE  /\ OpcodeNumber(OpcodeNames[n]) \in DOMAIN OpcodeNames
           /\ OpcodeNumber(OpcodeNames[n]) \in 0..(Range16 - 1)
           /\ OpcodeNames[OpcodeNumber(OpcodeNames[n])] = OpcodeNames[n]
<1>1. \E k \in DOMAIN OpcodeNames : OpcodeNames[k] = OpcodeNames[n]
  OBVIOUS
<1>2. OpcodeNumber(OpcodeNames[n]) \in DOMAIN OpcodeNames /\ OpcodeNames[OpcodeNumber(OpcodeNames[n])] = OpcodeNames[n]
  BY <1>1 DEF OpcodeNumber
<1>3. OpcodeNumber(OpcodeNames[n]) \in 1..(Range16 - 1)
  BY <1>2, OpcodesTyped
<1>. QED
  BY <1>2, <1>3, BaseTyped

Sendable == HandshakePackets \cup SessionPackets

Texts == UNION {TextsOf(p) : p \in Sendable}
Cell == ({"byte"} \X Nat) \cup ({"text"} \X Texts \X Nat)

LEMMA Split ==
    ASSUME NEW S, NEW s \in Seq(S), NEW t \in Seq(S)
    PROVE  /\ SubSeq(s \o t, 1, Len(s)) = s
           /\ Rest(s \o t, Len(s)) = t
<1> DEFINE w == s \o t
<1>1. /\ w \in Seq(S) /\ Len(w) = Len(s) + Len(t) /\ Len(s) \in Nat /\ Len(t) \in Nat
      /\ \A i \in 1..(Len(s) + Len(t)) : w[i] = IF i =< Len(s) THEN s[i] ELSE t[i - Len(s)]
  BY ConcatProperties
<1>2. \A i \in 1..Len(w) : w[i] \in S
  BY <1>1
<1>. HIDE DEF w
<1>3. SubSeq(w, 1, Len(s)) = s
  <2>1. \A i \in 1..Len(s) : w[i] \in S
    BY <1>1, <1>2
  <2>2. /\ SubSeq(w, 1, Len(s)) \in Seq(S)
        /\ Len(SubSeq(w, 1, Len(s))) = Len(s)
        /\ \A i \in 1..Len(s) : SubSeq(w, 1, Len(s))[i] = w[i]
    BY <1>1, <2>1, SubSeqProperties
  <2>3. \A i \in 1..Len(s) : SubSeq(w, 1, Len(s))[i] = s[i]
    BY <1>1, <2>2
  <2>. QED
    BY <2>2, <2>3, SeqEqual
<1>4. SubSeq(w, Len(s) + 1, Len(w)) = t
  <2>1. \A i \in (Len(s) + 1)..Len(w) : w[i] \in S
    BY <1>1, <1>2
  <2>2. /\ SubSeq(w, Len(s) + 1, Len(w)) \in Seq(S)
        /\ Len(SubSeq(w, Len(s) + 1, Len(w))) = Len(t)
        /\ \A i \in 1..Len(t) : SubSeq(w, Len(s) + 1, Len(w))[i] = w[Len(s) + i]
    BY <1>1, <2>1, SubSeqProperties
  <2>3. \A i \in 1..Len(t) : SubSeq(w, Len(s) + 1, Len(w))[i] = t[i]
    BY <1>1, <2>2
  <2>. QED
    BY <2>2, <2>3, SeqEqual
<1>. QED
  BY <1>3, <1>4 DEF w, Rest

\* A short, and what is behind it.
LEMMA ShortThen ==
    ASSUME NEW n \in 0..(Range16 - 1), NEW rest \in Seq(Cell)
    PROVE  /\ putShort(n) \o rest \in Seq(Cell) /\ Len(putShort(n) \o rest) = 2 + Len(rest)
           /\ HasNumber(putShort(n) \o rest, 2)
           /\ Number(SubSeq(putShort(n) \o rest, 1, 2)) = n
           /\ Rest(putShort(n) \o rest, 2) = rest
<1> DEFINE short == putShort(n)
<1>1. n \in Nat
  BY BaseTyped
<1>2. short \in Seq(Cell) /\ Len(short) = 2 /\ short[1][1] = "byte" /\ short[2][1] = "byte"
  <2>1. ({"byte"} \X Nat) \subseteq Cell
    BY DEF Cell
  <2>. QED
    BY <1>1, <2>1, ShortTyped, SeqMonotonic
<1>3. Number(short) = n
  BY ShortRead
<1>. HIDE DEF short
<1>4. SubSeq(short \o rest, 1, 2) = short /\ Rest(short \o rest, 2) = rest
  BY <1>2, Split
<1>5. /\ short \o rest \in Seq(Cell) /\ Len(short \o rest) = 2 + Len(rest) /\ Len(rest) \in Nat
      /\ (short \o rest)[1] = short[1] /\ (short \o rest)[2] = short[2]
  <2>1. Len(rest) \in Nat
    BY LenProperties
  <2>2. /\ short \o rest \in Seq(Cell) /\ Len(short \o rest) = 2 + Len(rest)
        /\ \A i \in 1..(2 + Len(rest)) : (short \o rest)[i] = IF i <= 2 THEN short[i] ELSE rest[i - 2]
    <3>1. /\ short \o rest \in Seq(Cell) /\ Len(short \o rest) = Len(short) + Len(rest)
          /\ \A i \in 1..(Len(short) + Len(rest)) :
                 (short \o rest)[i] = IF i <= Len(short) THEN short[i] ELSE rest[i - Len(short)]
      BY <1>2, ConcatProperties
    <3>. QED
      BY <1>2, <3>1
  <2>3. 1 \in 1..(2 + Len(rest)) /\ 2 \in 1..(2 + Len(rest))
    BY <2>1
  <2>. QED
    BY <2>1, <2>2, <2>3
<1>6. HasNumber(short \o rest, 2)
  BY <1>2, <1>5 DEF HasNumber
<1>. QED
  BY <1>3, <1>4, <1>5, <1>6 DEF short

\* A text, and what is behind it.
LEMMA TextThen ==
    ASSUME NEW text \in Texts, TextLength(text) \in Nat, TextLength(text) < Range16,
           TextLength(text) = 0 <=> text = EmptyString,
           NEW rest \in Seq(Cell)
    PROVE  LET cells == putText(text) \o rest IN
           /\ cells \in Seq(Cell)
           /\ HasString(cells) /\ StringOf(cells) = putString(text) /\ AfterString(cells) = rest
           /\ text # EmptyString => IsWhole(putString(text)) /\ putString(text)[1][2] = text
           /\ Taken(cells) = text
<1> DEFINE n == TextLength(text)
<1> DEFINE string == putString(text)
<1> DEFINE short == putShort(n)
<1> DEFINE cells == short \o (string \o rest)
<1>1. n \in 0..(Range16 - 1)
  BY BaseTyped
<1>2. /\ string \in Seq(Cell) /\ Len(string) = n /\ DOMAIN string = 1..n
      /\ \A i \in 1..n : string[i] = <<"text", text, i>>
  <2>1. \A i \in 1..n : <<"text", text, i>> \in Cell
    BY DEF Cell
  <2>2. string \in [1..n -> Cell]
    BY <2>1 DEF putString
  <2>. QED
    BY <2>2, IsSequence DEF putString
<1>3. short \in Seq(Cell) /\ Len(short) = 2
  <2>1. ({"byte"} \X Nat) \subseteq Cell
    BY DEF Cell
  <2>. QED
    BY <1>1, <2>1, ShortTyped, SeqMonotonic
<1>4. putText(text) \o rest = cells
  BY <1>2, <1>3, ConcatAssociative DEF putText
<1>5. string \o rest \in Seq(Cell) /\ Len(string \o rest) = n + Len(rest) /\ Len(rest) \in Nat
  BY <1>2, ConcatProperties, LenProperties
<1>6. /\ cells \in Seq(Cell) /\ Len(cells) = 2 + n + Len(rest)
      /\ HasNumber(cells, 2) /\ StringLength(cells) = n /\ Rest(cells, 2) = string \o rest
  <2>. DEFINE behind == string \o rest
  <2>1. behind \in Seq(Cell) /\ Len(behind) = n + Len(rest)
    BY <1>5
  <2>. HIDE DEF n, behind
  <2>2. /\ putShort(n) \o behind \in Seq(Cell) /\ Len(putShort(n) \o behind) = 2 + Len(behind)
        /\ HasNumber(putShort(n) \o behind, 2)
        /\ Number(SubSeq(putShort(n) \o behind, 1, 2)) = n
        /\ Rest(putShort(n) \o behind, 2) = behind
    BY <1>1, <2>1, ShortThen
  <2>3. Len(putShort(n) \o behind) = 2 + n + Len(rest)
    BY <1>1, <1>5, <2>1, <2>2
  <2>. QED
    BY <2>2, <2>3 DEF StringLength, behind
<1>7. HasString(cells)
  BY <1>1, <1>5, <1>6 DEF HasString
<1>. HIDE DEF n, string, short
<1>8. StringOf(cells) = string
  <2>. DEFINE behind == string \o rest
  <2>6. n \in Nat /\ \A i \in 1..n : behind[i] = string[i]
    BY <1>1, <1>2, <1>5, ConcatProperties
  <2>7. \A i \in 1..(2 + Len(behind)) : (short \o behind)[i] = IF i <= 2 THEN short[i] ELSE behind[i - 2]
    <3>2. behind \in Seq(Cell)
      BY <1>5
    <3>. HIDE DEF behind
    <3>1. \A i \in 1..(Len(short) + Len(behind)) :
              (short \o behind)[i] = IF i <= Len(short) THEN short[i] ELSE behind[i - Len(short)]
      BY <1>3, <3>2, ConcatProperties
    <3>. QED
      BY <1>3, <3>1
  <2>8. Len(behind) = n + Len(rest) /\ Len(rest) \in Nat /\ cells = short \o behind
    BY <1>5
  <2>. HIDE DEF cells, behind
  <2>1. \A i \in 3..(2 + n) : cells[i] = string[i - 2]
    <3>. TAKE i \in 3..(2 + n)
    <3>1. i \in 1..(2 + Len(behind)) /\ ~(i <= 2) /\ i - 2 \in 1..n
      BY <2>6, <2>8
    <3>2. cells[i] = behind[i - 2]
      BY <2>7, <2>8, <3>1
    <3>. QED
      BY <2>6, <3>1, <3>2
  <2>2. \A i \in 3..(2 + n) : cells[i] \in Cell
    <3>1. \A j \in 1..n : string[j] \in Cell
      BY <1>2
    <3>. QED
      BY <2>1, <2>6, <3>1
  <2>3. /\ SubSeq(cells, 3, 2 + n) \in Seq(Cell) /\ Len(SubSeq(cells, 3, 2 + n)) = n
        /\ \A i \in 1..n : SubSeq(cells, 3, 2 + n)[i] = cells[2 + i]
    BY <2>2, <2>6, SubSeqProperties
  <2>4. \A i \in 1..n : SubSeq(cells, 3, 2 + n)[i] = string[i]
    BY <2>1, <2>3, <2>6
  <2>5. SubSeq(cells, 3, 2 + n) = string
    BY <1>2, <2>3, <2>4, SeqEqual
  <2>. QED
    BY <1>6, <2>5 DEF StringOf
<1>9. AfterString(cells) = rest
  <2>1. short \o string \in Seq(Cell) /\ Len(short \o string) = 2 + n
    <3>1. short \o string \in Seq(Cell) /\ Len(short \o string) = Len(short) + Len(string)
      BY <1>2, <1>3, ConcatProperties
    <3>. QED
      BY <1>2, <1>3, <3>1
  <2>2. cells = (short \o string) \o rest
    <3>1. putText(text) = short \o string
      BY DEF putText, short, string, n
    <3>. HIDE DEF cells
    <3>. QED
      BY <1>4, <3>1
  <2>. HIDE DEF cells
  <2>3. Rest(cells, 2 + n) = rest
    BY <2>1, <2>2, Split
  <2>. QED
    BY <1>6, <2>3 DEF AfterString
<1>10. ASSUME text # EmptyString PROVE string # <<>> /\ IsWhole(string) /\ string[1][2] = text
  <2>1. n \in Nat /\ n # 0 /\ 1 \in 1..n
    BY <1>1, <1>10, BaseTyped DEF n
  <2>2. string # <<>>
    BY <1>2, <2>1
  <2>3. \A i \in 1..n : string[i][1] = "text" /\ string[i][2] = text /\ string[i][3] = i
    BY <1>2
  <2>. QED
    BY <1>2, <2>1, <2>2, <2>3 DEF IsWhole, n
<1>11. ASSUME text = EmptyString PROVE string = <<>>
  <2>1. n = 0
    BY <1>11 DEF n
  <2>. QED
    BY <1>2, <2>1, EmptySeq
<1>12. Taken(cells) = text
  <2>. HIDE DEF cells
  <2>. QED
    BY <1>8, <1>10, <1>11 DEF Taken
<1>. QED
  BY <1>4, <1>6, <1>7, <1>8, <1>9, <1>10, <1>12 DEF string

LEMMA TextTyped ==
    ASSUME NEW text \in Texts, TextLength(text) \in Nat
    PROVE  /\ putText(text) \in Seq(Cell) /\ Len(putText(text)) = 2 + TextLength(text)
           /\ SubSeq(putText(text), 1, 2) = putShort(TextLength(text))
           /\ putText(text)[1][1] = "byte" /\ putText(text)[2][1] = "byte"
           /\ \A i \in 1..TextLength(text) : putText(text)[2 + i] = <<"text", text, i>>
<1> DEFINE n == TextLength(text)
<1> DEFINE string == putString(text)
<1> DEFINE short == putShort(n)
<1>1. string \in Seq(Cell) /\ Len(string) = n /\ \A i \in 1..n : string[i] = <<"text", text, i>>
  <2>1. \A i \in 1..n : <<"text", text, i>> \in Cell
    BY DEF Cell
  <2>2. string \in [1..n -> Cell]
    BY <2>1 DEF putString
  <2>. QED
    BY <2>2, IsSequence DEF putString
<1>2. short \in Seq(Cell) /\ Len(short) = 2 /\ short[1][1] = "byte" /\ short[2][1] = "byte"
  <2>1. ({"byte"} \X Nat) \subseteq Cell
    BY DEF Cell
  <2>. QED
    BY <2>1, ShortTyped, SeqMonotonic
<1>3. n \in Nat /\ putText(text) = short \o string
  BY DEF putText
<1>. HIDE DEF n, string, short
<1>4. /\ short \o string \in Seq(Cell) /\ Len(short \o string) = Len(short) + Len(string)
      /\ \A i \in 1..(Len(short) + Len(string)) :
             (short \o string)[i] = IF i <= Len(short) THEN short[i] ELSE string[i - Len(short)]
  BY <1>1, <1>2, ConcatProperties
<1>5. SubSeq(short \o string, 1, 2) = short
  BY <1>1, <1>2, Split
<1>6. (short \o string)[1] = short[1] /\ (short \o string)[2] = short[2]
  BY <1>1, <1>2, <1>3, <1>4
<1>7. \A i \in 1..n : (short \o string)[2 + i] = string[i]
  BY <1>1, <1>2, <1>3, <1>4
<1>. QED
  BY <1>1, <1>2, <1>3, <1>4, <1>5, <1>6, <1>7 DEF n, short

LEMMA SendableTyped ==
    ASSUME NEW p \in Sendable
    PROVE  /\ IsPacket(p) /\ TextsOf(p) \subseteq Texts
           /\ OpcodeNumber(p.opcode) \in DOMAIN OpcodeNames
           /\ OpcodeNumber(p.opcode) \in 0..(Range16 - 1)
           /\ OpcodeNames[OpcodeNumber(p.opcode)] = p.opcode
           /\ \A text \in TextsOf(p) : TextLength(text) \in Nat /\ (TextLength(text) = 0 <=> text = EmptyString)
<1>1. IsPacket(p)
  BY SentAssumption DEF Sendable
<1>2. TextsOf(p) \subseteq Texts
  BY DEF Texts
<1>3. PICK n \in DOMAIN OpcodeNames : p.opcode = OpcodeNames[n]
  BY <1>1 DEF IsPacket
<1>4. \A text \in TextsOf(p) : TextLength(text) \in Nat /\ (TextLength(text) = 0 <=> text = EmptyString)
  BY <1>1 DEF IsPacket
<1>. QED
  BY <1>1, <1>2, <1>3, <1>4, OpcodeRead

\* What is behind the opcode of a packet.
BodyOf(p) == IF p.opcode \in Documents THEN putText(ToJSON(p)) ELSE Strings(p)

LEMMA BodyTyped ==
    ASSUME NEW p \in Sendable
    PROVE  BodyOf(p) \in Seq(Cell)
<1>1. ASSUME NEW text \in TextsOf(p) PROVE putText(text) \in Seq(Cell)
  BY <1>1, SendableTyped, TextTyped
<1>2. ({"byte"} \X Nat) \subseteq Cell
  BY DEF Cell
<1>3. CASE p.opcode \in Documents
  <2>1. ToJSON(p) \in TextsOf(p)
    BY <1>3 DEF TextsOf, Documents, PlainDocuments
  <2>. QED
    BY <1>1, <1>3, <2>1 DEF BodyOf
<1>4. CASE p.opcode = "MAP_SERVER_REGISTRATION_REQUEST"
  <2>1. p.opcode \notin Documents
    BY <1>4 DEF Documents, PlainDocuments
  <2>2. putText(p.mapServerFriendlyName) \in Seq(Cell) /\ putText(p.mapServerListenAddress) \in Seq(Cell)
    BY <1>1, <1>4, <2>1 DEF TextsOf
  <2>3. putShort(p.port) \in Seq(Cell)
    <3>1. p.port \in Nat
      <4>1. p.port \in 0..(Range16 - 1)
        BY <1>4, SendableTyped, Zenon DEF IsPacket
      <4>. QED
        BY <4>1, BaseTyped
    <3>. QED
      BY <1>2, <3>1, ShortTyped, SeqMonotonic
  <2>4. putText(p.mapServerFriendlyName) \o putText(p.mapServerListenAddress) \in Seq(Cell)
    BY <2>2, ConcatProperties
  <2>5. BodyOf(p) = putText(p.mapServerFriendlyName) \o putText(p.mapServerListenAddress) \o putShort(p.port)
    BY <1>4, <2>1 DEF BodyOf, Strings
  <2>. QED
    BY <2>3, <2>4, <2>5, ConcatProperties
<1>5. CASE p.opcode = "CHARACTER_SELECT"
  <2>1. p.characterID \in Nat
    BY <1>5, SendableTyped DEF IsPacket, Fits
  <2>2. LongLength \in Nat
    BY PacketsAssumption
  <2>3. putLong(p.characterID) \in Seq({"byte"} \X Nat)
    BY <2>1, <2>2, BytesTyped, IsSequence DEF putLong
  <2>4. BodyOf(p) = putLong(p.characterID)
    BY <1>5 DEF BodyOf, Strings, Documents, PlainDocuments
  <2>. QED
    BY <1>2, <2>3, <2>4, SeqMonotonic
<1>6. CASE p.opcode = "MAP_SERVER_REGISTRATION_RESPONSE"
  <2>1. p.opcode \notin Documents
    BY <1>6 DEF Documents, PlainDocuments
  <2>. QED
    BY <1>1, <1>6, <2>1 DEF BodyOf, Strings, TextsOf
<1>7. CASE p.opcode = "NO_MAP_SERVER_ERROR"
  <2>1. p.opcode \notin Documents
    BY <1>7 DEF Documents, PlainDocuments
  <2>. QED
    BY <1>1, <1>7, <2>1 DEF BodyOf, Strings, TextsOf
<1>8. CASE /\ p.opcode \notin Documents
           /\ p.opcode \notin {"MAP_SERVER_REGISTRATION_REQUEST", "CHARACTER_SELECT",
                               "MAP_SERVER_REGISTRATION_RESPONSE", "NO_MAP_SERVER_ERROR"}
  BY <1>8, EmptySeq DEF BodyOf, Strings
<1>. QED
  BY <1>3, <1>4, <1>5, <1>6, <1>7, <1>8

LEMMA WrittenTyped ==
    ASSUME NEW p \in Sendable
    PROVE  /\ Written(p) = putShort(OpcodeNumber(p.opcode)) \o BodyOf(p)
           /\ Written(p) \in Seq(Cell) /\ Len(Written(p)) \in Nat /\ Len(Written(p)) >= 2
           /\ HasNumber(Written(p), 2) /\ Number(SubSeq(Written(p), 1, 2)) = OpcodeNumber(p.opcode)
           /\ Rest(Written(p), 2) = BodyOf(p)
<1>1. Written(p) = putShort(OpcodeNumber(p.opcode)) \o BodyOf(p)
  BY DEF Written, BodyOf
<1>2. OpcodeNumber(p.opcode) \in 0..(Range16 - 1) /\ BodyOf(p) \in Seq(Cell) /\ Len(BodyOf(p)) \in Nat
  BY SendableTyped, BodyTyped, LenProperties
<1>. QED
  BY <1>1, <1>2, ShortThen

-----------------------------------------------------------------------------
(* What is read of a packet that has arrived whole. *)

LEMMA IntKept ==
    ASSUME NEW n \in -IntRange..(IntRange - 1)
    PROVE  asInt(n) = n
<1>1. IntRange \in Nat /\ IntRange > 0
  BY PacketsAssumption
<1>2. n + IntRange \in 0..(2 * IntRange - 1)
  BY <1>1
<1>3. (n + IntRange) % (2 * IntRange) = n + IntRange
  BY <1>1, <1>2
<1>. QED
  BY <1>1, <1>3 DEF asInt

LEMMA LocationKept ==
    ASSUME NEW l, IsLocation(l)
    PROVE  LocationFromJSON(LocationToJSON(l)) = [l EXCEPT !.id = 0]
<1>1. DOMAIN l = {"id", "locationName", "knownFileName", "knownMD5Hash", "version"}
  BY DEF IsLocation, HasFields
<1>2. [l EXCEPT !.id = 0] = [f \in DOMAIN l |-> IF f = "id" THEN 0 ELSE l[f]]
  BY DEF IsLocation, HasFields
<1> DEFINE r == [id |-> 0, locationName |-> l.locationName, knownFileName |-> l.knownFileName,
                 knownMD5Hash |-> l.knownMD5Hash, version |-> l.version]
<1>3. LocationFromJSON(LocationToJSON(l)) = r
  BY DEF LocationFromJSON, LocationToJSON
<1>4. r = [f \in DOMAIN l |-> IF f = "id" THEN 0 ELSE l[f]]
  BY <1>1
<1>. QED
  BY <1>2, <1>3, <1>4

LEMMA CharacterKept ==
    ASSUME NEW c, IsCharacter(c)
    PROVE  CharacterFromJSON(CharacterToJSON(c)) = [c EXCEPT !.raceID = 0, !.locationID = 0, !.currentHP = c.maxHP]
<1>1. DOMAIN c = {"id", "playerID", "name", "raceID", "locationID", "maxHP", "currentHP", "strength", "intelligence"}
  BY DEF IsCharacter, HasFields
<1>2. [c EXCEPT !.raceID = 0, !.locationID = 0, !.currentHP = c.maxHP]
          = [f \in DOMAIN c |-> IF f \in {"raceID", "locationID"} THEN 0 ELSE IF f = "currentHP" THEN c.maxHP ELSE c[f]]
  BY DEF IsCharacter, HasFields
<1>3. asInt(c.maxHP) = c.maxHP /\ asInt(c.strength) = c.strength /\ asInt(c.intelligence) = c.intelligence
  BY IntKept DEF IsCharacter
<1> DEFINE r == [id |-> c.id, playerID |-> c.playerID, name |-> c.name, raceID |-> 0, locationID |-> 0,
                 maxHP |-> c.maxHP, currentHP |-> c.maxHP, strength |-> c.strength, intelligence |-> c.intelligence]
<1>4. CharacterFromJSON(CharacterToJSON(c)) = r
  BY <1>3 DEF CharacterFromJSON, CharacterToJSON
<1>5. r = [f \in DOMAIN c |-> IF f \in {"raceID", "locationID"} THEN 0 ELSE IF f = "currentHP" THEN c.maxHP ELSE c[f]]
  BY <1>1
<1>. QED
  BY <1>2, <1>4, <1>5

LEMMA DocumentKept ==
    ASSUME NEW p \in Sendable, p.opcode \in Documents
    PROVE  FromJSON(p.opcode, ToJSON(p)) = AsReceived(p) /\ ToJSON(p) # EmptyString
<1>1. IsPacket(p)
  BY SendableTyped
<1>2. HasFields(p, {"opcode"} \cup FieldsOf(p.opcode))
  BY <1>1, Zenon DEF IsPacket
<1>3. CASE p.opcode = "MAP_SERVER_MAP_LIST"
  <2> DEFINE l == p.mapHashes
  <2>1. DOMAIN p = {"opcode", "mapHashes"} /\ p = [f \in DOMAIN p |-> p[f]]
    BY <1>2, <1>3 DEF HasFields, FieldsOf
  <2>2. \A i \in DOMAIN l : IsLocation(l[i])
    BY <1>1, <1>3, Zenon DEF IsPacket
  <2>3. ToJSON(p) = [maps |-> [i \in DOMAIN l |-> LocationToJSON(l[i])]]
    BY <1>3 DEF ToJSON, Each, PlainDocuments
  <2>4. FromJSON(p.opcode, ToJSON(p))
            = [opcode |-> p.opcode, mapHashes |-> [i \in DOMAIN l |-> LocationFromJSON(LocationToJSON(l[i]))]]
    BY <1>3, <2>3 DEF FromJSON, Each, PlainDocuments
  <2>5. [i \in DOMAIN l |-> LocationFromJSON(LocationToJSON(l[i]))] = [i \in DOMAIN l |-> [l[i] EXCEPT !.id = 0]]
    BY <2>2, LocationKept, Zenon
  <2>6. AsReceived(p) = [p EXCEPT !.mapHashes = [i \in DOMAIN l |-> [l[i] EXCEPT !.id = 0]]]
    BY <1>3 DEF AsReceived
  <2> DEFINE received == [i \in DOMAIN l |-> [l[i] EXCEPT !.id = 0]]
  <2>7. AsReceived(p) = [p EXCEPT !.mapHashes = received]
        /\ FromJSON(p.opcode, ToJSON(p)) = [opcode |-> p.opcode, mapHashes |-> received]
    BY <2>4, <2>5, <2>6
  <2>8. ToJSON(p) # EmptyString
    <3>1. DOMAIN ToJSON(p) = {"maps"} /\ DOMAIN EmptyString = {"string"}
      BY <2>3 DEF EmptyString
    <3>. QED
      BY <3>1
  <2>. HIDE DEF received
  <2>9. [p EXCEPT !.mapHashes = received] = [opcode |-> p.opcode, mapHashes |-> received]
    BY <2>1
  <2>. QED
    BY <2>7, <2>8, <2>9
<1>4. CASE p.opcode = "PLAYER_CHARACTERS"
  <2> DEFINE l == p.characters
  <2> DEFINE received == [i \in DOMAIN l |-> [l[i] EXCEPT !.raceID = 0, !.locationID = 0, !.currentHP = l[i].maxHP]]
  <2>1. DOMAIN p = {"opcode", "characters"} /\ p = [f \in DOMAIN p |-> p[f]]
    BY <1>2, <1>4 DEF HasFields, FieldsOf
  <2>2. \A i \in DOMAIN l : IsCharacter(l[i])
    BY <1>1, <1>4, Zenon DEF IsPacket
  <2>3. ToJSON(p) = [characters |-> [i \in DOMAIN l |-> CharacterToJSON(l[i])]]
    BY <1>4 DEF ToJSON, Each, PlainDocuments
  <2>4. FromJSON(p.opcode, ToJSON(p))
            = [opcode |-> p.opcode, characters |-> [i \in DOMAIN l |-> CharacterFromJSON(CharacterToJSON(l[i]))]]
    BY <1>4, <2>3 DEF FromJSON, Each, PlainDocuments
  <2>5. [i \in DOMAIN l |-> CharacterFromJSON(CharacterToJSON(l[i]))] = received
    BY <2>2, CharacterKept, Zenon
  <2>6. AsReceived(p) = [p EXCEPT !.characters = received]
    BY <1>4 DEF AsReceived
  <2>8. ToJSON(p) # EmptyString
    <3>1. DOMAIN ToJSON(p) = {"characters"} /\ DOMAIN EmptyString = {"string"}
      BY <2>3 DEF EmptyString
    <3>. QED
      BY <3>1
  <2>. HIDE DEF received
  <2>9. [p EXCEPT !.characters = received] = [opcode |-> p.opcode, characters |-> received]
    BY <2>1
  <2>. QED
    BY <2>4, <2>5, <2>6, <2>8, <2>9
<1>5. CASE p.opcode \in PlainDocuments
  <2>1. "opcode" \in DOMAIN p /\ p = [f \in DOMAIN p |-> p[f]]
    BY <1>2 DEF HasFields
  <2>2. ToJSON(p) = [f \in DOMAIN p \ {"opcode"} |-> p[f]]
    BY <1>5 DEF ToJSON, PlainDocuments
  <2>3. FromJSON(p.opcode, ToJSON(p))
            = [f \in DOMAIN ToJSON(p) \cup {"opcode"} |-> IF f = "opcode" THEN p.opcode ELSE ToJSON(p)[f]]
    BY <1>5 DEF FromJSON, PlainDocuments
  <2>4. DOMAIN ToJSON(p) \cup {"opcode"} = DOMAIN p
    BY <2>1, <2>2
  <2>5. \A f \in DOMAIN p : (IF f = "opcode" THEN p.opcode ELSE ToJSON(p)[f]) = p[f]
    BY <2>2
  <2>6. FromJSON(p.opcode, ToJSON(p)) = [f \in DOMAIN p |-> p[f]]
    BY <2>3, <2>4, <2>5
  <2>7. AsReceived(p) = p
    BY <1>5 DEF AsReceived, PlainDocuments
  <2>8. ToJSON(p) # EmptyString
    <3>1. DOMAIN EmptyString = {"string"} /\ DOMAIN ToJSON(p) = DOMAIN p \ {"opcode"}
      BY <2>2 DEF EmptyString
    <3>2. "string" \notin DOMAIN p
      BY <1>2, <1>5 DEF HasFields, FieldsOf, PlainDocuments
    <3>. QED
      BY <3>1, <3>2
  <2>. QED
    BY <2>1, <2>6, <2>7, <2>8
<1>. QED
  BY <1>3, <1>4, <1>5 DEF Documents

\* A text alone.
LEMMA TextAlone ==
    ASSUME NEW text \in Texts, TextLength(text) \in Nat, TextLength(text) < Range16,
           TextLength(text) = 0 <=> text = EmptyString
    PROVE  /\ HasString(putText(text)) /\ StringOf(putText(text)) = putString(text) /\ Taken(putText(text)) = text
           /\ text # EmptyString => IsWhole(putString(text)) /\ putString(text)[1][2] = text
<1>1. <<>> \in Seq(Cell) /\ putText(text) \in Seq(Cell)
  BY EmptySeq, TextTyped
<1>2. putText(text) \o <<>> = putText(text)
  BY <1>1, ConcatEmptySeq
<1> DEFINE cells == putText(text) \o <<>>
<1>3. /\ HasString(cells) /\ StringOf(cells) = putString(text) /\ Taken(cells) = text
      /\ text # EmptyString => IsWhole(putString(text)) /\ putString(text)[1][2] = text
  BY <1>1, TextThen
<1>. HIDE DEF cells
<1>4. cells = putText(text)
  BY <1>2 DEF cells
<1>. QED
  BY <1>3, <1>4

LEMMA RegistrationRead ==
    ASSUME NEW p \in HandshakePackets, p.opcode = "MAP_SERVER_REGISTRATION_REQUEST", ~Outgrown(p)
    PROVE  ReadRegistration(BodyOf(p)) = p
<1>1. p \in Sendable /\ p.opcode \notin Documents
  BY DEF Sendable, Documents, PlainDocuments
<1> DEFINE name == p.mapServerFriendlyName
<1> DEFINE address == p.mapServerListenAddress
<1> DEFINE port == putShort(p.port)
<1>2. TextsOf(p) = {name, address}
  BY <1>1 DEF TextsOf
<1>3. /\ name \in Texts /\ TextLength(name) \in Nat /\ TextLength(name) < Range16
      /\ TextLength(name) = 0 <=> name = EmptyString
      /\ address \in Texts /\ TextLength(address) \in Nat /\ TextLength(address) < Range16
      /\ TextLength(address) = 0 <=> address = EmptyString
  <2>1. \A text \in TextsOf(p) : TextLength(text) \in Nat /\ (TextLength(text) = 0 <=> text = EmptyString)
    BY <1>1, SendableTyped
  <2>2. \A text \in TextsOf(p) : text \in Texts
    BY <1>1, SendableTyped
  <2>3. \A text \in TextsOf(p) : ~(TextLength(text) >= Range16)
    BY DEF Outgrown
  <2>. HIDE DEF name, address
  <2>. QED
    BY <1>2, <2>1, <2>2, <2>3, BaseTyped
<1>4. p.port \in 0..(Range16 - 1)
  BY <1>1, SendableTyped, Zenon DEF IsPacket
<1>5. port \in Seq(Cell) /\ HasNumber(port, 2) /\ Number(SubSeq(port, 1, 2)) = p.port
  <2>1. <<>> \in Seq(Cell)
    BY EmptySeq
  <2>2. port \in Seq(Cell)
    <3>1. ({"byte"} \X Nat) \subseteq Cell /\ p.port \in Nat
      BY <1>4, BaseTyped DEF Cell
    <3>. QED
      BY <3>1, ShortTyped, SeqMonotonic
  <2>3. port \o <<>> = port
    BY <2>2, ConcatEmptySeq
  <2>4. HasNumber(port \o <<>>, 2) /\ Number(SubSeq(port \o <<>>, 1, 2)) = p.port
    BY <1>4, <2>1, ShortThen
  <2>. HIDE DEF port
  <2>. QED
    BY <2>2, <2>3, <2>4
<1>. HIDE DEF name, address, port
<1>6. putText(name) \in Seq(Cell) /\ putText(address) \in Seq(Cell)
  BY <1>3, TextTyped
<1> DEFINE second == putText(address) \o port
<1> DEFINE body == putText(name) \o second
<1>7. BodyOf(p) = body
  <2>1. BodyOf(p) = putText(name) \o putText(address) \o port
    BY <1>1 DEF BodyOf, Strings, name, address, port
  <2>. QED
    BY <1>5, <1>6, <2>1, ConcatAssociative
<1>8. second \in Seq(Cell) /\ HasString(second) /\ AfterString(second) = port /\ Taken(second) = address
  BY <1>3, <1>5, TextThen
<1>. HIDE DEF second
<1>9. HasString(body) /\ AfterString(body) = second /\ Taken(body) = name
  BY <1>3, <1>8, TextThen
<1>. HIDE DEF body
<1>10. ReadRegistration(body) = [opcode |-> "MAP_SERVER_REGISTRATION_REQUEST", mapServerFriendlyName |-> name,
                                 mapServerListenAddress |-> address, port |-> p.port]
  BY <1>5, <1>8, <1>9 DEF ReadRegistration
<1>11. p = [opcode |-> "MAP_SERVER_REGISTRATION_REQUEST", mapServerFriendlyName |-> name,
            mapServerListenAddress |-> address, port |-> p.port]
  <2>1. HasFields(p, {"opcode"} \cup FieldsOf(p.opcode))
    BY <1>1, SendableTyped, Zenon DEF IsPacket
  <2>2. p = [f \in {"opcode", "mapServerFriendlyName", "mapServerListenAddress", "port"} |-> p[f]]
    BY <2>1 DEF HasFields, FieldsOf
  <2>. QED
    BY <2>2 DEF name, address
<1>. QED
  BY <1>7, <1>10, <1>11

\* A packet that has arrived whole, and does not outgrow its lengths, is decoded to what the
\* receiver is to know of it: the constructors and the handlers agree on every layout.
THEOREM ReadWhole ==
    ASSUME NEW p \in HandshakePackets, ~Outgrown(p)
    PROVE  Read(Written(p)) = AsReceived(p)
<1>1. p \in Sendable
  BY DEF Sendable
<1> DEFINE cells == Written(p)
<1>2. /\ HasNumber(cells, 2) /\ Number(SubSeq(cells, 1, 2)) = OpcodeNumber(p.opcode) /\ Rest(cells, 2) = BodyOf(p)
      /\ OpcodeNumber(p.opcode) \in DOMAIN OpcodeNames /\ OpcodeNames[OpcodeNumber(p.opcode)] = p.opcode
  BY <1>1, WrittenTyped, SendableTyped
<1>. HIDE DEF cells
<1>3. Read(cells) = CASE p.opcode \in Documents -> ReadDocument(p.opcode, BodyOf(p))
                      [] p.opcode = "MAP_SERVER_REGISTRATION_REQUEST" -> ReadRegistration(BodyOf(p))
                      [] p.opcode = "NO_MAP_SERVER_ERROR" ->
                             IF HasString(BodyOf(p)) THEN [opcode |-> p.opcode, message |-> Taken(BodyOf(p))] ELSE Garbage
                      [] OTHER -> [opcode |-> p.opcode]
  BY <1>2 DEF Read
<1>4. HasFields(p, {"opcode"} \cup FieldsOf(p.opcode))
  BY <1>1, SendableTyped, Zenon DEF IsPacket
<1>5. \A text \in TextsOf(p) :
          /\ text \in Texts /\ TextLength(text) \in Nat /\ TextLength(text) < Range16
          /\ TextLength(text) = 0 <=> text = EmptyString
  <2>1. \A text \in TextsOf(p) : TextLength(text) \in Nat /\ (TextLength(text) = 0 <=> text = EmptyString)
    BY <1>1, SendableTyped
  <2>2. \A text \in TextsOf(p) : text \in Texts
    BY <1>1, SendableTyped
  <2>3. \A text \in TextsOf(p) : ~(TextLength(text) >= Range16)
    BY DEF Outgrown
  <2>. QED
    BY <2>1, <2>2, <2>3, BaseTyped
<1>6. CASE p.opcode \in Documents
  <2> DEFINE text == ToJSON(p)
  <2>1. text \in TextsOf(p)
    BY <1>6 DEF TextsOf, Documents, PlainDocuments
  <2>2. text # EmptyString /\ FromJSON(p.opcode, text) = AsReceived(p)
    BY <1>1, <1>6, DocumentKept
  <2>3. BodyOf(p) = putText(text)
    BY <1>6 DEF BodyOf
  <2>4. Read(cells) = ReadDocument(p.opcode, BodyOf(p))
    BY <1>3, <1>6 DEF Documents, PlainDocuments
  <2>. HIDE DEF text
  <2>5. HasString(putText(text)) /\ IsWhole(StringOf(putText(text))) /\ StringOf(putText(text))[1][2] = text
    BY <1>5, <2>1, <2>2, TextAlone
  <2>. QED
    BY <2>2, <2>3, <2>4, <2>5 DEF ReadDocument, cells
<1>7. CASE p.opcode = "MAP_SERVER_REGISTRATION_REQUEST"
  <2>1. Read(cells) = ReadRegistration(BodyOf(p))
    BY <1>3, <1>7 DEF Documents, PlainDocuments
  <2>2. AsReceived(p) = p
    BY <1>7 DEF AsReceived
  <2>. QED
    BY <1>7, <2>1, <2>2, RegistrationRead DEF cells
<1>8. CASE p.opcode = "NO_MAP_SERVER_ERROR"
  <2> DEFINE text == p.message
  <2>1. text \in TextsOf(p) /\ BodyOf(p) = putText(text)
    BY <1>8 DEF TextsOf, BodyOf, Strings, Documents, PlainDocuments
  <2>2. HasString(putText(text)) /\ Taken(putText(text)) = text
    BY <1>5, <2>1, TextAlone
  <2>3. Read(cells) = [opcode |-> p.opcode, message |-> text]
    BY <1>3, <1>8, <2>1, <2>2 DEF Documents, PlainDocuments
  <2>4. p = [f \in {"opcode", "message"} |-> p[f]]
    BY <1>4, <1>8 DEF HasFields, FieldsOf
  <2>5. p = [opcode |-> p.opcode, message |-> text]
    BY <2>4
  <2>. QED
    BY <1>8, <2>3, <2>5 DEF AsReceived, cells
<1>9. CASE p.opcode = "MAP_SERVER_REGISTRATION_RESPONSE"
  BY <1>3, <1>9 DEF AsReceived, Documents, PlainDocuments, cells
<1>10. CASE /\ p.opcode \notin Documents
            /\ p.opcode \notin {"MAP_SERVER_REGISTRATION_REQUEST", "NO_MAP_SERVER_ERROR", "MAP_SERVER_REGISTRATION_RESPONSE"}
  <2>1. Read(cells) = [opcode |-> p.opcode]
    BY <1>3, <1>10
  <2>2. p.opcode # "CHARACTER_SELECT"
    BY SentAssumption DEF SessionOpcodes
  <2>3. FieldsOf(p.opcode) = {}
    BY <1>10, <2>2 DEF FieldsOf, Documents, PlainDocuments
  <2>4. p = [f \in {"opcode"} |-> p[f]]
    BY <1>4, <2>3 DEF HasFields
  <2>5. p = [opcode |-> p.opcode]
    BY <2>4
  <2>6. AsReceived(p) = p
    BY <1>10 DEF AsReceived, Documents
  <2>. QED
    BY <2>1, <2>5, <2>6 DEF cells
<1>. QED
  BY <1>6, <1>7, <1>8, <1>9, <1>10

\* What a session is sent is an opcode and, when it is a selection, an id.
LEMMA SelectionRead ==
    ASSUME NEW p \in SessionPackets, p.opcode = "CHARACTER_SELECT"
    PROVE  /\ Len(Written(p)) = 2 + LongLength
           /\ Number(SubSeq(Written(p), 3, 2 + LongLength)) = p.characterID
           /\ HasNumber(SubSeq(Written(p), 3, 2 + LongLength), LongLength)
           /\ p = [opcode |-> "CHARACTER_SELECT", characterID |-> p.characterID]
<1> DEFINE cells == Written(p)
<1> DEFINE id == putLong(p.characterID)
<1>1. p \in Sendable /\ LongLength \in Nat /\ LongLength > 0
  BY PacketsAssumption DEF Sendable
<1>2. BodyOf(p) = id
  BY DEF BodyOf, Strings, Documents, PlainDocuments
<1>3. Fits(p.characterID, LongLength)
  BY <1>1, SendableTyped, Zenon DEF IsPacket
<1>4. Number(id) = p.characterID /\ Len(id) = LongLength /\ HasNumber(id, LongLength)
  <2>1. p.characterID \in Nat
    BY <1>3 DEF Fits
  <2>2. Number(id) = p.characterID /\ id \in [1..LongLength -> {"byte"} \X Nat]
    BY <1>1, <1>3, <2>1, NumberOfBytes, BytesTyped DEF putLong
  <2>. HIDE DEF id
  <2>3. Len(id) = LongLength /\ \A i \in 1..LongLength : id[i] \in {"byte"} \X Nat
    BY <1>1, <2>2, IsSequence
  <2>4. \A i \in 1..LongLength : id[i][1] = "byte"
    BY <2>3
  <2>. QED
    BY <1>1, <2>2, <2>3, <2>4 DEF HasNumber
<1>5. id \in Seq(Cell)
  BY <1>1, <1>2, BodyTyped
<1>6. cells \in Seq(Cell) /\ Rest(cells, 2) = id
  BY <1>1, <1>2, WrittenTyped
<1>7. Len(cells) = 2 + LongLength
  <2>1. OpcodeNumber(p.opcode) \in 0..(Range16 - 1)
    BY <1>1, SendableTyped
  <2>2. Len(putShort(OpcodeNumber(p.opcode)) \o BodyOf(p)) = 2 + Len(BodyOf(p))
    BY <1>2, <1>5, <2>1, ShortThen
  <2>. QED
    BY <1>1, <1>2, <1>4, <2>2, WrittenTyped
<1>8. p = [opcode |-> "CHARACTER_SELECT", characterID |-> p.characterID]
  <2>1. HasFields(p, {"opcode"} \cup FieldsOf(p.opcode))
    BY <1>1, SendableTyped, Zenon DEF IsPacket
  <2>2. p = [f \in {"opcode", "characterID"} |-> p[f]]
    BY <2>1 DEF HasFields, FieldsOf
  <2>. QED
    BY <2>2
<1>. HIDE DEF cells, id
<1>9. SubSeq(cells, 3, 2 + LongLength) = id
  BY <1>6, <1>7 DEF Rest
<1>. QED
  BY <1>4, <1>7, <1>8, <1>9 DEF cells

LEMMA RequestRead ==
    ASSUME NEW p \in SessionPackets, p.opcode = "REQUEST_CHARACTERS"
    PROVE  Len(Written(p)) = 2 /\ p = [opcode |-> "REQUEST_CHARACTERS"]
<1>1. p \in Sendable
  BY DEF Sendable
<1>2. BodyOf(p) = <<>>
  BY DEF BodyOf, Strings, Documents, PlainDocuments
<1>3. Len(Written(p)) = 2
  <2>1. OpcodeNumber(p.opcode) \in 0..(Range16 - 1) /\ <<>> \in Seq(Cell) /\ Len(<<>>) = 0
    BY <1>1, SendableTyped, EmptySeq
  <2>2. Len(putShort(OpcodeNumber(p.opcode)) \o <<>>) = 2 + Len(<<>>)
    BY <2>1, ShortThen
  <2>. QED
    BY <1>1, <1>2, <2>1, <2>2, WrittenTyped
<1>4. HasFields(p, {"opcode"} \cup FieldsOf(p.opcode))
  BY <1>1, SendableTyped, Zenon DEF IsPacket
<1>5. p = [f \in {"opcode"} |-> p[f]]
  BY <1>4 DEF HasFields, FieldsOf
<1>6. p = [opcode |-> "REQUEST_CHARACTERS"]
  BY <1>5
<1>. QED
  BY <1>3, <1>6

-----------------------------------------------------------------------------
(* The stream. *)

Senders == IF inSession THEN SessionPackets ELSE HandshakePackets

\* What a reader can make of cells.
Decoded ==
    {Read(cells) : cells \in Seq(Cell)} \cup {Garbage, [opcode |-> "REQUEST_CHARACTERS"]}
        \cup {Selection(cells) : cells \in Seq(Cell)}

FramingTyped ==
    /\ inSession \in BOOLEAN /\ faulty \in BOOLEAN /\ cut \in BOOLEAN
    /\ sent \in Seq(Senders) /\ stream \in Seq(Cell) /\ handled \in Seq(Decoded)

\* The packets from m on stand in the stream one behind the other, packet j from at[j] on,
\* and nothing else does; of packet m the first o cells have been read.
Positions(at, m, o) ==
    /\ at[m] = 0 - o /\ at[Len(sent) + 1] = Len(stream)
    /\ \A i, j \in m..(Len(sent) + 1) : i =< j => at[i] =< at[j]
    /\ \A j \in m..Len(sent) :
           /\ at[j + 1] = at[j] + Len(Written(sent[j]))
           /\ \A k \in 1..Len(Written(sent[j])) : at[j] + k > 0 => stream[at[j] + k] = Written(sent[j])[k]

StandsAt(m, o) ==
    /\ m \in 1..(Len(sent) + 1) /\ o \in Nat
    /\ o > 0 => m =< Len(sent) /\ o < Len(Written(sent[m]))
    /\ \E at \in [1..(Len(sent) + 1) -> Int] : Positions(at, m, o)

\* The reader has handled one packet after the other.
InStep == StandsAt(Len(handled) + 1, 0)

\* A session that skips two bytes after the other is in front of a packet or at an even
\* place of one it does not know.
InPairs ==
    \E m \in Nat : \E e \in Nat : StandsAt(m, 2 * e) /\ (e > 0 => sent[m].opcode \notin SessionOpcodes)

\* Of the first i packets the reader knows every one.
KnownUpTo(i) == \A j \in 1..i : j \in 1..Len(sent) => ~Unknown(sent[j])

\* A cell of the stream is one of a packet that was sent, and so is what is left in front
\* of it.
Sourced ==
    \A i \in 1..Len(stream) : \E j \in 1..Len(sent) : \E k \in 1..Len(Written(sent[j])) :
        \A d \in 0..(k - 1) : d < i => stream[i - d] = Written(sent[j])[k - d]

\* Until a read is cut the reader is in step up to the first packet it does not know, and
\* has handled what was sent up to there.
Uncut ==
    /\ ~cut => ~faulty
    /\ ~cut /\ KnownUpTo(Len(handled)) => InStep
    /\ ~cut => \A i \in 1..Len(handled) : KnownUpTo(i) =>
                  /\ i \in 1..Len(sent)
                  /\ IF inSession THEN handled[i] = sent[i] ELSE ~Outgrown(sent[i]) => handled[i] = AsReceived(sent[i])

\* A session that is out of step has failed or has refused a packet.
Refused ==
    inSession /\ (cut \/ ~KnownUpTo(Len(handled))) => faulty \/ \E j \in 1..Len(handled) : handled[j] = Garbage

\* It skips what it does not know in pairs, unless that has an odd end.
Paired == inSession /\ ~cut /\ (\A j \in 1..Len(sent) : ~PutsOutOfStep(sent[j])) => InPairs

FramingInv == FramingTyped /\ Sourced /\ Uncut /\ Refused /\ Paired /\ RequestsMade /\ TextsNeverForged

LEMMA SendersSendable ==
    /\ Senders \subseteq Sendable
    /\ \A p \in Senders : Written(p) \in Seq(Cell) /\ Len(Written(p)) \in Nat /\ Len(Written(p)) >= 2
<1>1. Senders \subseteq Sendable
  BY DEF Senders, Sendable
<1>. QED
  BY <1>1, WrittenTyped

LEMMA LeastOfTwo ==
    ASSUME NEW a \in Int, NEW b \in Int
    PROVE  Min({a, b}) \in {a, b} /\ Min({a, b}) =< a /\ Min({a, b}) =< b
<1>1. \E x \in {a, b} : \A y \in {a, b} : x =< y
  OBVIOUS
<1>2. Min({a, b}) = CHOOSE x \in {a, b} : \A y \in {a, b} : x =< y
  BY DEF Min
<1>. QED
  BY <1>1, <1>2

\* What stands in front of the stream.
LEMMA NextAt ==
    ASSUME FramingTyped, NEW m \in Nat, NEW o \in Nat, StandsAt(m, o), Len(stream) > 0
    PROVE  /\ m \in 1..Len(sent) /\ sent[m] \in Senders
           /\ Len(Written(sent[m])) \in Nat /\ Len(Written(sent[m])) >= 2
           /\ o < Len(Written(sent[m])) /\ Len(Written(sent[m])) - o =< Len(stream)
           /\ \A k \in 1..(Len(Written(sent[m])) - o) : stream[k] = Written(sent[m])[o + k]
<1>1. Len(sent) \in Nat /\ Len(stream) \in Nat /\ m \in 1..(Len(sent) + 1)
  BY LenProperties DEF FramingTyped, StandsAt
<1>2. PICK at \in [1..(Len(sent) + 1) -> Int] : Positions(at, m, o)
  BY DEF StandsAt
<1>3. at[m] = 0 - o /\ at[Len(sent) + 1] = Len(stream)
  BY <1>2 DEF Positions
<1>4. m \in 1..Len(sent)
  BY <1>1, <1>3
<1> DEFINE p == sent[m]
<1> DEFINE l == Len(Written(p))
<1>5. p \in Senders
  BY <1>4, ElementOfSeq DEF FramingTyped
<1>6. l \in Nat /\ l >= 2
  BY <1>5, SendersSendable
<1>7. o < l
  BY <1>6 DEF StandsAt
<1>8. at[m + 1] = at[m] + l /\ \A k \in 1..l : at[m] + k > 0 => stream[at[m] + k] = Written(p)[k]
  BY <1>1, <1>2, <1>4 DEF Positions
<1>9. at[m + 1] =< at[Len(sent) + 1]
  <2>1. m + 1 \in m..(Len(sent) + 1) /\ Len(sent) + 1 \in m..(Len(sent) + 1) /\ m + 1 =< Len(sent) + 1
    BY <1>1, <1>4
  <2>. QED
    BY <1>2, <2>1 DEF Positions
<1>. HIDE DEF p, l
<1>10. l - o =< Len(stream)
  BY <1>3, <1>6, <1>8, <1>9
<1>11. ASSUME NEW k \in 1..(l - o) PROVE stream[k] = Written(p)[o + k]
  <2>1. o + k \in 1..l /\ at[m] + (o + k) = k /\ k > 0
    BY <1>3, <1>6, <1>7, <1>11
  <2>. QED
    BY <1>8, <2>1
<1>. QED
  BY <1>4, <1>5, <1>6, <1>7, <1>10, <1>11 DEF p, l

\* What the reader meets when it is in step.
LEMMA NextInStep ==
    ASSUME FramingTyped, InStep, Len(stream) > 0
    PROVE  /\ Len(handled) + 1 \in 1..Len(sent) /\ sent[Len(handled) + 1] \in Senders
           /\ EndOfNext \in Nat /\ EndOfNext >= 2 /\ EndOfNext =< Len(stream)
           /\ SubSeq(stream, 1, EndOfNext) = Written(sent[Len(handled) + 1])
<1>1. PICK m \in Nat : m = Len(handled) + 1
  BY LenProperties DEF FramingTyped
<1>2. StandsAt(m, 0) /\ 0 \in Nat
  BY <1>1 DEF InStep
<1> DEFINE w == Written(sent[m])
<1>3. /\ m \in 1..Len(sent) /\ sent[m] \in Senders /\ Len(w) \in Nat /\ Len(w) >= 2 /\ Len(w) - 0 =< Len(stream)
      /\ \A k \in 1..(Len(w) - 0) : stream[k] = w[0 + k]
  BY <1>2, NextAt
<1>4. EndOfNext = Len(w)
  BY <1>1 DEF EndOfNext
<1>5. w \in Seq(Cell) /\ stream \in Seq(Cell) /\ Len(stream) \in Nat
  BY <1>3, SendersSendable, LenProperties DEF FramingTyped
<1>. HIDE DEF w
<1>6. Len(w) =< Len(stream) /\ \A k \in 1..Len(w) : k \in 1..Len(stream) /\ stream[k] = w[k]
  BY <1>3, <1>5
<1>7. SubSeq(stream, 1, Len(w)) = w
  <2>1. \A k \in 1..Len(w) : stream[k] \in Cell
    BY <1>5, <1>6, ElementOfSeq
  <2>2. /\ SubSeq(stream, 1, Len(w)) \in Seq(Cell)
        /\ Len(SubSeq(stream, 1, Len(w))) = Len(w)
        /\ \A k \in 1..Len(w) : SubSeq(stream, 1, Len(w))[k] = stream[k]
    BY <1>3, <2>1, SubSeqProperties
  <2>. QED
    BY <1>5, <1>6, <2>2, SeqEqual
<1>. QED
  BY <1>1, <1>3, <1>4, <1>6, <1>7 DEF w

LEMMA RestTyped ==
    ASSUME NEW cells \in Seq(Cell), NEW n \in 0..Len(cells)
    PROVE  /\ Rest(cells, n) \in Seq(Cell) /\ Len(Rest(cells, n)) = Len(cells) - n
           /\ \A i \in 1..(Len(cells) - n) : Rest(cells, n)[i] = cells[n + i]
<1>1. Len(cells) \in Nat
  BY LenProperties
<1>2. \A i \in (n + 1)..Len(cells) : cells[i] \in Cell
  BY <1>1, ElementOfSeq
<1>3. /\ SubSeq(cells, n + 1, Len(cells)) \in Seq(Cell)
      /\ Len(SubSeq(cells, n + 1, Len(cells))) = Len(cells) - n
      /\ \A i \in 1..(Len(cells) - n) : SubSeq(cells, n + 1, Len(cells))[i] = cells[(n + 1) + i - 1]
  BY <1>1, <1>2, SubSeqProperties
<1>4. \A i \in 1..(Len(cells) - n) : (n + 1) + i - 1 = n + i
  BY <1>1
<1>. QED
  BY <1>3, <1>4 DEF Rest

LEMMA Taking ==
    ASSUME FramingTyped, NEW n \in 0..Len(stream), Take(n)
    PROVE  /\ stream' \in Seq(Cell) /\ Len(stream') = Len(stream) - n
           /\ \A i \in 1..(Len(stream) - n) : stream'[i] = stream[n + i]
BY RestTyped DEF FramingTyped, Take

\* Who takes a part of the next packet stands inside of it, and who takes the rest of it
\* stands in front of the one behind.
LEMMA TakesPart ==
    ASSUME FramingTyped, NEW m \in Nat, NEW o \in Nat, StandsAt(m, o), Len(stream) > 0, UNCHANGED sent,
           NEW n \in Nat, n > 0, n =< Len(Written(sent[m])) - o, Take(n)
    PROVE  IF n = Len(Written(sent[m])) - o THEN StandsAt(m + 1, 0)' ELSE StandsAt(m, o + n)'
<1> DEFINE l == Len(Written(sent[m]))
<1>1. Len(sent) \in Nat /\ Len(stream) \in Nat
  BY LenProperties DEF FramingTyped
<1>2. m \in 1..Len(sent) /\ l \in Nat /\ o < l /\ l - o =< Len(stream)
  BY NextAt
<1>3. PICK at \in [1..(Len(sent) + 1) -> Int] : Positions(at, m, o)
  BY DEF StandsAt
<1>4. Len(stream') = Len(stream) - n /\ \A i \in 1..(Len(stream) - n) : stream'[i] = stream[n + i]
  <2>1. n \in 0..Len(stream)
    BY <1>1, <1>2
  <2>. QED
    BY <2>1, Taking
<1>5. at[m] = 0 - o /\ at[m + 1] = l - o /\ at[Len(sent) + 1] = Len(stream)
  <2>1. m \in m..Len(sent)
    BY <1>2
  <2>2. at[m] = 0 - o /\ at[m + 1] = at[m] + l /\ at[Len(sent) + 1] = Len(stream)
    BY <1>3, <2>1 DEF Positions
  <2>. QED
    BY <1>2, <2>2
<1>. HIDE DEF l
<1>6. PICK next \in [1..(Len(sent) + 1) -> Int] : \A j \in 1..(Len(sent) + 1) : next[j] = at[j] - n
  <2> DEFINE shifted == [j \in 1..(Len(sent) + 1) |-> at[j] - n]
  <2>1. shifted \in [1..(Len(sent) + 1) -> Int] /\ \A j \in 1..(Len(sent) + 1) : shifted[j] = at[j] - n
    BY <1>2
  <2>. HIDE DEF shifted
  <2>. QED
    BY <2>1
<1>7. next[m] = 0 - (o + n) /\ next[m + 1] = (l - o) - n /\ next[Len(sent) + 1] = Len(stream')
  <2>1. m \in 1..(Len(sent) + 1) /\ m + 1 \in 1..(Len(sent) + 1) /\ Len(sent) + 1 \in 1..(Len(sent) + 1)
    BY <1>1, <1>2
  <2>2. next[m] = at[m] - n /\ next[m + 1] = at[m + 1] - n /\ next[Len(sent) + 1] = at[Len(sent) + 1] - n
    BY <1>6, <2>1
  <2>3. (0 - o) - n = 0 - (o + n) /\ (l - o) - n \in Int
    BY <1>2
  <2>. QED
    BY <1>4, <1>5, <2>2, <2>3, Zenon
<1>8. \A i, j \in m..(Len(sent) + 1) : i =< j => next[i] =< next[j]
  <2>. TAKE i, j \in m..(Len(sent) + 1)
  <2>. HAVE i =< j
  <2>1. i \in 1..(Len(sent) + 1) /\ j \in 1..(Len(sent) + 1)
    BY <1>1, <1>2
  <2>2. at[i] =< at[j]
    BY <1>3 DEF Positions
  <2>3. at[i] \in Int /\ at[j] \in Int
    BY <2>1
  <2>. QED
    BY <1>6, <2>1, <2>2, <2>3
<1>9. ASSUME NEW j \in m..Len(sent)
      PROVE  /\ next[j + 1] = next[j] + Len(Written(sent[j]))
             /\ \A k \in 1..Len(Written(sent[j])) : next[j] + k > 0 => stream'[next[j] + k] = Written(sent[j])[k]
  <2>1. j \in 1..Len(sent) /\ j \in 1..(Len(sent) + 1) /\ j + 1 \in 1..(Len(sent) + 1)
    BY <1>1, <1>2
  <2>2. /\ at[j + 1] = at[j] + Len(Written(sent[j]))
        /\ \A k \in 1..Len(Written(sent[j])) : at[j] + k > 0 => stream[at[j] + k] = Written(sent[j])[k]
    BY <1>3 DEF Positions
  <2>3. at[j] \in Int /\ at[j + 1] \in Int /\ Len(Written(sent[j])) \in Nat
    <3>1. sent[j] \in Senders
      BY <2>1, ElementOfSeq DEF FramingTyped
    <3>. QED
      BY <2>1, <3>1, SendersSendable
  <2>4. at[j + 1] =< Len(stream)
    <3>1. j + 1 \in m..(Len(sent) + 1) /\ Len(sent) + 1 \in m..(Len(sent) + 1) /\ j + 1 =< Len(sent) + 1
      BY <1>1, <1>2
    <3>. QED
      BY <1>3, <1>5, <3>1 DEF Positions
  <2>5. next[j] = at[j] - n /\ next[j + 1] = at[j + 1] - n
    BY <1>6, <2>1
  <2>6. ASSUME NEW k \in 1..Len(Written(sent[j])), next[j] + k > 0 PROVE stream'[next[j] + k] = Written(sent[j])[k]
    <3> DEFINE q == Len(Written(sent[j]))
    <3> DEFINE a == at[j]
    <3>1. q \in Nat /\ k \in 1..q /\ a \in Int /\ a + q =< Len(stream) /\ next[j] = a - n /\ next[j] + k > 0
      BY <2>2, <2>3, <2>4, <2>5, <2>6
    <3>. HIDE DEF q, a
    <3>2. next[j] + k \in 1..(Len(stream) - n) /\ n + (next[j] + k) = a + k /\ a + k > 0
      BY <1>1, <3>1
    <3>3. stream'[next[j] + k] = stream[n + (next[j] + k)]
      BY <1>4, <3>2
    <3>. QED
      BY <2>2, <3>2, <3>3 DEF a
  <2>. QED
    BY <2>2, <2>3, <2>5, <2>6
<1>10. CASE n = l - o
  <2>1. m + 1 \in 1..(Len(sent') + 1) /\ next[m + 1] = 0 - 0 /\ next[Len(sent') + 1] = Len(stream')
    BY <1>1, <1>2, <1>7, <1>10
  <2>2. \A j : (j \in (m + 1)..(Len(sent) + 1) => j \in m..(Len(sent) + 1)) /\ (j \in (m + 1)..Len(sent) => j \in m..Len(sent))
    BY <1>1
  <2>3. Positions(next, m + 1, 0)'
    BY <1>8, <1>9, <2>1, <2>2 DEF Positions
  <2>4. StandsAt(m + 1, 0)'
    BY <1>6, <2>1, <2>3 DEF StandsAt
  <2>. QED
    BY <1>10, <2>4 DEF l
<1>11. CASE n # l - o
  <2>1. o + n \in Nat /\ o + n < l /\ m \in 1..(Len(sent') + 1) /\ m =< Len(sent')
    BY <1>1, <1>2, <1>11 DEF l
  <2>2. Positions(next, m, o + n)'
    BY <1>7, <1>8, <1>9 DEF Positions
  <2>3. StandsAt(m, o + n)'
    BY <1>6, <2>1, <2>2 DEF StandsAt, l
  <2>. QED
    BY <1>11, <2>3 DEF l
<1>. QED
  BY <1>10, <1>11

\* Who takes the next packet and no more stays in step.
LEMMA StaysInStep ==
    ASSUME FramingTyped, InStep, Len(stream) > 0, Take(EndOfNext), UNCHANGED sent,
           Len(handled') = Len(handled) + 1
    PROVE  InStep'
<1>1. PICK m \in Nat : m = Len(handled) + 1
  BY LenProperties DEF FramingTyped
<1>2. PICK n \in Nat : n = EndOfNext
  BY NextInStep
<1>3. StandsAt(m, 0) /\ 0 \in Nat /\ Take(n)
  BY <1>1, <1>2 DEF InStep
<1>4. n > 0 /\ n = Len(Written(sent[m])) - 0
  <2>1. EndOfNext = Len(Written(sent[m])) /\ EndOfNext >= 2
    BY <1>1, NextInStep DEF EndOfNext
  <2>. QED
    BY <1>2, <2>1
<1>5. n =< Len(Written(sent[m])) - 0
  BY <1>4
<1>6. StandsAt(m + 1, 0)'
  BY <1>3, <1>4, <1>5, TakesPart
<1>7. m + 1 = Len(handled') + 1
  BY <1>1
<1>. QED
  BY <1>6, <1>7 DEF InStep

-----------------------------------------------------------------------------
(* Texts. *)

\* A packet with one text, behind its length.
LEMMA OneText ==
    ASSUME NEW p \in Sendable, NEW text \in TextsOf(p), BodyOf(p) = putText(text),
           NEW k \in 1..Len(Written(p)), Written(p)[k][1] = "text", Written(p)[k][3] = 1
    PROVE  k = 5 /\ Written(p)[5][2] = text
<1> DEFINE w == Written(p)
<1> DEFINE short == putShort(OpcodeNumber(p.opcode))
<1> DEFINE body == putText(text)
<1> DEFINE n == TextLength(text)
<1>1. text \in Texts /\ n \in Nat
  BY SendableTyped
<1>2. /\ body \in Seq(Cell) /\ Len(body) = 2 + n
      /\ body[1][1] = "byte" /\ body[2][1] = "byte" /\ \A i \in 1..n : body[2 + i] = <<"text", text, i>>
  BY <1>1, TextTyped
<1>3. short \in Seq(Cell) /\ Len(short) = 2 /\ short[1][1] = "byte" /\ short[2][1] = "byte"
  <2>1. ({"byte"} \X Nat) \subseteq Cell
    BY DEF Cell
  <2>2. OpcodeNumber(p.opcode) \in Nat
    BY SendableTyped, BaseTyped
  <2>. QED
    BY <2>1, <2>2, ShortTyped, SeqMonotonic
<1>4. w = short \o body
  BY WrittenTyped
<1>. HIDE DEF short, body, n
<1>5. /\ Len(short \o body) = Len(short) + Len(body)
      /\ \A i \in 1..(Len(short) + Len(body)) :
             (short \o body)[i] = IF i <= Len(short) THEN short[i] ELSE body[i - Len(short)]
  BY <1>2, <1>3, ConcatProperties
<1>. HIDE DEF w
<1>6. k \in 1..(4 + n) /\ w[k][1] = "text" /\ w[k][3] = 1
  BY <1>1, <1>2, <1>3, <1>4, <1>5 DEF w
<1>7. w[1] = short[1] /\ w[2] = short[2] /\ w[3] = body[1] /\ w[4] = body[2]
  BY <1>1, <1>2, <1>3, <1>4, <1>5
<1>8. k \notin 1..4
  <2>1. w[1][1] = "byte" /\ w[2][1] = "byte" /\ w[3][1] = "byte" /\ w[4][1] = "byte"
    BY <1>2, <1>3, <1>7
  <2>2. k # 1 /\ k # 2 /\ k # 3 /\ k # 4
    BY <1>6, <2>1, "byte" # "text"
  <2>. QED
    BY <2>2
<1>9. k - 4 \in 1..n /\ w[k] = body[2 + (k - 4)]
  <2>1. k - 4 \in 1..n /\ k - 2 = 2 + (k - 4) /\ ~(k <= 2) /\ k \in 1..(2 + (2 + n))
    BY <1>1, <1>6, <1>8
  <2>. QED
    BY <1>2, <1>3, <1>4, <1>5, <2>1
<1>10. w[k] = <<"text", text, k - 4>>
  BY <1>2, <1>9
<1>11. k - 4 = 1
  BY <1>6, <1>10
<1>12. k = 5
  BY <1>6, <1>11
<1>13. w[5][2] = text
  BY <1>10, <1>12
<1>. QED
  BY <1>12, <1>13 DEF w

\* The texts of a registration: the second one is behind the first, and in front of its
\* length there is a piece of the first text, or no opcode.
LEMMA TwoTexts ==
    ASSUME NEW p \in Sendable, p.opcode = "MAP_SERVER_REGISTRATION_REQUEST",
           NEW k \in 1..Len(Written(p)), Written(p)[k][1] = "text", Written(p)[k][3] = 1
    PROVE  \/ k = 5
           \/ k > 7 /\ Written(p)[k - 3][1] = "text"
           \/ k = 7 /\ SubSeq(Written(p), 3, 4) = putShort(0)
<1> DEFINE w == Written(p)
<1> DEFINE short == putShort(OpcodeNumber(p.opcode))
<1> DEFINE first == putText(p.mapServerFriendlyName)
<1> DEFINE second == putText(p.mapServerListenAddress)
<1> DEFINE port == putShort(p.port)
<1> DEFINE n == TextLength(p.mapServerFriendlyName)
<1> DEFINE m == TextLength(p.mapServerListenAddress)
<1>1. /\ p.mapServerFriendlyName \in Texts /\ p.mapServerListenAddress \in Texts /\ n \in Nat /\ m \in Nat
      /\ p.opcode \notin Documents
  <2>1. p.opcode \notin Documents
    BY DEF Documents, PlainDocuments
  <2>2. TextsOf(p) = {p.mapServerFriendlyName, p.mapServerListenAddress}
    BY <2>1 DEF TextsOf
  <2>. QED
    BY <2>1, <2>2, SendableTyped
<1>2. /\ first \in Seq(Cell) /\ Len(first) = 2 + n /\ first[1][1] = "byte" /\ first[2][1] = "byte"
      /\ SubSeq(first, 1, 2) = putShort(n)
      /\ \A i \in 1..n : first[2 + i] = <<"text", p.mapServerFriendlyName, i>>
  BY <1>1, TextTyped
<1>3. /\ second \in Seq(Cell) /\ Len(second) = 2 + m /\ second[1][1] = "byte" /\ second[2][1] = "byte"
      /\ \A i \in 1..m : second[2 + i] = <<"text", p.mapServerListenAddress, i>>
  BY <1>1, TextTyped
<1>4. ({"byte"} \X Nat) \subseteq Cell
  BY DEF Cell
<1>5. short \in Seq(Cell) /\ Len(short) = 2 /\ short[1][1] = "byte" /\ short[2][1] = "byte"
  <2>1. OpcodeNumber(p.opcode) \in Nat
    BY SendableTyped, BaseTyped
  <2>. QED
    BY <1>4, <2>1, ShortTyped, SeqMonotonic
<1>6. port \in Seq(Cell) /\ Len(port) = 2 /\ port[1][1] = "byte" /\ port[2][1] = "byte"
  <2>1. p.port \in 0..(Range16 - 1)
    BY SendableTyped, Zenon DEF IsPacket
  <2>2. p.port \in Nat
    BY <2>1, BaseTyped
  <2>. QED
    BY <1>4, <2>2, ShortTyped, SeqMonotonic
<1>7. w = short \o (first \o second \o port)
  BY <1>1, WrittenTyped DEF BodyOf, Strings
<1>. HIDE DEF short, first, second, port, n, m
<1> DEFINE texts == first \o second
<1>8. /\ texts \in Seq(Cell) /\ Len(texts) = 4 + n + m
      /\ \A i \in 1..(4 + n + m) : texts[i] = IF i <= 2 + n THEN first[i] ELSE second[i - (2 + n)]
  <2>1. /\ texts \in Seq(Cell) /\ Len(texts) = Len(first) + Len(second)
        /\ \A i \in 1..(Len(first) + Len(second)) : texts[i] = IF i <= Len(first) THEN first[i] ELSE second[i - Len(first)]
    BY <1>2, <1>3, ConcatProperties
  <2>2. Len(first) + Len(second) = 4 + n + m
    BY <1>1, <1>2, <1>3
  <2>. HIDE DEF texts
  <2>. QED
    BY <1>2, <2>1, <2>2
<1>. HIDE DEF texts
<1> DEFINE body == texts \o port
<1>9. /\ body \in Seq(Cell) /\ Len(body) = 6 + n + m
      /\ \A i \in 1..(6 + n + m) : body[i] = IF i <= 4 + n + m THEN texts[i] ELSE port[i - (4 + n + m)]
  <2>1. /\ body \in Seq(Cell) /\ Len(body) = Len(texts) + Len(port)
        /\ \A i \in 1..(Len(texts) + Len(port)) : body[i] = IF i <= Len(texts) THEN texts[i] ELSE port[i - Len(texts)]
    BY <1>6, <1>8, ConcatProperties
  <2>2. Len(texts) + Len(port) = 6 + n + m
    BY <1>1, <1>6, <1>8
  <2>. HIDE DEF body
  <2>. QED
    BY <1>8, <2>1, <2>2
<1>10. w = short \o body
  BY <1>7 DEF texts
<1>. HIDE DEF body
<1>11. /\ w \in Seq(Cell) /\ Len(w) = 8 + n + m
       /\ \A i \in 1..(8 + n + m) : w[i] = IF i <= 2 THEN short[i] ELSE body[i - 2]
  <2>1. /\ short \o body \in Seq(Cell) /\ Len(short \o body) = Len(short) + Len(body)
        /\ \A i \in 1..(Len(short) + Len(body)) : (short \o body)[i] = IF i <= Len(short) THEN short[i] ELSE body[i - Len(short)]
    BY <1>5, <1>9, ConcatProperties
  <2>2. Len(short) + Len(body) = 8 + n + m
    BY <1>1, <1>5, <1>9
  <2>. HIDE DEF w
  <2>. QED
    BY <1>5, <1>10, <2>1, <2>2
<1>12. k \in 1..(8 + n + m) /\ w[k][1] = "text" /\ w[k][3] = 1
  BY <1>11
<1>. HIDE DEF w
<1>13. w[1] = short[1] /\ w[2] = short[2]
  BY <1>1, <1>11
<1>14. \A i \in 1..(2 + n) : w[2 + i] = first[i]
  <2>. TAKE i \in 1..(2 + n)
  <2>1. 2 + i \in 1..(8 + n + m) /\ ~(2 + i <= 2) /\ (2 + i) - 2 = i /\ i \in 1..(6 + n + m) /\ i <= 4 + n + m
        /\ i \in 1..(4 + n + m) /\ i <= 2 + n
    BY <1>1
  <2>. QED
    BY <1>8, <1>9, <1>11, <2>1
<1>15. \A i \in 1..(2 + m) : w[4 + n + i] = second[i]
  <2>. TAKE i \in 1..(2 + m)
  <2>1. /\ 4 + n + i \in 1..(8 + n + m) /\ ~(4 + n + i <= 2) /\ (4 + n + i) - 2 = 2 + n + i
        /\ 2 + n + i \in 1..(6 + n + m) /\ 2 + n + i <= 4 + n + m
        /\ 2 + n + i \in 1..(4 + n + m) /\ ~(2 + n + i <= 2 + n) /\ (2 + n + i) - (2 + n) = i
    BY <1>1
  <2>. QED
    BY <1>8, <1>9, <1>11, <2>1
<1>16. w[7 + n + m] = port[1] /\ w[8 + n + m] = port[2]
  <2>1. /\ 7 + n + m \in 1..(8 + n + m) /\ ~(7 + n + m <= 2) /\ (7 + n + m) - 2 = 5 + n + m
        /\ 8 + n + m \in 1..(8 + n + m) /\ ~(8 + n + m <= 2) /\ (8 + n + m) - 2 = 6 + n + m
    BY <1>1
  <2>2. /\ 5 + n + m \in 1..(6 + n + m) /\ ~(5 + n + m <= 4 + n + m) /\ (5 + n + m) - (4 + n + m) = 1
        /\ 6 + n + m \in 1..(6 + n + m) /\ ~(6 + n + m <= 4 + n + m) /\ (6 + n + m) - (4 + n + m) = 2
    BY <1>1
  <2>. QED
    BY <1>9, <1>11, <2>1, <2>2
<1>17. /\ w[1][1] = "byte" /\ w[2][1] = "byte" /\ w[3][1] = "byte" /\ w[4][1] = "byte"
       /\ w[5 + n][1] = "byte" /\ w[6 + n][1] = "byte" /\ w[7 + n + m][1] = "byte" /\ w[8 + n + m][1] = "byte"
  <2>1. 1 \in 1..(2 + n) /\ 2 \in 1..(2 + n) /\ 1 \in 1..(2 + m) /\ 2 \in 1..(2 + m)
        /\ 2 + 1 = 3 /\ 2 + 2 = 4 /\ 4 + n + 1 = 5 + n /\ 4 + n + 2 = 6 + n
    BY <1>1
  <2>2. w[3] = first[1] /\ w[4] = first[2] /\ w[5 + n] = second[1] /\ w[6 + n] = second[2]
    BY <1>14, <1>15, <2>1
  <2>. QED
    BY <1>2, <1>3, <1>5, <1>6, <1>13, <1>16, <2>2
<1>18. k \notin {1, 2, 3, 4, 5 + n, 6 + n, 7 + n + m, 8 + n + m}
  BY <1>12, <1>17, "byte" # "text"
<1>19. CASE k \in 5..(4 + n)
  <2>1. k - 4 \in 1..n /\ 2 + (k - 4) \in 1..(2 + n) /\ 2 + (2 + (k - 4)) = k
    BY <1>1, <1>19
  <2>2. w[k] = <<"text", p.mapServerFriendlyName, k - 4>>
    BY <1>2, <1>14, <2>1
  <2>3. k - 4 = 1
    BY <1>12, <2>2
  <2>. QED
    BY <1>19, <2>3
<1>20. CASE k \in (7 + n)..(6 + n + m)
  <2> DEFINE i == k - (6 + n)
  <2>1. i \in 1..m /\ 2 + i \in 1..(2 + m) /\ 4 + n + (2 + i) = k
    BY <1>1, <1>20
  <2>2. w[k] = <<"text", p.mapServerListenAddress, i>>
    BY <1>3, <1>15, <2>1
  <2>3. i = 1
    BY <1>12, <2>2
  <2>4. k = 7 + n
    BY <1>1, <1>20, <2>3
  <2>5. CASE n = 0
    <3>1. SubSeq(first, 1, 2) = putShort(0)
      BY <1>2, <2>5
    <3>2. /\ \A j \in 1..2 : first[j] \in Cell
          /\ \A j \in 3..4 : w[j] \in Cell
          /\ \A j \in 1..2 : w[2 + j] = first[j]
      <4>1. Len(first) = 2 /\ \A j \in 1..2 : j \in 1..(2 + n)
        BY <1>2, <2>5
      <4>2. \A j \in 1..2 : first[j] \in Cell /\ w[2 + j] = first[j]
        BY <1>2, <1>14, <4>1, ElementOfSeq
      <4>3. \A j \in 3..4 : j - 2 \in 1..2 /\ 2 + (j - 2) = j
        OBVIOUS
      <4>. QED
        BY <4>2, <4>3
    <3>3. SubSeq(first, 1, 2) \in Seq(Cell) /\ Len(SubSeq(first, 1, 2)) = 2 /\ \A j \in 1..2 : SubSeq(first, 1, 2)[j] = first[j]
      BY <3>2, SubSeqProperties
    <3>4. SubSeq(w, 3, 4) \in Seq(Cell) /\ Len(SubSeq(w, 3, 4)) = 2 /\ \A j \in 1..2 : SubSeq(w, 3, 4)[j] = w[2 + j]
      BY <3>2, SubSeqProperties
    <3>5. SubSeq(w, 3, 4) = SubSeq(first, 1, 2)
      BY <3>2, <3>3, <3>4, SeqEqual
    <3>. QED
      BY <2>4, <2>5, <3>1, <3>5 DEF w
  <2>6. CASE n > 0
    <3>1. n \in 1..n /\ 2 + n \in 1..(2 + n) /\ 2 + (2 + n) = k - 3
      BY <1>1, <2>4, <2>6
    <3>2. w[k - 3] = <<"text", p.mapServerFriendlyName, n>>
      BY <1>2, <1>14, <3>1
    <3>. QED
      BY <1>1, <2>4, <2>6, <3>2 DEF w
  <2>. QED
    BY <1>1, <2>5, <2>6
<1>. QED
  BY <1>1, <1>12, <1>18, <1>19, <1>20

\* A text that is accepted as a document has a byte for its opcode, one for its length,
\* and its first cell behind them.
LEMMA DocumentTaken ==
    ASSUME NEW cells \in Seq(Cell), Read(cells).opcode \in Documents
    PROVE  /\ Len(cells) >= 5 /\ cells[1][1] = "byte" /\ cells[2][1] = "byte"
           /\ cells[5][1] = "text" /\ cells[5][3] = 1
           /\ Number(SubSeq(cells, 1, 2)) \in DOMAIN OpcodeNames
           /\ LET opcode == OpcodeNames[Number(SubSeq(cells, 1, 2))] IN
              opcode \in Documents /\ Read(cells) = FromJSON(opcode, cells[5][2])
<1> DEFINE number == Number(SubSeq(cells, 1, 2))
<1> DEFINE opcode == OpcodeNames[number]
<1> DEFINE body == Rest(cells, 2)
<1>1. Garbage.opcode \notin Documents
  BY DEF Garbage, Documents, PlainDocuments
<1>2. HasNumber(cells, 2) /\ number \in DOMAIN OpcodeNames
  BY <1>1 DEF Read
<1>. HIDE DEF number, body
<1>3. Read(cells) = CASE opcode \in Documents -> ReadDocument(opcode, body)
                      [] opcode = "MAP_SERVER_REGISTRATION_REQUEST" -> ReadRegistration(body)
                      [] opcode = "NO_MAP_SERVER_ERROR" ->
                             IF HasString(body) THEN [opcode |-> opcode, message |-> Taken(body)] ELSE Garbage
                      [] OTHER -> [opcode |-> opcode]
  BY <1>2 DEF Read, number, body
<1>. HIDE DEF opcode
<1>4. opcode \in Documents
  <2>1. SUFFICES ASSUME opcode \notin Documents PROVE FALSE
    OBVIOUS
  <2>2. CASE opcode = "MAP_SERVER_REGISTRATION_REQUEST"
    <3>1. Read(cells) = ReadRegistration(body)
      BY <1>3, <2>1, <2>2
    <3>2. ReadRegistration(body).opcode \in {"MAP_SERVER_REGISTRATION_REQUEST", Garbage.opcode}
      BY DEF ReadRegistration
    <3>. QED
      BY <1>1, <2>1, <2>2, <3>1, <3>2
  <2>3. CASE opcode = "NO_MAP_SERVER_ERROR"
    <3>1. Read(cells) = IF HasString(body) THEN [opcode |-> opcode, message |-> Taken(body)] ELSE Garbage
      BY <1>3, <2>1, <2>3
    <3>. QED
      BY <1>1, <2>1, <3>1
  <2>4. CASE opcode \notin {"MAP_SERVER_REGISTRATION_REQUEST", "NO_MAP_SERVER_ERROR"}
    <3>1. Read(cells) = [opcode |-> opcode]
      BY <1>3, <2>1, <2>4
    <3>. QED
      BY <2>1, <3>1
  <2>. QED
    BY <2>2, <2>3, <2>4
<1>5. Read(cells) = ReadDocument(opcode, body)
  BY <1>3, <1>4 DEF Documents, PlainDocuments
<1> DEFINE string == StringOf(body)
<1>6. HasString(body) /\ IsWhole(string) /\ Read(cells) = FromJSON(opcode, string[1][2])
  BY <1>1, <1>5 DEF ReadDocument
<1>7. Len(cells) \in Nat /\ Len(cells) >= 2 /\ cells[1][1] = "byte" /\ cells[2][1] = "byte"
  BY <1>2, LenProperties DEF HasNumber
<1>8. body \in Seq(Cell) /\ Len(body) = Len(cells) - 2 /\ \A i \in 1..(Len(cells) - 2) : body[i] = cells[2 + i]
  <2>1. 2 \in 0..Len(cells)
    BY <1>7
  <2>. QED
    BY <2>1, RestTyped DEF body
<1>9. StringLength(body) \in Int /\ Len(body) >= 2 /\ Len(body) >= 2 + StringLength(body)
  <2>1. Len(body) >= 2 /\ body[1][1] = "byte" /\ body[2][1] = "byte" /\ Len(body) >= 2 + StringLength(body)
    BY <1>6 DEF HasString, HasNumber
  <2> DEFINE short == SubSeq(body, 1, 2)
  <2>2. \A i \in 1..2 : body[i] \in Cell
    BY <1>7, <1>8, <2>1, ElementOfSeq
  <2>3. \A i \in 1..2 : body[i] \in {"byte"} \X Nat
    BY <2>1, <2>2, "byte" # "text" DEF Cell
  <2>4. short \in Seq({"byte"} \X Nat) /\ Len(short) = 2
    BY <2>3, SubSeqProperties
  <2>5. short \in [1..2 -> {"byte"} \X Nat]
    BY <2>4, LenProperties
  <2>. HIDE DEF short
  <2>6. \E value \in [0..2 -> Int] : value[2] = Number(short)
    BY <2>5, NumberRecursion
  <2>7. Number(short) \in Int
    BY <2>6
  <2>. QED
    BY <2>1, <2>7 DEF StringLength, short
<1>10. StringLength(body) >= 1 /\ string[1] = body[3]
  <2>1. string = SubSeq(body, 3, 2 + StringLength(body)) /\ string # <<>>
    BY <1>6 DEF StringOf, IsWhole
  <2>2. StringLength(body) >= 1
    BY <1>9, <2>1, SubSeqEmpty
  <2>3. \A i \in 3..(2 + StringLength(body)) : body[i] \in Cell
    BY <1>7, <1>8, <1>9, ElementOfSeq
  <2>4. \A i \in 1..StringLength(body) : SubSeq(body, 3, 2 + StringLength(body))[i] = body[3 + i - 1]
    BY <1>9, <2>3, SubSeqProperties
  <2>5. SubSeq(body, 3, 2 + StringLength(body))[1] = body[3]
    BY <1>9, <2>2, <2>4
  <2>. QED
    BY <2>1, <2>2, <2>5
<1>11. string[1][1] = "text" /\ string[1][3] = 1
  <2>1. string \in Seq(Cell) /\ Len(string) = StringLength(body)
    <3>1. \A i \in 3..(2 + StringLength(body)) : body[i] \in Cell
      BY <1>7, <1>8, <1>9, ElementOfSeq
    <3>. QED
      BY <1>9, <1>10, <3>1, SubSeqProperties DEF StringOf
  <2>2. 1 \in DOMAIN string
    BY <1>9, <1>10, <2>1, LenProperties
  <2>. QED
    BY <1>6, <2>2 DEF IsWhole
<1>12. Len(cells) >= 5 /\ body[3] = cells[5]
  BY <1>7, <1>8, <1>9, <1>10
<1>. HIDE DEF string
<1>. QED
  BY <1>2, <1>4, <1>6, <1>7, <1>10, <1>11, <1>12 DEF opcode, number

\* The first two cells of two sequences that agree on them.
LEMMA SameShort ==
    ASSUME NEW a \in Seq(Cell), NEW b \in Seq(Cell), NEW i \in Nat, NEW j \in Nat,
           i + 2 =< Len(a), j + 2 =< Len(b), a[i + 1] = b[j + 1], a[i + 2] = b[j + 2]
    PROVE  SubSeq(a, i + 1, i + 2) = SubSeq(b, j + 1, j + 2)
<1>1. /\ \A k \in (i + 1)..(i + 2) : a[k] \in Cell
      /\ \A k \in (j + 1)..(j + 2) : b[k] \in Cell
  BY ElementOfSeq, LenProperties
<1>2. /\ SubSeq(a, i + 1, i + 2) \in Seq(Cell) /\ Len(SubSeq(a, i + 1, i + 2)) = 2
      /\ \A k \in 1..2 : SubSeq(a, i + 1, i + 2)[k] = a[i + k]
  <2>1. /\ SubSeq(a, i + 1, i + 2) \in Seq(Cell)
        /\ Len(SubSeq(a, i + 1, i + 2)) = IF i + 1 <= i + 2 THEN (i + 2) - (i + 1) + 1 ELSE 0
        /\ \A k \in 1..((i + 2) - (i + 1) + 1) : SubSeq(a, i + 1, i + 2)[k] = a[(i + 1) + k - 1]
    BY <1>1, SubSeqProperties
  <2>. QED
    BY <2>1
<1>3. /\ SubSeq(b, j + 1, j + 2) \in Seq(Cell) /\ Len(SubSeq(b, j + 1, j + 2)) = 2
      /\ \A k \in 1..2 : SubSeq(b, j + 1, j + 2)[k] = b[j + k]
  <2>1. /\ SubSeq(b, j + 1, j + 2) \in Seq(Cell)
        /\ Len(SubSeq(b, j + 1, j + 2)) = IF j + 1 <= j + 2 THEN (j + 2) - (j + 1) + 1 ELSE 0
        /\ \A k \in 1..((j + 2) - (j + 1) + 1) : SubSeq(b, j + 1, j + 2)[k] = b[(j + 1) + k - 1]
    BY <1>1, SubSeqProperties
  <2>. QED
    BY <2>1
<1>4. \A k \in 1..2 : k = 1 \/ k = 2
  OBVIOUS
<1>5. \A k \in 1..2 : SubSeq(a, i + 1, i + 2)[k] = SubSeq(b, j + 1, j + 2)[k]
  BY <1>2, <1>3, <1>4
<1>. QED
  BY <1>2, <1>3, <1>5, SeqEqual

LEMMA NoOpcodeZero == Number(putShort(0)) \notin DOMAIN OpcodeNames
<1>1. 0 \in 0..(Range16 - 1)
  BY BaseTyped
<1>2. Number(putShort(0)) = 0
  BY <1>1, ShortRead
<1>3. 0 \notin 1..(Range16 - 1)
  OBVIOUS
<1>. QED
  BY <1>2, <1>3, OpcodesTyped

\* An accepted text is the text of a packet that was sent, and is accepted as that packet:
\* its first cell brings the four in front of it along.
LEMMA DocumentSourced ==
    ASSUME FramingTyped, Sourced, ~inSession, NEW n \in 1..Len(stream),
           Read(SubSeq(stream, 1, n)).opcode \in Documents
    PROVE  \E j \in 1..Len(sent) : Read(SubSeq(stream, 1, n)) = AsReceived(sent[j])
<1> DEFINE cells == SubSeq(stream, 1, n)
<1> DEFINE opcode == OpcodeNames[Number(SubSeq(cells, 1, 2))]
<1>1. stream \in Seq(Cell) /\ Len(stream) \in Nat
  BY LenProperties DEF FramingTyped
<1>2. cells \in Seq(Cell) /\ Len(cells) = n /\ \A i \in 1..n : cells[i] = stream[i]
  <2>1. \A i \in 1..n : stream[i] \in Cell
    BY <1>1, ElementOfSeq
  <2>. QED
    BY <1>1, <2>1, SubSeqProperties
<1>. HIDE DEF cells
<1>3. /\ n >= 5 /\ cells[1][1] = "byte" /\ cells[2][1] = "byte" /\ cells[5][1] = "text" /\ cells[5][3] = 1
      /\ Number(SubSeq(cells, 1, 2)) \in DOMAIN OpcodeNames
      /\ opcode \in Documents /\ Read(cells) = FromJSON(opcode, cells[5][2])
  BY <1>2, DocumentTaken DEF cells
<1>4. PICK j \in 1..Len(sent) : \E k \in 1..Len(Written(sent[j])) :
          \A d \in 0..(k - 1) : d < 5 => stream[5 - d] = Written(sent[j])[k - d]
  <2>1. 5 \in 1..Len(stream)
    BY <1>1, <1>3
  <2>. QED
    BY <2>1 DEF Sourced
<1> DEFINE p == sent[j]
<1> DEFINE w == Written(p)
<1>14. PICK k \in 1..Len(w) : \A d \in 0..(k - 1) : d < 5 => stream[5 - d] = w[k - d]
  BY <1>4
<1>5. p \in HandshakePackets /\ p \in Sendable
  <2>1. p \in Senders
    BY ElementOfSeq DEF FramingTyped
  <2>. QED
    BY <2>1, SendersSendable DEF Senders
<1>6. w \in Seq(Cell) /\ Len(w) \in Nat /\ k \in 1..Len(w) /\ Number(SubSeq(w, 1, 2)) = OpcodeNumber(p.opcode)
  BY <1>5, WrittenTyped
<1>7. \A d \in 0..(k - 1) : d < 5 => cells[5 - d] = w[k - d]
  <2>1. \A d \in 0..(k - 1) : d < 5 => 5 - d \in 1..n
    BY <1>3
  <2>. QED
    BY <1>2, <1>14, <2>1
<1>. HIDE DEF p, w
<1>8. w[k][1] = "text" /\ w[k][3] = 1
  <2>1. 0 \in 0..(k - 1) /\ 5 - 0 = 5 /\ k - 0 = k
    OBVIOUS
  <2>2. cells[5 - 0] = w[k - 0]
    BY <1>7, <2>1
  <2>. QED
    BY <1>3, <2>1, <2>2
<1>9. ASSUME k = 5 PROVE opcode = p.opcode /\ w[5] = cells[5]
  <2>1. 0 \in 0..(k - 1) /\ 3 \in 0..(k - 1) /\ 4 \in 0..(k - 1)
    BY <1>9
  <2>2. cells[5 - 0] = w[k - 0] /\ cells[5 - 3] = w[k - 3] /\ cells[5 - 4] = w[k - 4]
    <3>1. 0 < 5 /\ 3 < 5 /\ 4 < 5
      OBVIOUS
    <3>. QED
      BY <1>7, <2>1, <3>1, Zenon
  <2>3. cells[5] = w[5] /\ cells[0 + 2] = w[0 + 2] /\ cells[0 + 1] = w[0 + 1]
    BY <1>9, <2>2
  <2>4. 0 \in Nat /\ 0 + 2 =< Len(cells) /\ 0 + 2 =< Len(w)
    BY <1>2, <1>3, <1>6, <1>9
  <2>5. SubSeq(cells, 0 + 1, 0 + 2) = SubSeq(w, 0 + 1, 0 + 2)
    BY <1>2, <1>6, <2>3, <2>4, SameShort
  <2>6. SubSeq(cells, 1, 2) = SubSeq(w, 1, 2)
    BY <2>5
  <2>7. OpcodeNames[OpcodeNumber(p.opcode)] = p.opcode
    BY <1>5, SendableTyped DEF p
  <2>. QED
    BY <1>6, <2>3, <2>6, <2>7
<1>10. CASE p.opcode \in Documents
  <2>1. ToJSON(p) \in TextsOf(p) /\ BodyOf(p) = putText(ToJSON(p))
    BY <1>10 DEF TextsOf, BodyOf, Documents, PlainDocuments
  <2>2. k = 5 /\ w[5][2] = ToJSON(p)
    BY <1>5, <1>6, <1>8, <2>1, OneText DEF w, p
  <2>3. Read(cells) = FromJSON(p.opcode, ToJSON(p))
    BY <1>3, <1>9, <2>2
  <2>4. FromJSON(p.opcode, ToJSON(p)) = AsReceived(p)
    BY <1>5, <1>10, DocumentKept DEF p
  <2>. QED
    BY <2>3, <2>4 DEF p, cells
<1>11. CASE p.opcode \in {"NO_MAP_SERVER_ERROR", "MAP_SERVER_REGISTRATION_RESPONSE"}
  <2>1. p.opcode \notin Documents
    BY <1>11 DEF Documents, PlainDocuments
  <2>2. \E text \in TextsOf(p) : BodyOf(p) = putText(text)
    BY <1>11, <2>1 DEF TextsOf, BodyOf, Strings
  <2>3. k = 5
    BY <1>5, <1>6, <1>8, <2>2, OneText DEF w, p
  <2>. QED
    BY <1>3, <1>9, <2>1, <2>3
<1>12. CASE p.opcode = "MAP_SERVER_REGISTRATION_REQUEST"
  <2>1. p.opcode \notin Documents
    BY <1>12 DEF Documents, PlainDocuments
  <2>2. k # 5
    BY <1>3, <1>9, <2>1
  <2>3. \/ k > 7 /\ w[k - 3][1] = "text"
        \/ k = 7 /\ SubSeq(w, 3, 4) = putShort(0)
    BY <1>5, <1>6, <1>8, <1>12, <2>2, TwoTexts DEF w, p
  <2>4. cells[2] = w[k - 3] /\ cells[1] = w[k - 4]
    <3>1. 3 \in 0..(k - 1) /\ 4 \in 0..(k - 1) /\ 5 - 3 = 2 /\ 5 - 4 = 1
      BY <2>3
    <3>2. cells[5 - 3] = w[k - 3] /\ cells[5 - 4] = w[k - 4]
      BY <1>7, <3>1
    <3>. QED
      BY <3>1, <3>2
  <2>5. CASE k > 7 /\ w[k - 3][1] = "text"
    BY <1>3, <2>4, <2>5, "byte" # "text"
  <2>6. CASE k = 7 /\ SubSeq(w, 3, 4) = putShort(0)
    <3>1. cells[0 + 1] = w[2 + 1] /\ cells[0 + 2] = w[2 + 2]
      BY <2>4, <2>6
    <3>2. 0 \in Nat /\ 2 \in Nat /\ 0 + 2 =< Len(cells) /\ 2 + 2 =< Len(w)
      BY <1>2, <1>3, <1>6, <2>6
    <3>3. SubSeq(cells, 0 + 1, 0 + 2) = SubSeq(w, 2 + 1, 2 + 2)
      BY <1>2, <1>6, <3>1, <3>2, SameShort
    <3>4. SubSeq(cells, 1, 2) = putShort(0)
      BY <2>6, <3>3
    <3>. QED
      BY <1>3, <3>4, NoOpcodeZero
  <2>. QED
    BY <2>3, <2>5, <2>6
<1>13. CASE /\ p.opcode \notin Documents
            /\ p.opcode \notin {"NO_MAP_SERVER_ERROR", "MAP_SERVER_REGISTRATION_RESPONSE", "MAP_SERVER_REGISTRATION_REQUEST"}
  <2>1. p.opcode # "CHARACTER_SELECT"
    BY <1>5, SentAssumption DEF SessionOpcodes
  <2>2. BodyOf(p) = <<>>
    BY <1>13, <2>1 DEF BodyOf, Strings
  <2>3. OpcodeNumber(p.opcode) \in Nat
    BY <1>5, SendableTyped, BaseTyped DEF p
  <2> DEFINE short == putShort(OpcodeNumber(p.opcode))
  <2>4. short \in Seq({"byte"} \X Nat) /\ Len(short) = 2 /\ short[1][1] = "byte" /\ short[2][1] = "byte"
    BY <2>3, ShortTyped
  <2>5. w = short \o <<>>
    BY <1>5, <2>2, WrittenTyped DEF w, p
  <2>. HIDE DEF short
  <2>6. w = short
    BY <2>4, <2>5, ConcatEmptySeq
  <2>7. k = 1 \/ k = 2
    <3>1. Len(w) = 2
      BY <2>4, <2>6
    <3>2. k \in 1..2
      BY <1>6, <3>1
    <3>. QED
      BY <3>2
  <2>. QED
    BY <1>8, <2>4, <2>6, <2>7, "byte" # "text"
<1>. QED
  BY <1>10, <1>11, <1>12, <1>13

-----------------------------------------------------------------------------
(* The invariant. *)

LEMMA FramingInit == Init => FramingInv
<1> SUFFICES ASSUME Init PROVE FramingInv
  OBVIOUS
<1>1. inSession \in BOOLEAN /\ sent = <<>> /\ stream = <<>> /\ handled = <<>> /\ faulty = FALSE /\ cut = FALSE
  BY DEF Init
<1>2. Len(sent) = 0 /\ Len(stream) = 0 /\ Len(handled) = 0
  BY <1>1, EmptySeq
<1>3. FramingTyped
  BY <1>1, EmptySeq DEF FramingTyped
<1>4. StandsAt(1, 0)
  <2> DEFINE at == [j \in 1..1 |-> 0]
  <2>1. at \in [1..(Len(sent) + 1) -> Int] /\ at[1] = 0
    BY <1>2
  <2>. HIDE DEF at
  <2>2. Positions(at, 1, 0)
    BY <1>2, <2>1 DEF Positions
  <2>. QED
    BY <1>2, <2>1, <2>2 DEF StandsAt
<1>5. Uncut
  BY <1>1, <1>2, <1>4 DEF Uncut, InStep
<1>8. Refused
  BY <1>1, <1>2 DEF Refused, KnownUpTo
<1>9. Paired
  <2>1. StandsAt(1, 2 * 0) /\ 1 \in Nat /\ 0 \in Nat /\ ~(0 > 0)
    BY <1>4
  <2>. QED
    BY <2>1 DEF Paired, InPairs
<1>6. Sourced
  BY <1>2 DEF Sourced
<1>7. DOMAIN handled = {}
  BY <1>1
<1>. QED
  BY <1>3, <1>5, <1>6, <1>7, <1>8, <1>9 DEF FramingInv, RequestsMade, TextsNeverForged

LEMMA HandledMore ==
    ASSUME FramingTyped, NEW x \in Decoded, handled' = Append(handled, x)
    PROVE  /\ handled' \in Seq(Decoded) /\ Len(handled) \in Nat /\ Len(handled') = Len(handled) + 1
           /\ DOMAIN handled = 1..Len(handled) /\ DOMAIN handled' = 1..(Len(handled) + 1)
           /\ \A i \in 1..Len(handled) : handled'[i] = handled[i]
           /\ handled'[Len(handled) + 1] = x
<1>1. handled \in Seq(Decoded)
  BY DEF FramingTyped
<1>2. /\ handled' \in Seq(Decoded) /\ Len(handled') = Len(handled) + 1
      /\ \A i \in 1..Len(handled) : handled'[i] = handled[i]
      /\ handled'[Len(handled) + 1] = x
  BY <1>1, AppendProperties
<1>. QED
  BY <1>1, <1>2, LenProperties

LEMMA SourcedKept ==
    ASSUME FramingTyped, Sourced, NEW n \in 0..Len(stream), Take(n), UNCHANGED sent
    PROVE  Sourced'
<1>1. Len(stream) \in Nat /\ Len(stream') = Len(stream) - n /\ \A i \in 1..(Len(stream) - n) : stream'[i] = stream[n + i]
  BY Taking, LenProperties DEF FramingTyped
<1>2. SUFFICES ASSUME NEW i \in 1..(Len(stream) - n)
               PROVE  \E j \in 1..Len(sent) : \E k \in 1..Len(Written(sent[j])) :
                          \A d \in 0..(k - 1) : d < i => stream'[i - d] = Written(sent[j])[k - d]
  BY <1>1 DEF Sourced
<1>3. n + i \in 1..Len(stream)
  BY <1>1
<1>4. PICK j \in 1..Len(sent) : \E k \in 1..Len(Written(sent[j])) :
          \A d \in 0..(k - 1) : d < n + i => stream[(n + i) - d] = Written(sent[j])[k - d]
  BY <1>3 DEF Sourced
<1>5. PICK k \in 1..Len(Written(sent[j])) :
          \A d \in 0..(k - 1) : d < n + i => stream[(n + i) - d] = Written(sent[j])[k - d]
  BY <1>4
<1>6. ASSUME NEW d \in 0..(k - 1), d < i PROVE stream'[i - d] = Written(sent[j])[k - d]
  <2>1. d \in Nat /\ d < n + i /\ i - d \in 1..(Len(stream) - n) /\ n + (i - d) = (n + i) - d
    BY <1>1, <1>6
  <2>. QED
    BY <1>1, <1>5, <2>1
<1>. QED
  BY <1>6

LEMMA WriteKeeps ==
    ASSUME FramingInv, Write
    PROVE  FramingInv'
<1>1. PICK p \in Senders : sent' = Append(sent, p) /\ stream' = stream \o Written(p)
  BY DEF Write, Senders
<1>2. UNCHANGED <<inSession, handled, faulty, cut>> /\ Senders' = Senders
  BY DEF Write, Senders
<1>3. FramingTyped /\ Sourced /\ Uncut /\ Refused /\ Paired /\ RequestsMade /\ TextsNeverForged
  BY DEF FramingInv
<1> DEFINE n == Len(sent)
<1> DEFINE l == Len(stream)
<1> DEFINE h == Len(handled)
<1>4. /\ sent \in Seq(Senders) /\ stream \in Seq(Cell) /\ n \in Nat /\ l \in Nat /\ h \in Nat
      /\ DOMAIN sent = 1..n /\ DOMAIN handled = 1..h
  BY <1>3, LenProperties DEF FramingTyped
<1>5. Written(p) \in Seq(Cell) /\ Len(Written(p)) \in Nat /\ Len(Written(p)) >= 2
  BY SendersSendable
<1>6. /\ sent' \in Seq(Senders) /\ Len(sent') = n + 1 /\ DOMAIN sent' = 1..(n + 1)
      /\ \A j \in 1..n : sent'[j] = sent[j]
      /\ sent'[n + 1] = p
  BY <1>1, <1>4, AppendProperties, LenProperties
<1>7. /\ stream' \in Seq(Cell) /\ Len(stream') = l + Len(Written(p))
      /\ \A i \in 1..l : stream'[i] = stream[i]
      /\ \A k \in 1..Len(Written(p)) : stream'[l + k] = Written(p)[k]
  <2> DEFINE w == Written(p)
  <2>1. /\ stream \o w \in Seq(Cell) /\ Len(stream \o w) = l + Len(w)
        /\ \A i \in 1..(l + Len(w)) : (stream \o w)[i] = IF i <= l THEN stream[i] ELSE w[i - l]
    BY <1>4, <1>5, ConcatProperties
  <2>. HIDE DEF w
  <2>2. \A i \in 1..l : (stream \o w)[i] = stream[i]
    BY <1>4, <1>5, <2>1 DEF w
  <2>3. \A k \in 1..Len(w) : (stream \o w)[l + k] = w[k]
    <3>. TAKE k \in 1..Len(w)
    <3>1. l + k \in 1..(l + Len(w)) /\ ~(l + k <= l) /\ (l + k) - l = k
      BY <1>4, <1>5 DEF w
    <3>. QED
      BY <2>1, <3>1
  <2>. QED
    BY <1>1, <2>1, <2>2, <2>3 DEF w
<1>. HIDE DEF n, l, h
<1>8. FramingTyped'
  BY <1>2, <1>3, <1>6, <1>7 DEF FramingTyped
<1>9. Sourced'
  <2>1. ASSUME NEW i \in 1..l
        PROVE  \E j \in 1..Len(sent') : \E k \in 1..Len(Written(sent'[j])) :
                   \A d \in 0..(k - 1) : d < i => stream'[i - d] = Written(sent'[j])[k - d]
    <3>1. PICK j \in 1..n : \E k \in 1..Len(Written(sent[j])) :
              \A d \in 0..(k - 1) : d < i => stream[i - d] = Written(sent[j])[k - d]
      BY <1>3, <2>1 DEF Sourced, l, n
    <3>2. PICK k \in 1..Len(Written(sent[j])) : \A d \in 0..(k - 1) : d < i => stream[i - d] = Written(sent[j])[k - d]
      BY <3>1
    <3>3. j \in 1..Len(sent') /\ sent'[j] = sent[j]
      BY <1>4, <1>6
    <3>4. ASSUME NEW d \in 0..(k - 1), d < i PROVE stream'[i - d] = Written(sent[j])[k - d]
      <4>1. i - d \in 1..l
        BY <1>4, <2>1, <3>4
      <4>. QED
        BY <1>7, <3>2, <3>4, <4>1
    <3>. QED
      BY <3>3, <3>4
  <2>2. ASSUME NEW i \in (l + 1)..(l + Len(Written(p)))
        PROVE  \E j \in 1..Len(sent') : \E k \in 1..Len(Written(sent'[j])) :
                   \A d \in 0..(k - 1) : d < i => stream'[i - d] = Written(sent'[j])[k - d]
    <3> DEFINE k == i - l
    <3>1. k \in 1..Len(Written(p)) /\ n + 1 \in 1..Len(sent')
      BY <1>4, <1>5, <1>6, <2>2
    <3>2. ASSUME NEW d \in 0..(k - 1) PROVE stream'[i - d] = Written(p)[k - d]
      <4>1. k - d \in 1..Len(Written(p)) /\ l + (k - d) = i - d
        BY <1>4, <1>5, <3>1
      <4>. QED
        BY <1>7, <4>1
    <3>. HIDE DEF k
    <3>3. Written(sent'[n + 1]) = Written(p)
      BY <1>6
    <3>4. k \in 1..Len(Written(sent'[n + 1])) /\ \A d \in 0..(k - 1) : stream'[i - d] = Written(sent'[n + 1])[k - d]
      BY <3>1, <3>2, <3>3
    <3>. QED
      BY <3>1, <3>4
  <2>3. \A i \in 1..Len(stream') : i \in 1..l \/ i \in (l + 1)..(l + Len(Written(p)))
    BY <1>4, <1>5, <1>7
  <2>4. \A i \in 1..Len(stream') : \E j \in 1..Len(sent') : \E k \in 1..Len(Written(sent'[j])) :
            \A d \in 0..(k - 1) : d < i => stream'[i - d] = Written(sent'[j])[k - d]
    BY <2>1, <2>2, <2>3, Zenon
  <2>. QED
    BY <2>4, Zenon DEF Sourced
<1>10. ASSUME NEW m \in Nat, NEW o \in Nat, StandsAt(m, o) PROVE StandsAt(m, o)'
  <2>1. PICK at \in [1..(n + 1) -> Int] : Positions(at, m, o)
    BY <1>10 DEF StandsAt, n
  <2>2. m \in 1..(n + 1) /\ at[m] = 0 - o /\ at[n + 1] = l
    BY <1>10, <2>1 DEF StandsAt, Positions, n, l
  <2> DEFINE q == Len(Written(p))
  <2>3. PICK next \in [1..(n + 2) -> Int] : next[n + 2] = l + q /\ \A j \in 1..(n + 1) : next[j] = at[j]
    <3> DEFINE longer == [j \in 1..(n + 2) |-> IF j = n + 2 THEN l + q ELSE at[j]]
    <3>1. longer \in [1..(n + 2) -> Int] /\ longer[n + 2] = l + q /\ \A j \in 1..(n + 1) : longer[j] = at[j]
      BY <1>4, <1>5
    <3>. HIDE DEF longer
    <3>. QED
      BY <3>1
  <2>4. next[m] = 0 - o /\ Len(sent') + 1 = n + 2 /\ next[n + 2] = Len(stream')
    BY <1>4, <1>6, <1>7, <2>2, <2>3
  <2>5. ASSUME NEW i \in m..(n + 2), NEW j \in m..(n + 2), i =< j PROVE next[i] =< next[j]
    <3>1. ASSUME NEW k \in m..(n + 1) PROVE next[k] = at[k] /\ at[k] \in Int /\ at[k] =< l
      <4>1. k \in 1..(n + 1) /\ k =< n + 1 /\ n + 1 \in m..(n + 1)
        BY <1>4, <2>2
      <4>2. at[k] =< at[n + 1]
        BY <2>1, <4>1 DEF Positions, n
      <4>. QED
        BY <2>2, <2>3, <4>1, <4>2
    <3>2. CASE j = n + 2 /\ i = n + 2
      BY <1>4, <1>5, <2>3, <3>2
    <3>3. CASE j = n + 2 /\ i # n + 2
      <4>1. i \in m..(n + 1)
        BY <1>4, <3>3
      <4>2. next[i] =< l /\ next[i] \in Int
        BY <3>1, <4>1
      <4>. QED
        BY <1>4, <1>5, <2>3, <3>3, <4>2
    <3>4. CASE j # n + 2
      <4>1. i \in m..(n + 1) /\ j \in m..(n + 1)
        BY <1>4, <2>5, <3>4
      <4>2. at[i] =< at[j]
        BY <2>1, <2>5, <4>1 DEF Positions, n
      <4>. QED
        BY <3>1, <4>1, <4>2
    <3>. QED
      BY <3>2, <3>3, <3>4
  <2>6. ASSUME NEW j \in m..(n + 1)
        PROVE  /\ next[j + 1] = next[j] + Len(Written(sent'[j]))
               /\ \A k \in 1..Len(Written(sent'[j])) : next[j] + k > 0 => stream'[next[j] + k] = Written(sent'[j])[k]
    <3>1. CASE j = n + 1
      <4>1. next[j] = l /\ next[j + 1] = l + q /\ sent'[j] = p
        BY <1>4, <1>6, <2>2, <2>3, <3>1
      <4>. QED
        BY <1>7, <4>1
    <3>2. CASE j # n + 1
      <4>1. j \in m..n /\ j \in 1..n /\ j \in 1..(n + 1) /\ j + 1 \in 1..(n + 1) /\ j + 1 \in m..(n + 1) /\ n + 1 \in m..(n + 1)
        BY <1>4, <2>2, <3>2
      <4>2. sent'[j] = sent[j] /\ next[j] = at[j] /\ next[j + 1] = at[j + 1]
        BY <1>6, <2>3, <4>1
      <4>3. /\ at[j + 1] = at[j] + Len(Written(sent[j]))
            /\ \A k \in 1..Len(Written(sent[j])) : at[j] + k > 0 => stream[at[j] + k] = Written(sent[j])[k]
        BY <2>1, <4>1 DEF Positions, n
      <4>4. ASSUME NEW k \in 1..Len(Written(sent[j])), at[j] + k > 0 PROVE at[j] + k \in 1..l
        <5>1. sent[j] \in Senders
          BY <1>4, <4>1, ElementOfSeq DEF n
        <5>2. Len(Written(sent[j])) \in Nat
          BY <5>1, SendersSendable
        <5>3. at[j + 1] =< at[n + 1]
          <6>1. j + 1 =< n + 1
            BY <1>4, <4>1
          <6>. QED
            BY <2>1, <4>1, <6>1 DEF Positions, n
        <5>4. at[j] \in Int /\ at[j + 1] \in Int
          BY <2>1, <4>1
        <5> DEFINE c == Len(Written(sent[j]))
        <5> DEFINE a == at[j]
        <5>5. k \in 1..c /\ c \in Nat /\ a \in Int /\ a + c =< l /\ a + k > 0
          BY <2>2, <4>3, <4>4, <5>2, <5>3, <5>4
        <5>. HIDE DEF c, a
        <5>6. a + k \in 1..l
          BY <1>4, <5>5
        <5>. QED
          BY <5>6 DEF a
      <4>. QED
        BY <1>7, <4>2, <4>3, <4>4
    <3>. QED
      BY <3>1, <3>2
  <2>7. Positions(next, m, o)'
    BY <1>6, <2>4, <2>5, <2>6 DEF Positions
  <2>8. m \in 1..(Len(sent') + 1)
    BY <1>4, <1>6, <2>2
  <2>9. o > 0 => m =< Len(sent') /\ o < Len(Written(sent'[m]))
    <3>. SUFFICES ASSUME o > 0 PROVE m =< Len(sent') /\ o < Len(Written(sent'[m]))
      OBVIOUS
    <3>1. m =< n /\ o < Len(Written(sent[m]))
      BY <1>10 DEF StandsAt, n
    <3>2. m \in 1..n
      BY <1>4, <2>2, <3>1
    <3>. QED
      BY <1>4, <1>6, <3>1, <3>2
  <2>. QED
    BY <1>6, <2>3, <2>4, <2>7, <2>8, <2>9 DEF StandsAt
<1>11. \A i \in Nat : KnownUpTo(i)' => KnownUpTo(i)
  <2>. TAKE i \in Nat
  <2>. HAVE KnownUpTo(i)'
  <2>1. ASSUME NEW j \in 1..i, j \in 1..Len(sent) PROVE ~Unknown(sent[j])
    <3>1. j \in 1..Len(sent') /\ sent'[j] = sent[j]
      BY <1>4, <1>6, <2>1 DEF n
    <3>2. ~(inSession' /\ sent'[j].opcode \notin SessionOpcodes)
      BY <3>1 DEF KnownUpTo, Unknown
    <3>. QED
      BY <1>2, <3>1, <3>2 DEF Unknown
  <2>. QED
    BY <2>1 DEF KnownUpTo
<1>12. PICK g \in Nat : g = Len(handled) /\ g = Len(handled') /\ g = h
  BY <1>2, <1>4 DEF h
<1>13. Uncut'
  <2>1. ASSUME ~cut', KnownUpTo(g)' PROVE InStep'
    <3>1. PICK m \in Nat : m = g + 1
      BY <1>4
    <3>2. StandsAt(m, 0) /\ 0 \in Nat
      BY <1>2, <1>3, <1>11, <1>12, <2>1, <3>1 DEF Uncut, InStep
    <3>3. StandsAt(m, 0)'
      BY <1>10, <3>2
    <3>. QED
      BY <1>12, <3>1, <3>3 DEF InStep
  <2>2. ASSUME ~cut', NEW i \in 1..g, KnownUpTo(i)'
        PROVE  /\ i \in 1..Len(sent')
               /\ IF inSession' THEN handled'[i] = sent'[i] ELSE ~Outgrown(sent'[i]) => handled'[i] = AsReceived(sent'[i])
    <3>1. KnownUpTo(i)
      BY <1>4, <1>11, <2>2
    <3>2. i \in 1..Len(sent) /\ (IF inSession THEN handled[i] = sent[i] ELSE ~Outgrown(sent[i]) => handled[i] = AsReceived(sent[i]))
      BY <1>2, <1>3, <1>12, <2>2, <3>1 DEF Uncut
    <3>3. i \in 1..Len(sent') /\ sent'[i] = sent[i]
      BY <1>4, <1>6, <3>2 DEF n
    <3>. QED
      BY <1>2, <3>2, <3>3
  <2>3. ~cut' => ~faulty'
    BY <1>2, <1>3 DEF Uncut
  <2>. QED
    BY <1>12, <2>1, <2>2, <2>3 DEF Uncut
<1>14. Refused'
  <2>1. CASE cut \/ ~KnownUpTo(g)
    BY <1>2, <1>3, <1>12, <2>1 DEF Refused
  <2>2. CASE ~cut /\ KnownUpTo(g)
    <3>1. g + 1 \in 1..(n + 1)
      BY <1>3, <1>12, <2>2 DEF Uncut, InStep, StandsAt, n
    <3>2. \A j \in 1..g : j \in 1..n /\ sent'[j] = sent[j]
      BY <1>4, <1>6, <3>1
    <3>3. KnownUpTo(g)'
      BY <1>2, <1>6, <2>2, <3>2 DEF KnownUpTo, Unknown, n
    <3>. QED
      BY <1>2, <1>12, <2>2, <3>3 DEF Refused
  <2>. QED
    BY <1>3, <2>1, <2>2 DEF FramingTyped
<1>15. Paired'
  <2>. SUFFICES ASSUME inSession', ~cut', \A j \in 1..Len(sent') : ~PutsOutOfStep(sent'[j]) PROVE InPairs'
    BY DEF Paired
  <2>1. \A j \in 1..Len(sent) : ~PutsOutOfStep(sent[j])
    <3>1. \A j \in 1..Len(sent) : j \in 1..Len(sent') /\ sent'[j] = sent[j]
      BY <1>4, <1>6 DEF n
    <3>. QED
      BY <3>1
  <2>2. PICK m \in Nat : \E e \in Nat : StandsAt(m, 2 * e) /\ (e > 0 => sent[m].opcode \notin SessionOpcodes)
    BY <1>2, <1>3, <2>1 DEF Paired, InPairs
  <2>3. PICK e \in Nat : StandsAt(m, 2 * e) /\ (e > 0 => sent[m].opcode \notin SessionOpcodes)
    BY <2>2
  <2>4. 2 * e \in Nat
    OBVIOUS
  <2>5. StandsAt(m, 2 * e)'
    BY <1>10, <2>3, <2>4
  <2>6. e > 0 => sent'[m].opcode \notin SessionOpcodes
    <3>. SUFFICES ASSUME e > 0 PROVE sent'[m].opcode \notin SessionOpcodes
      OBVIOUS
    <3>1. m \in 1..(Len(sent) + 1) /\ m =< Len(sent)
      BY <2>3 DEF StandsAt
    <3>2. sent'[m] = sent[m]
      BY <1>4, <1>6, <3>1 DEF n
    <3>. QED
      BY <2>3, <3>2
  <2>. QED
    BY <2>5, <2>6 DEF InPairs
<1>16. RequestsMade'
  <2>1. \A x : (\E j \in DOMAIN sent : sent[j] = x) => \E j \in DOMAIN sent' : sent'[j] = x
    BY <1>4, <1>6
  <2>2. (\E j \in DOMAIN sent : PutsOutOfStep(sent[j])) => \E j \in DOMAIN sent' : PutsOutOfStep(sent'[j])
    BY <1>4, <1>6
  <2>. QED
    BY <1>2, <1>3, <2>1, <2>2 DEF RequestsMade
<1>17. TextsNeverForged'
  <2>1. \A x : (\E j \in DOMAIN sent : x = AsReceived(sent[j])) => \E j \in DOMAIN sent' : x = AsReceived(sent'[j])
    BY <1>4, <1>6
  <2>. QED
    BY <1>2, <1>3, <2>1 DEF TextsNeverForged
<1>. QED
  BY <1>8, <1>9, <1>13, <1>14, <1>15, <1>16, <1>17 DEF FramingInv

LEMMA HandshakeKeeps ==
    ASSUME FramingInv, ~inSession, NEW arrived \in 1..Len(stream), ReadHandshake(arrived), UNCHANGED <<inSession, sent>>
    PROVE  FramingInv'
<1>1. FramingTyped /\ Sourced /\ Uncut /\ TextsNeverForged
  BY DEF FramingInv
<1> DEFINE n == Min({arrived, ReadLimit})
<1> DEFINE x == Read(SubSeq(stream, 1, n))
<1>2. handled' = Append(handled, x) /\ Take(n) /\ cut' = (cut \/ n # EndOfNext) /\ faulty' = faulty
  BY DEF ReadHandshake
<1>3. stream \in Seq(Cell) /\ Len(stream) \in Nat /\ ReadLimit \in Nat /\ ReadLimit > 0
  BY <1>1, LenProperties, FramingAssumption DEF FramingTyped
<1>4. n \in 1..Len(stream)
  <2>1. n \in {arrived, ReadLimit} /\ n =< arrived
    <3>1. arrived \in Int /\ ReadLimit \in Int
      BY <1>3
    <3>. QED
      BY <3>1, LeastOfTwo, Zenon
  <2>. HIDE DEF n
  <2>. QED
    BY <1>3, <2>1
<1>. HIDE DEF n
<1>5. x \in Decoded
  <2>1. SubSeq(stream, 1, n) \in Seq(Cell)
    <3>1. \A i \in 1..n : stream[i] \in Cell
      BY <1>3, <1>4, ElementOfSeq
    <3>. QED
      BY <1>3, <1>4, <3>1, SubSeqProperties
  <2>. QED
    BY <2>1 DEF Decoded
<1>. HIDE DEF x
<1>6. /\ handled' \in Seq(Decoded) /\ Len(handled) \in Nat /\ Len(handled') = Len(handled) + 1
      /\ DOMAIN handled = 1..Len(handled) /\ DOMAIN handled' = 1..(Len(handled) + 1)
      /\ \A i \in 1..Len(handled) : handled'[i] = handled[i]
      /\ handled'[Len(handled) + 1] = x
  BY <1>1, <1>2, <1>5, HandledMore
<1>7. FramingTyped'
  <2>1. stream' \in Seq(Cell)
    BY <1>1, <1>2, <1>4, Taking
  <2>2. cut' \in BOOLEAN
    BY <1>1, <1>2 DEF FramingTyped
  <2>. QED
    BY <1>1, <1>2, <1>6, <2>1, <2>2 DEF FramingTyped, Senders
<1>8. Sourced'
  BY <1>1, <1>2, <1>4, SourcedKept
<1>9. Uncut'
  <2>1. ASSUME ~cut' PROVE InStep' /\ ~faulty' /\ x = Read(Written(sent[Len(handled) + 1])) /\ sent[Len(handled) + 1] \in HandshakePackets
    <3>1. ~cut /\ n = EndOfNext
      BY <1>1, <1>2, <2>1 DEF FramingTyped
    <3>2. InStep /\ ~faulty
      BY <1>1, <3>1 DEF Uncut, KnownUpTo, Unknown
    <3>3. Len(stream) > 0
      BY <1>3
    <3>4. InStep'
      BY <1>1, <1>2, <1>6, <3>1, <3>2, <3>3, StaysInStep
    <3>5. SubSeq(stream, 1, n) = Written(sent[Len(handled) + 1]) /\ sent[Len(handled) + 1] \in Senders
      BY <1>1, <3>1, <3>2, <3>3, NextInStep
    <3>. QED
      BY <1>2, <3>2, <3>4, <3>5 DEF x, Senders
  <2>2. ~cut' => /\ Len(handled) + 1 \in 1..Len(sent)
                 /\ ~Outgrown(sent[Len(handled) + 1]) => x = AsReceived(sent[Len(handled) + 1])
    <3>. SUFFICES ASSUME ~cut'
                  PROVE  /\ Len(handled) + 1 \in 1..Len(sent)
                         /\ ~Outgrown(sent[Len(handled) + 1]) => x = AsReceived(sent[Len(handled) + 1])
      OBVIOUS
    <3>1. Len(handled) + 1 \in 1..Len(sent)
      <4>1. Len(handled') + 1 \in 1..(Len(sent) + 1) /\ Len(sent) \in Nat
        BY <1>1, <2>1, LenProperties DEF InStep, StandsAt, FramingTyped
      <4>. QED
        BY <1>6, <4>1
    <3>. QED
      BY <2>1, <3>1, ReadWhole
  <2>3. ASSUME ~cut', NEW i \in 1..(Len(handled) + 1)
        PROVE  i \in 1..Len(sent') /\ (~Outgrown(sent'[i]) => handled'[i] = AsReceived(sent'[i]))
    <3>1. CASE i = Len(handled) + 1
      BY <1>6, <2>2, <2>3, <3>1
    <3>2. CASE i \in 1..Len(handled)
      <4>1. ~cut
        BY <1>1, <1>2, <2>3 DEF FramingTyped
      <4>2. i \in 1..Len(sent) /\ (~Outgrown(sent[i]) => handled[i] = AsReceived(sent[i]))
        BY <1>1, <3>2, <4>1 DEF Uncut, KnownUpTo, Unknown
      <4>. QED
        BY <1>6, <3>2, <4>2
    <3>. QED
      BY <1>6, <3>1, <3>2
  <2>. QED
    BY <1>6, <2>1, <2>3 DEF Uncut
<1>12. Refused' /\ Paired'
  BY DEF Refused, Paired
<1>10. RequestsMade'
  BY DEF RequestsMade
<1>11. TextsNeverForged'
  <2>1. DOMAIN sent = 1..Len(sent)
    BY <1>1, LenProperties DEF FramingTyped
  <2>2. ASSUME NEW i \in 1..(Len(handled) + 1), handled'[i].opcode \in Documents
        PROVE  \E j \in DOMAIN sent : handled'[i] = AsReceived(sent[j])
    <3>1. CASE i = Len(handled) + 1
      <4>1. Read(SubSeq(stream, 1, n)).opcode \in Documents
        BY <1>6, <2>2, <3>1 DEF x
      <4>2. \E j \in 1..Len(sent) : Read(SubSeq(stream, 1, n)) = AsReceived(sent[j])
        BY <1>1, <1>4, <4>1, DocumentSourced
      <4>. QED
        BY <1>6, <2>1, <3>1, <4>2 DEF x
    <3>2. CASE i \in 1..Len(handled)
      BY <1>1, <1>6, <2>2, <3>2 DEF TextsNeverForged
    <3>. QED
      BY <1>6, <3>1, <3>2
  <2>. QED
    BY <1>6, <2>2 DEF TextsNeverForged
<1>. QED
  BY <1>7, <1>8, <1>9, <1>10, <1>11, <1>12 DEF FramingInv

-----------------------------------------------------------------------------
(* What a session reads. *)

\* Two opcodes with one number are one.
LEMMA NumbersApart ==
    ASSUME NEW n \in DOMAIN OpcodeNames, NEW k \in DOMAIN OpcodeNames,
           OpcodeNumber(OpcodeNames[n]) = OpcodeNumber(OpcodeNames[k])
    PROVE  OpcodeNames[n] = OpcodeNames[k]
<1>1. OpcodeNames[OpcodeNumber(OpcodeNames[n])] = OpcodeNames[n]
  BY OpcodeRead
<1>2. OpcodeNames[OpcodeNumber(OpcodeNames[k])] = OpcodeNames[k]
  BY OpcodeRead
<1>. QED
  BY <1>1, <1>2

LEMMA RequestsNamed ==
    ASSUME NEW opcode \in SessionOpcodes
    PROVE  \E n \in DOMAIN OpcodeNames : OpcodeNames[n] = opcode
<1>1. 3 \in DOMAIN OpcodeNames /\ OpcodeNames[3] = "REQUEST_CHARACTERS"
  BY DEF OpcodeNames, ClientOpcodes
<1>2. 4 \in DOMAIN OpcodeNames /\ OpcodeNames[4] = "CHARACTER_SELECT"
  BY DEF OpcodeNames, ClientOpcodes
<1>. QED
  BY <1>1, <1>2 DEF SessionOpcodes

\* The number of a packet is that of a request only if the packet is that request.
LEMMA RequestNumber ==
    ASSUME NEW p \in Sendable, NEW opcode \in SessionOpcodes, OpcodeNumber(p.opcode) = OpcodeNumber(opcode)
    PROVE  p.opcode = opcode
<1>1. PICK n \in DOMAIN OpcodeNames : OpcodeNames[n] = opcode
  BY RequestsNamed
<1>2. OpcodeNumber(p.opcode) \in DOMAIN OpcodeNames /\ OpcodeNames[OpcodeNumber(p.opcode)] = p.opcode
  BY SendableTyped
<1>. QED
  BY <1>1, <1>2, NumbersApart

\* What a session does not know is an identity: four bytes and a text.
LEMMA IdentityWritten ==
    ASSUME NEW p \in SessionPackets, p.opcode \notin SessionOpcodes
    PROVE  /\ TextsOf(p) = {ToJSON(p)} /\ TextLength(ToJSON(p)) \in Nat
           /\ \A opcode \in SessionOpcodes : TextLength(ToJSON(p)) > OpcodeNumber(opcode)
           /\ Written(p) \in Seq(Cell) /\ Len(Written(p)) = 4 + TextLength(ToJSON(p))
           /\ SubSeq(Written(p), 3, 4) = putShort(TextLength(ToJSON(p)))
           /\ \A k \in 1..TextLength(ToJSON(p)) : Written(p)[4 + k][1] = "text"
<1> DEFINE w == Written(p)
<1> DEFINE text == ToJSON(p)
<1> DEFINE body == putText(text)
<1> DEFINE l == TextLength(text)
<1>1. p \in Sendable /\ IsIdentity(p)
  BY SentAssumption DEF Sendable
<1>2. p.opcode \in Documents
  BY <1>1 DEF IsIdentity, Documents, PlainDocuments
<1>3. TextsOf(p) = {text} /\ BodyOf(p) = body
  BY <1>2 DEF TextsOf, BodyOf, Documents, PlainDocuments
<1>4. text \in Texts /\ l \in Nat
  BY <1>1, <1>3, SendableTyped
<1>5. \A opcode \in SessionOpcodes : l > OpcodeNumber(opcode)
  BY <1>1 DEF IsIdentity
<1>6. /\ body \in Seq(Cell) /\ Len(body) = 2 + l /\ SubSeq(body, 1, 2) = putShort(l)
      /\ \A k \in 1..l : body[2 + k] = <<"text", text, k>>
  BY <1>4, TextTyped
<1>7. w \in Seq(Cell) /\ Len(w) \in Nat /\ Len(w) >= 2 /\ Rest(w, 2) = body
  BY <1>1, <1>3, WrittenTyped
<1>. HIDE DEF w, body, l, text
<1>8. 2 \in 0..Len(w)
  BY <1>7
<1>9. Len(body) = Len(w) - 2 /\ \A i \in 1..(Len(w) - 2) : body[i] = w[2 + i]
  BY <1>7, <1>8, RestTyped
<1>10. Len(w) = 4 + l
  BY <1>4, <1>6, <1>7, <1>9
<1>11. SubSeq(w, 3, 4) = putShort(l)
  <2>1. w[2 + 1] = body[0 + 1] /\ w[2 + 2] = body[0 + 2] /\ 2 \in Nat /\ 0 \in Nat
    BY <1>4, <1>9, <1>10
  <2>2. 2 + 2 =< Len(w) /\ 0 + 2 =< Len(body)
    BY <1>4, <1>6, <1>10
  <2>3. SubSeq(w, 2 + 1, 2 + 2) = SubSeq(body, 0 + 1, 0 + 2)
    BY <1>6, <1>7, <2>1, <2>2, SameShort
  <2>. QED
    BY <1>6, <2>3
<1>12. ASSUME NEW k \in 1..l PROVE w[4 + k][1] = "text"
  <2>1. 2 + k \in 1..(Len(w) - 2) /\ 2 + (2 + k) = 4 + k
    BY <1>4, <1>10
  <2>2. w[4 + k] = <<"text", text, k>>
    BY <1>6, <1>9, <2>1
  <2>. QED
    BY <2>2
<1>. QED
  BY <1>3, <1>4, <1>5, <1>7, <1>10, <1>11, <1>12 DEF w, l, text

\* The next two cells of the stream are two of the packet that stands in front.
LEMMA NextTwo ==
    ASSUME FramingTyped, NEW m \in Nat, NEW o \in Nat, StandsAt(m, o), Len(stream) > 0, Len(Written(sent[m])) - o >= 2
    PROVE  /\ Len(stream) >= 2 /\ stream[1] = Written(sent[m])[o + 1] /\ stream[2] = Written(sent[m])[o + 2]
           /\ SubSeq(stream, 1, 2) = SubSeq(Written(sent[m]), o + 1, o + 2)
<1> DEFINE w == Written(sent[m])
<1>1. /\ m \in 1..Len(sent) /\ sent[m] \in Senders /\ Len(w) \in Nat /\ o < Len(w) /\ Len(w) - o =< Len(stream)
      /\ \A k \in 1..(Len(w) - o) : stream[k] = w[o + k]
  BY NextAt
<1>2. w \in Seq(Cell) /\ stream \in Seq(Cell) /\ Len(stream) \in Nat
  BY <1>1, SendersSendable, LenProperties DEF FramingTyped
<1>3. Len(w) - o >= 2
  OBVIOUS
<1>. HIDE DEF w
<1>4. Len(stream) >= 2 /\ o + 2 =< Len(w) /\ 1 \in 1..(Len(w) - o) /\ 2 \in 1..(Len(w) - o)
  BY <1>1, <1>2, <1>3
<1>5. stream[1] = w[o + 1] /\ stream[2] = w[o + 2]
  BY <1>1, <1>4
<1>6. SubSeq(stream, 1, 2) = SubSeq(w, o + 1, o + 2)
  <2>1. stream[0 + 1] = w[o + 1] /\ stream[0 + 2] = w[o + 2] /\ 0 \in Nat /\ 0 + 2 =< Len(stream)
    BY <1>4, <1>5
  <2>2. SubSeq(stream, 0 + 1, 0 + 2) = SubSeq(w, o + 1, o + 2)
    BY <1>2, <1>4, <2>1, SameShort
  <2>. QED
    BY <2>2
<1>. QED
  BY <1>4, <1>5, <1>6 DEF w

\* In front of a packet a session reads its opcode.
LEMMA OpcodeNext ==
    ASSUME FramingTyped, inSession, NEW m \in Nat, StandsAt(m, 0), Len(stream) > 0
    PROVE  /\ sent[m] \in SessionPackets
           /\ Number(SubSeq(stream, 1, 2)) = OpcodeNumber(sent[m].opcode)
<1> DEFINE p == sent[m]
<1>1. 0 \in Nat
  OBVIOUS
<1>2. p \in Senders /\ Len(Written(p)) \in Nat /\ Len(Written(p)) >= 2
  BY <1>1, NextAt
<1>3. p \in SessionPackets /\ p \in Sendable
  BY <1>2 DEF Senders, Sendable
<1>4. Len(Written(p)) - 0 >= 2
  BY <1>2
<1>5. SubSeq(stream, 1, 2) = SubSeq(Written(p), 0 + 1, 0 + 2)
  BY <1>1, <1>4, NextTwo
<1>6. Number(SubSeq(Written(p), 1, 2)) = OpcodeNumber(p.opcode)
  BY <1>3, WrittenTyped
<1>7. 0 + 1 = 1 /\ 0 + 2 = 2
  OBVIOUS
<1>. HIDE DEF p
<1>. QED
  BY <1>3, <1>5, <1>6, <1>7 DEF p

\* Where a session that has not been put out of step can stand.
Readable(m, o) ==
    /\ StandsAt(m, o)
    /\ \/ o = 0
       \/ sent[m].opcode \notin SessionOpcodes /\ ~PutsOutOfStep(sent[m]) /\ \E e \in Nat : o = 2 * e

LEMMA EvenNumber ==
    ASSUME NEW n \in Nat, n % 2 # 1
    PROVE  \E f \in Nat : n = 2 * f
<1>1. n \div 2 \in Nat /\ n = 2 * (n \div 2)
  OBVIOUS
<1>. QED
  BY <1>1

\* No two bytes of an identity are a request: not its opcode, its length or any of its text.
LEMMA IdentitySkipped ==
    ASSUME FramingTyped, inSession, NEW m \in Nat, NEW o \in Nat, Readable(m, o), Len(stream) > 0,
           sent[m].opcode \notin SessionOpcodes
    PROVE  /\ Len(Written(sent[m])) - o >= 2
           /\ \A opcode \in SessionOpcodes : ~Asks(opcode)
<1> DEFINE p == sent[m]
<1> DEFINE w == Written(p)
<1> DEFINE l == TextLength(ToJSON(p))
<1>1. StandsAt(m, o)
  BY DEF Readable
<1>2. p \in Senders /\ o < Len(w)
  BY <1>1, NextAt
<1>3. p \in SessionPackets /\ p \in Sendable
  BY <1>2 DEF Senders, Sendable
<1>4. /\ TextsOf(p) = {ToJSON(p)} /\ l \in Nat /\ \A opcode \in SessionOpcodes : l > OpcodeNumber(opcode)
      /\ w \in Seq(Cell) /\ Len(w) = 4 + l /\ SubSeq(w, 3, 4) = putShort(l)
      /\ \A k \in 1..l : w[4 + k][1] = "text"
  BY <1>3, IdentityWritten
<1>5. \A opcode \in SessionOpcodes : OpcodeNumber(p.opcode) # OpcodeNumber(opcode)
  BY <1>3, RequestNumber
<1>6. CASE o = 0
  <2>1. Len(w) - o >= 2
    BY <1>4, <1>6
  <2>2. Number(SubSeq(stream, 1, 2)) = OpcodeNumber(p.opcode)
    BY <1>1, <1>6, OpcodeNext
  <2>. QED
    BY <1>5, <2>1, <2>2 DEF Asks
<1>7. CASE o # 0
  <2>1. PICK e \in Nat : o = 2 * e
    BY <1>7 DEF Readable
  <2>2. ~Outgrown(p) /\ Len(w) % 2 # 1
    BY <1>7 DEF Readable, PutsOutOfStep
  <2>3. l \in 0..(Range16 - 1)
    BY <1>4, <2>2, BaseTyped DEF Outgrown
  <2>. HIDE DEF p, w, l
  <2>4. Len(w) - o >= 2
    BY <1>2, <1>4, <2>1, <2>2, EvenNumber
  <2>5. /\ stream[1] = w[o + 1] /\ SubSeq(stream, 1, 2) = SubSeq(w, o + 1, o + 2)
    BY <1>1, <2>4, NextTwo DEF w, p
  <2>6. CASE o = 2
    <3>1. SubSeq(stream, 1, 2) = putShort(l)
      BY <1>4, <2>5, <2>6
    <3>2. Number(SubSeq(stream, 1, 2)) = l
      BY <2>3, <3>1, ShortRead
    <3>3. \A opcode \in SessionOpcodes : OpcodeNumber(opcode) \in Nat
      BY RequestsNamed, OpcodeRead, BaseTyped
    <3>4. \A opcode \in SessionOpcodes : l # OpcodeNumber(opcode)
      BY <1>4, <3>3
    <3>. QED
      BY <2>4, <3>2, <3>4 DEF Asks, w, p
  <2>7. CASE o # 2
    <3>1. o >= 4 /\ o - 3 \in 1..l /\ 4 + (o - 3) = o + 1
      BY <1>2, <1>4, <1>7, <2>1, <2>7
    <3>2. stream[1][1] = "text"
      BY <1>4, <2>5, <3>1
    <3>3. ~HasNumber(stream, 2)
      BY <3>2, 1 \in 1..2, "byte" # "text" DEF HasNumber
    <3>. QED
      BY <2>4, <3>3 DEF Asks, w, p
  <2>. QED
    BY <2>6, <2>7
<1>. QED
  BY <1>6, <1>7

\* What a session takes of what stands in front of it.
Takes(m, o, n, x) ==
    \/ o = 0 /\ sent[m].opcode \in SessionOpcodes /\ n = Len(Written(sent[m])) /\ x = sent[m]
    \/ sent[m].opcode \notin SessionOpcodes /\ n = 2 /\ x = Garbage

\* Where it stands behind that.
LEMMA StandsBehind ==
    ASSUME FramingTyped, inSession, NEW m \in Nat, NEW o \in Nat, Readable(m, o), Len(stream) > 0, UNCHANGED sent,
           NEW n \in Nat, Take(n), NEW x, Takes(m, o, n, x)
    PROVE  /\ m \in 1..Len(sent)
           /\ sent[m].opcode \in SessionOpcodes => StandsAt(m + 1, 0)'
           /\ sent[m].opcode \notin SessionOpcodes => StandsAt(m + 1, 0)' \/ StandsAt(m, o + 2)'
<1> DEFINE l == Len(Written(sent[m]))
<1>1. StandsAt(m, o)
  BY DEF Readable
<1>2. m \in 1..Len(sent) /\ l \in Nat /\ l >= 2
  BY <1>1, NextAt
<1>3. CASE sent[m].opcode \in SessionOpcodes
  <2>1. o = 0 /\ n = l - o /\ n > 0
    BY <1>2, <1>3 DEF Takes
  <2>2. n =< l - o
    BY <2>1
  <2>3. IF n = l - o THEN StandsAt(m + 1, 0)' ELSE StandsAt(m, o + n)'
    BY <1>1, <2>1, <2>2, TakesPart
  <2>. QED
    BY <1>2, <1>3, <2>1, <2>3
<1>4. CASE sent[m].opcode \notin SessionOpcodes
  <2>1. n = 2 /\ l - o >= 2
    BY <1>4, IdentitySkipped DEF Takes
  <2>2. n > 0 /\ n =< l - o
    BY <1>2, <2>1
  <2>3. IF n = l - o THEN StandsAt(m + 1, 0)' ELSE StandsAt(m, o + n)'
    BY <1>1, <2>2, TakesPart
  <2>. QED
    BY <1>2, <1>4, <2>1, <2>3
<1>. QED
  BY <1>3, <1>4

\* A read of a session takes n cells and makes x of them: until one is cut, the next packet
\* it knows, or two bytes of one it does not.
LEMMA SessionStep ==
    ASSUME FramingInv, inSession, ~faulty, UNCHANGED <<inSession, sent, faulty>>, Len(stream) > 0,
           NEW n \in 0..Len(stream), Take(n),
           NEW x \in Decoded, x.opcode \notin Documents, handled' = Append(handled, x),
           cut' \in BOOLEAN, cut => cut', cut' /\ ~cut => x = Garbage,
           ~cut' => \A m \in Nat : \A o \in Nat : Readable(m, o) => Takes(m, o, n, x)
    PROVE  FramingInv'
<1>1. FramingTyped /\ Sourced /\ Uncut /\ Refused /\ Paired /\ RequestsMade /\ TextsNeverForged
  BY DEF FramingInv
<1>2. /\ handled' \in Seq(Decoded) /\ Len(handled) \in Nat /\ Len(handled') = Len(handled) + 1
      /\ DOMAIN handled = 1..Len(handled) /\ DOMAIN handled' = 1..(Len(handled) + 1)
      /\ \A i \in 1..Len(handled) : handled'[i] = handled[i]
      /\ handled'[Len(handled) + 1] = x
  BY <1>1, HandledMore
<1>3. PICK h \in Nat : h = Len(handled) /\ Len(handled') = h + 1
  BY <1>2
<1>4. n \in Nat /\ DOMAIN sent = 1..Len(sent) /\ Len(sent) \in Nat
  BY <1>1, LenProperties DEF FramingTyped
<1>5. FramingTyped'
  <2>1. stream' \in Seq(Cell)
    BY <1>1, Taking
  <2>. QED
    BY <1>1, <1>2, <2>1 DEF FramingTyped, Senders
<1>6. Sourced'
  BY <1>1, SourcedKept
<1>7. \A i \in Nat : KnownUpTo(i)' = KnownUpTo(i)
  BY DEF KnownUpTo, Unknown
<1>8. KnownUpTo(h + 1) => KnownUpTo(h) /\ (h + 1 \in 1..Len(sent) => sent[h + 1].opcode \in SessionOpcodes)
  <2>1. \A j \in 1..h : j \in 1..(h + 1)
    OBVIOUS
  <2>2. h + 1 \in 1..(h + 1)
    OBVIOUS
  <2>. QED
    BY <2>1, <2>2 DEF KnownUpTo, Unknown
<1>9. ASSUME ~cut', KnownUpTo(h)
      PROVE  /\ h + 1 \in 1..Len(sent)
             /\ sent[h + 1].opcode \in SessionOpcodes => x = sent[h + 1] /\ StandsAt(h + 2, 0)'
             /\ sent[h + 1].opcode \notin SessionOpcodes => x = Garbage
  <2>1. StandsAt(h + 1, 0) /\ h + 1 \in Nat /\ 0 \in Nat /\ (h + 1) + 1 = h + 2
    BY <1>1, <1>3, <1>9 DEF Uncut, InStep, FramingTyped
  <2>2. Readable(h + 1, 0)
    BY <2>1 DEF Readable
  <2>3. Takes(h + 1, 0, n, x)
    BY <1>9, <2>1, <2>2
  <2>4. /\ h + 1 \in 1..Len(sent)
        /\ sent[h + 1].opcode \in SessionOpcodes => StandsAt((h + 1) + 1, 0)'
    BY <1>1, <1>4, <2>1, <2>2, <2>3, StandsBehind
  <2>. QED
    BY <2>1, <2>3, <2>4 DEF Takes
<1>10. ASSUME ~cut', KnownUpTo(h + 1) PROVE InStep' /\ h + 1 \in 1..Len(sent) /\ x = sent[h + 1]
  <2>1. h + 1 \in 1..Len(sent) /\ x = sent[h + 1] /\ StandsAt(h + 2, 0)'
    BY <1>8, <1>9, <1>10
  <2>2. h + 2 = Len(handled') + 1
    BY <1>3
  <2>. QED
    BY <2>1, <2>2 DEF InStep
<1>11. Uncut'
  <2>1. ASSUME ~cut', NEW i \in 1..(h + 1), KnownUpTo(i) PROVE i \in 1..Len(sent) /\ handled'[i] = sent[i]
    <3>1. CASE i = h + 1
      <4>1. KnownUpTo(h + 1)
        BY <2>1, <3>1, Zenon
      <4>2. h + 1 \in 1..Len(sent) /\ x = sent[h + 1]
        BY <1>10, <2>1, <4>1
      <4>3. handled'[h + 1] = x
        BY <1>2, <1>3
      <4>. QED
        BY <3>1, <4>2, <4>3
    <3>2. CASE i \in 1..h
      <4>1. ~cut
        BY <1>1, <2>1 DEF FramingTyped
      <4>2. i \in 1..Len(sent) /\ handled[i] = sent[i]
        BY <1>1, <1>3, <2>1, <3>2, <4>1 DEF Uncut
      <4>. QED
        BY <1>2, <1>3, <3>2, <4>2
    <3>3. i = h + 1 \/ i \in 1..h
      OBVIOUS
    <3>. QED
      BY <3>1, <3>2, <3>3, Zenon
  <2>2. ~cut' /\ KnownUpTo(h + 1)' => InStep'
    BY <1>7, <1>10
  <2>3. \A i \in 1..(h + 1) : KnownUpTo(i)' = KnownUpTo(i)
    BY <1>7
  <2>. QED
    BY <1>3, <2>1, <2>2, <2>3 DEF Uncut
<1>12. cut' \/ ~KnownUpTo(h + 1) => \E j \in 1..(h + 1) : handled'[j] = Garbage
  <2>1. CASE cut \/ ~KnownUpTo(h)
    <3>1. PICK j \in 1..h : handled[j] = Garbage
      BY <1>1, <1>3, <2>1 DEF Refused
    <3>. QED
      BY <1>2, <1>3, <3>1
  <2>2. CASE cut' /\ ~cut
    BY <1>2, <1>3, <2>2
  <2>3. CASE ~cut' /\ KnownUpTo(h) /\ ~KnownUpTo(h + 1)
    <3>1. sent[h + 1].opcode \notin SessionOpcodes
      <4>1. \A j \in 1..(h + 1) : j \in 1..h \/ j = h + 1
        OBVIOUS
      <4>. QED
        BY <2>3, <4>1 DEF KnownUpTo, Unknown
    <3>2. x = Garbage
      BY <1>9, <2>3, <3>1
    <3>. QED
      BY <1>2, <1>3, <3>2
  <2>. QED
    BY <1>1, <2>1, <2>2, <2>3 DEF FramingTyped
<1>13. Refused'
  <2>1. KnownUpTo(h + 1)' = KnownUpTo(h + 1)
    BY <1>7
  <2>. QED
    BY <1>3, <1>12, <2>1 DEF Refused
<1>14. ASSUME ~cut', \A j \in 1..Len(sent) : ~PutsOutOfStep(sent[j])
       PROVE  InPairs' /\ (x = Garbage \/ \E j \in 1..Len(sent) : x = sent[j])
  <2>1. InPairs
    BY <1>1, <1>14 DEF Paired, FramingTyped
  <2>2. PICK m \in Nat : \E e \in Nat : StandsAt(m, 2 * e) /\ (e > 0 => sent[m].opcode \notin SessionOpcodes)
    BY <2>1 DEF InPairs
  <2>3. PICK e \in Nat : StandsAt(m, 2 * e) /\ (e > 0 => sent[m].opcode \notin SessionOpcodes)
    BY <2>2
  <2>4. PICK o \in Nat : o = 2 * e
    OBVIOUS
  <2>5. StandsAt(m, o) /\ m \in 1..Len(sent)
    <3>1. StandsAt(m, o)
      BY <2>3, <2>4
    <3>. QED
      BY <1>1, <3>1, NextAt
  <2>6. Readable(m, o)
    <3>1. o = 0 \/ e > 0
      BY <2>4
    <3>. QED
      BY <1>14, <2>3, <2>4, <2>5, <3>1 DEF Readable
  <2>7. Takes(m, o, n, x)
    BY <1>14, <2>6
  <2>8. /\ sent[m].opcode \in SessionOpcodes => StandsAt(m + 1, 0)'
        /\ sent[m].opcode \notin SessionOpcodes => StandsAt(m + 1, 0)' \/ StandsAt(m, o + 2)'
    BY <1>1, <1>4, <2>6, <2>7, StandsBehind
  <2>9. ASSUME StandsAt(m + 1, 0)' PROVE InPairs'
    <3>1. m + 1 \in Nat /\ 0 \in Nat /\ 2 * 0 = 0 /\ ~(0 > 0)
      OBVIOUS
    <3>2. StandsAt(m + 1, 2 * 0)'
      BY <2>9, <3>1
    <3>. QED
      BY <3>1, <3>2 DEF InPairs
  <2>10. ASSUME StandsAt(m, o + 2)', sent[m].opcode \notin SessionOpcodes PROVE InPairs'
    <3>1. e + 1 \in Nat /\ o + 2 = 2 * (e + 1)
      BY <2>4
    <3>2. StandsAt(m, 2 * (e + 1))' /\ sent'[m].opcode \notin SessionOpcodes
      BY <2>10, <3>1
    <3>. QED
      BY <3>1, <3>2 DEF InPairs
  <2>11. InPairs'
    BY <2>8, <2>9, <2>10
  <2>. QED
    BY <2>5, <2>7, <2>11 DEF Takes
<1>15. Paired'
  BY <1>14 DEF Paired
<1>16. RequestsMade'
  <2>1. ASSUME NEW i \in 1..(h + 1)
        PROVE  \/ handled'[i] = Garbage \/ \E j \in 1..Len(sent) : sent[j] = handled'[i]
               \/ /\ \E j \in 1..i-1 : handled'[j] = Garbage
                  /\ cut' \/ \E j \in 1..Len(sent) : PutsOutOfStep(sent[j])
    <3>1. CASE i = h + 1
      <4>1. CASE ~cut' /\ KnownUpTo(h + 1)
        <5>1. h + 1 \in 1..Len(sent) /\ x = sent[h + 1]
          BY <1>10, <4>1
        <5>2. handled'[i] = x
          BY <1>2, <1>3, <3>1
        <5>3. sent[h + 1] = handled'[i]
          BY <5>1, <5>2
        <5>. QED
          BY <5>1, <5>3, Zenon
      <4>2. CASE ~cut' /\ \A j \in 1..Len(sent) : ~PutsOutOfStep(sent[j])
        <5>1. x = Garbage \/ \E j \in 1..Len(sent) : x = sent[j]
          BY <1>14, <4>2
        <5>2. handled'[i] = x
          BY <1>2, <1>3, <3>1
        <5>. QED
          BY <5>1, <5>2
      <4>3. CASE /\ cut' \/ ~KnownUpTo(h + 1)
                 /\ cut' \/ \E j \in 1..Len(sent) : PutsOutOfStep(sent[j])
        <5>1. PICK j \in 1..(h + 1) : handled'[j] = Garbage
          BY <1>12, <4>3
        <5>2. CASE j = i
          BY <5>1, <5>2
        <5>3. CASE j \in 1..i-1
          BY <4>3, <5>1, <5>3
        <5>4. j = i \/ j \in 1..i-1
          BY <3>1
        <5>. QED
          BY <5>2, <5>3, <5>4, Zenon
      <4>. QED
        BY <4>1, <4>2, <4>3
    <3>2. CASE i \in 1..h
      <4>1. \/ handled[i] = Garbage \/ \E j \in 1..Len(sent) : sent[j] = handled[i]
            \/ /\ \E j \in 1..i-1 : handled[j] = Garbage
               /\ cut \/ \E j \in 1..Len(sent) : PutsOutOfStep(sent[j])
        BY <1>1, <1>2, <1>3, <1>4, <3>2 DEF RequestsMade
      <4>2. handled'[i] = handled[i] /\ \A j \in 1..i-1 : handled'[j] = handled[j]
        <5>1. \A j \in 1..i-1 : j \in 1..h
          BY <3>2
        <5>. QED
          BY <1>2, <1>3, <3>2, <5>1
      <4>3. CASE handled[i] = Garbage \/ \E j \in 1..Len(sent) : sent[j] = handled[i]
        BY <4>2, <4>3, Zenon
      <4>4. CASE /\ \E j \in 1..i-1 : handled[j] = Garbage
                 /\ cut \/ \E j \in 1..Len(sent) : PutsOutOfStep(sent[j])
        <5>1. \E j \in 1..i-1 : handled'[j] = Garbage
          BY <4>2, <4>4
        <5>2. cut' \/ \E j \in 1..Len(sent) : PutsOutOfStep(sent[j])
          BY <4>4
        <5>. QED
          BY <5>1, <5>2, Zenon
      <4>. QED
        BY <4>1, <4>3, <4>4, Zenon
    <3>3. i = h + 1 \/ i \in 1..h
      OBVIOUS
    <3>. QED
      BY <3>1, <3>2, <3>3, Zenon
  <2>2. DOMAIN handled' = 1..(h + 1) /\ DOMAIN sent' = 1..Len(sent) /\ sent' = sent
    BY <1>2, <1>3, <1>4
  <2>. QED
    BY <2>1, <2>2 DEF RequestsMade
<1>17. TextsNeverForged'
  BY <1>1, <1>2 DEF TextsNeverForged
<1>. QED
  BY <1>5, <1>6, <1>11, <1>13, <1>15, <1>16, <1>17 DEF FramingInv

LEMMA OpcodeCutShortKeeps ==
    ASSUME FramingInv, inSession, NEW arrived \in 1..Len(stream), OpcodeCutShort(arrived), UNCHANGED <<inSession, sent>>
    PROVE  FramingInv'
<1>1. FramingTyped /\ Sourced /\ Uncut /\ RequestsMade /\ TextsNeverForged
  BY DEF FramingInv
<1>2. Take(1) /\ faulty' = TRUE /\ cut' = TRUE /\ handled' = handled
  BY DEF OpcodeCutShort
<1>3. 1 \in 0..Len(stream)
  <2>1. Len(stream) \in Nat
    BY <1>1, LenProperties DEF FramingTyped
  <2>. QED
    BY <2>1
<1>4. stream' \in Seq(Cell)
  BY <1>1, <1>2, <1>3, Taking
<1>5. FramingTyped'
  BY <1>1, <1>2, <1>4 DEF FramingTyped, Senders
<1>6. Sourced'
  BY <1>1, <1>2, <1>3, SourcedKept
<1>7. Uncut' /\ Refused' /\ Paired'
  BY <1>2 DEF Uncut, Refused, Paired
<1>8. RequestsMade'
  BY <1>1, <1>2 DEF RequestsMade
<1>9. TextsNeverForged'
  BY <1>1, <1>2 DEF TextsNeverForged
<1>. QED
  BY <1>5, <1>6, <1>7, <1>8, <1>9 DEF FramingInv

\* The request a session reads in front of it is that of the packet that stands there.
LEMMA AskedNext ==
    ASSUME FramingTyped, inSession, NEW m \in Nat, NEW o \in Nat, Readable(m, o), Len(stream) > 0,
           NEW opcode \in SessionOpcodes, Asks(opcode)
    PROVE  o = 0 /\ sent[m] \in SessionPackets /\ sent[m].opcode = opcode
<1>1. sent[m].opcode \in SessionOpcodes
  BY IdentitySkipped
<1>2. o = 0 /\ StandsAt(m, 0)
  BY <1>1 DEF Readable
<1>3. sent[m] \in SessionPackets /\ Number(SubSeq(stream, 1, 2)) = OpcodeNumber(sent[m].opcode)
  BY <1>2, OpcodeNext
<1>4. sent[m] \in Sendable /\ OpcodeNumber(sent[m].opcode) = OpcodeNumber(opcode)
  BY <1>3 DEF Sendable, Asks
<1>. QED
  BY <1>2, <1>3, <1>4, RequestNumber

LEMMA RequestCharactersKeeps ==
    ASSUME FramingInv, inSession, ~faulty, NEW arrived \in 1..Len(stream), RequestCharacters(arrived),
           UNCHANGED <<inSession, sent>>
    PROVE  FramingInv'
<1> DEFINE x == [opcode |-> "REQUEST_CHARACTERS"]
<1>1. FramingTyped
  BY DEF FramingInv
<1>2. Asks("REQUEST_CHARACTERS") /\ Take(2) /\ handled' = Append(handled, x) /\ faulty' = faulty /\ cut' = cut
  BY DEF RequestCharacters
<1>3. 2 \in 0..Len(stream) /\ Len(stream) > 0
  <2>1. Len(stream) \in Nat /\ arrived >= 2
    BY <1>1, LenProperties DEF FramingTyped, RequestCharacters
  <2>. QED
    BY <2>1
<1>4. x \in Decoded /\ x.opcode \notin Documents
  BY DEF Decoded, Documents, PlainDocuments
<1>5. ASSUME NEW m \in Nat, NEW o \in Nat, Readable(m, o) PROVE Takes(m, o, 2, x)
  <2>1. "REQUEST_CHARACTERS" \in SessionOpcodes
    BY DEF SessionOpcodes
  <2>2. o = 0 /\ sent[m] \in SessionPackets /\ sent[m].opcode = "REQUEST_CHARACTERS"
    BY <1>1, <1>2, <1>3, <1>5, <2>1, AskedNext
  <2>3. Len(Written(sent[m])) = 2 /\ sent[m] = x
    BY <2>2, RequestRead
  <2>. QED
    BY <2>1, <2>2, <2>3 DEF Takes
<1>6. cut' \in BOOLEAN
  BY <1>1, <1>2 DEF FramingTyped
<1>. HIDE DEF x
<1>. QED
  BY <1>2, <1>3, <1>4, <1>5, <1>6, SessionStep

LEMMA UnhandledKeeps ==
    ASSUME FramingInv, inSession, ~faulty, NEW arrived \in 1..Len(stream), Unhandled(arrived),
           UNCHANGED <<inSession, sent>>
    PROVE  FramingInv'
<1>1. FramingTyped
  BY DEF FramingInv
<1>2. Take(2) /\ handled' = Append(handled, Garbage) /\ faulty' = faulty /\ cut' = cut
  BY DEF Unhandled
<1>3. 2 \in 0..Len(stream) /\ Len(stream) > 0 /\ Len(stream) >= 2 /\ stream \in Seq(Cell)
  <2>1. Len(stream) \in Nat /\ arrived >= 2
    BY <1>1, LenProperties DEF FramingTyped, Unhandled
  <2>. QED
    BY <1>1, <2>1 DEF FramingTyped
<1>4. Garbage \in Decoded /\ Garbage.opcode \notin Documents
  BY DEF Decoded, Documents, PlainDocuments, Garbage
<1>5. ASSUME NEW m \in Nat, NEW o \in Nat, Readable(m, o) PROVE Takes(m, o, 2, Garbage)
  <2>1. ASSUME sent[m].opcode \in SessionOpcodes PROVE FALSE
    <3>1. StandsAt(m, 0) /\ 0 \in Nat
      BY <1>5, <2>1 DEF Readable
    <3>2. sent[m] \in SessionPackets /\ Number(SubSeq(stream, 1, 2)) = OpcodeNumber(sent[m].opcode)
      BY <1>1, <1>3, <3>1, OpcodeNext
    <3>3. HasNumber(stream, 2)
      <4>1. sent[m] \in Sendable
        BY <3>2 DEF Sendable
      <4> DEFINE w == Written(sent[m])
      <4>2. HasNumber(w, 2) /\ Len(w) \in Nat /\ Len(w) - 0 >= 2
        BY <4>1, WrittenTyped
      <4>3. stream[1] = w[0 + 1] /\ stream[2] = w[0 + 2]
        BY <1>1, <1>3, <3>1, <4>2, NextTwo
      <4>. HIDE DEF w
      <4>4. w[1][1] = "byte" /\ w[2][1] = "byte"
        BY <4>2, 1 \in 1..2, 2 \in 1..2 DEF HasNumber
      <4>5. stream[1][1] = "byte" /\ stream[2][1] = "byte"
        BY <4>3, <4>4
      <4>. QED
        BY <1>3, <4>5 DEF HasNumber
    <3>4. Asks(sent[m].opcode)
      BY <3>2, <3>3 DEF Asks
    <3>. QED
      BY <2>1, <3>4 DEF Unhandled
  <2>. QED
    BY <2>1 DEF Takes
<1>6. cut' \in BOOLEAN
  BY <1>1, <1>2 DEF FramingTyped
<1>. QED
  BY <1>2, <1>3, <1>4, <1>5, <1>6, SessionStep

\* The part of a text that lies inside of what two texts have in common.
LEMMA SamePiece ==
    ASSUME NEW a \in Seq(Cell), NEW b \in Seq(Cell), NEW i \in Nat, NEW j \in Nat, i > 0, i =< j,
           j =< Len(a), j =< Len(b), \A k \in i..j : a[k] = b[k]
    PROVE  SubSeq(a, i, j) \in Seq(Cell) /\ SubSeq(a, i, j) = SubSeq(b, i, j)
<1>1. Len(a) \in Nat /\ Len(b) \in Nat /\ \A k \in i..j : k \in 1..Len(a) /\ k \in 1..Len(b)
  BY LenProperties
<1>2. \A k \in i..j : a[k] \in Cell /\ b[k] \in Cell
  BY <1>1, ElementOfSeq
<1>3. /\ SubSeq(a, i, j) \in Seq(Cell) /\ Len(SubSeq(a, i, j)) = j - i + 1
      /\ \A k \in 1..(j - i + 1) : SubSeq(a, i, j)[k] = a[i + k - 1]
  BY <1>2, SubSeqProperties
<1>4. /\ SubSeq(b, i, j) \in Seq(Cell) /\ Len(SubSeq(b, i, j)) = j - i + 1
      /\ \A k \in 1..(j - i + 1) : SubSeq(b, i, j)[k] = b[i + k - 1]
  BY <1>2, SubSeqProperties
<1>5. \A k \in 1..(j - i + 1) : i + k - 1 \in i..j
  OBVIOUS
<1>6. \A k \in 1..(j - i + 1) : SubSeq(a, i, j)[k] = SubSeq(b, i, j)[k]
  BY <1>3, <1>4, <1>5
<1>. QED
  BY <1>3, <1>4, <1>6, SeqEqual

LEMMA CharacterSelectedKeeps ==
    ASSUME FramingInv, inSession, ~faulty, NEW arrived \in 1..Len(stream), CharacterSelected(arrived),
           UNCHANGED <<inSession, sent>>
    PROVE  FramingInv'
<1> DEFINE n == Min({arrived - 2, IdLength})
<1> DEFINE x == Selection(SubSeq(stream, 3, 2 + n))
<1>1. FramingTyped
  BY DEF FramingInv
<1>2. /\ Take(2 + n) /\ faulty' = faulty /\ arrived >= 2 /\ Asks("CHARACTER_SELECT")
      /\ \/ n = IdLength /\ handled' = Append(handled, x) /\ cut' = cut
         \/ n # IdLength /\ handled' = Append(handled, Garbage) /\ cut' = TRUE
  BY DEF CharacterSelected
<1>3. stream \in Seq(Cell) /\ Len(stream) \in Nat /\ IdLength = LongLength /\ IdLength \in Nat /\ IdLength > 0
  BY <1>1, LenProperties, PacketsAssumption DEF FramingTyped, IdLength
<1>4. n \in Nat /\ n =< arrived - 2
  <2>1. arrived - 2 \in Int /\ IdLength \in Int
    BY <1>2, <1>3
  <2>2. n \in {arrived - 2, IdLength} /\ n =< arrived - 2
    BY <2>1, LeastOfTwo, Zenon
  <2>. HIDE DEF n
  <2>. QED
    BY <1>2, <1>3, <2>2
<1>. HIDE DEF n
<1>5. 2 + n \in 0..Len(stream) /\ Len(stream) > 0 /\ 2 + n =< Len(stream)
  BY <1>2, <1>3, <1>4
<1>6. CASE n = IdLength
  <2>1. /\ 3 \in Nat /\ 3 > 0 /\ 2 + n \in Nat /\ 3 =< 2 + n
    BY <1>3, <1>4, <1>6
  <2>2. SubSeq(stream, 3, 2 + n) \in Seq(Cell)
    BY <1>3, <1>5, <2>1, SamePiece
  <2>3. x \in Decoded /\ x.opcode \notin Documents
    <3>1. x \in Decoded
      BY <2>2 DEF Decoded
    <3>2. x.opcode = "CHARACTER_SELECT"
      BY DEF Selection
    <3>. QED
      BY <3>1, <3>2 DEF Documents, PlainDocuments
  <2>4. handled' = Append(handled, x) /\ cut' = cut /\ cut' \in BOOLEAN
    BY <1>1, <1>2, <1>6 DEF FramingTyped
  <2>5. ASSUME NEW m \in Nat, NEW o \in Nat, Readable(m, o) PROVE Takes(m, o, 2 + n, x)
    <3> DEFINE p == sent[m]
    <3>1. "CHARACTER_SELECT" \in SessionOpcodes
      BY DEF SessionOpcodes
    <3>2. o = 0 /\ p \in SessionPackets /\ p.opcode = "CHARACTER_SELECT"
      BY <1>1, <1>2, <1>5, <2>5, <3>1, AskedNext
    <3>3. /\ Len(Written(p)) = 2 + n /\ Number(SubSeq(Written(p), 3, 2 + n)) = p.characterID
          /\ HasNumber(SubSeq(Written(p), 3, 2 + n), IdLength)
          /\ p = [opcode |-> "CHARACTER_SELECT", characterID |-> p.characterID]
      BY <1>3, <1>6, <3>2, SelectionRead
    <3>4. Written(p) \in Seq(Cell) /\ \A k \in 1..Len(Written(p)) : stream[k] = Written(p)[k]
      <4>1. p \in Sendable /\ StandsAt(m, 0) /\ 0 \in Nat
        BY <2>5, <3>2 DEF Sendable, Readable
      <4>2. \A k \in 1..(Len(Written(p)) - 0) : stream[k] = Written(p)[0 + k]
        BY <1>1, <1>5, <4>1, NextAt
      <4>3. Written(p) \in Seq(Cell) /\ Len(Written(p)) \in Nat
        BY <4>1, WrittenTyped
      <4> DEFINE w == Written(p)
      <4>. HIDE DEF w
      <4>4. \A k \in 1..Len(w) : stream[k] = w[k]
        BY <4>2, <4>3 DEF w
      <4>. QED
        BY <4>3, <4>4 DEF w
    <3>. HIDE DEF p
    <3>5. \A k \in 3..(2 + n) : stream[k] = Written(p)[k]
      BY <1>3, <1>4, <3>3, <3>4
    <3>6. 2 + n =< Len(Written(p))
      BY <2>1, <3>3
    <3>7. SubSeq(stream, 3, 2 + n) = SubSeq(Written(p), 3, 2 + n)
      BY <1>3, <1>5, <2>1, <3>4, <3>5, <3>6, SamePiece
    <3>8. x = p
      BY <3>3, <3>7 DEF Selection
    <3>. HIDE DEF x
    <3>. QED
      BY <3>1, <3>2, <3>3, <3>8 DEF Takes, p
  <2>. HIDE DEF x
  <2>. QED
    BY <1>2, <1>5, <2>3, <2>4, <2>5, SessionStep
<1>7. CASE n # IdLength
  <2>1. handled' = Append(handled, Garbage) /\ cut' = TRUE /\ cut' \in BOOLEAN
    BY <1>2, <1>7
  <2>2. Garbage \in Decoded /\ Garbage.opcode \notin Documents
    BY DEF Decoded, Documents, PlainDocuments, Garbage
  <2>. QED
    BY <1>2, <1>5, <2>1, <2>2, SessionStep
<1>. QED
  BY <1>6, <1>7

LEMMA FramingNext == FramingInv /\ [Next]_vars => FramingInv'
<1> SUFFICES ASSUME FramingInv, [Next]_vars PROVE FramingInv'
  OBVIOUS
<1>1. CASE Write
  BY <1>1, WriteKeeps
<1>2. CASE ReadSome
  <2>1. UNCHANGED <<inSession, sent>>
    BY <1>2 DEF ReadSome
  <2>2. PICK arrived \in 1..Len(stream) : IF inSession THEN ReadSession(arrived) ELSE ReadHandshake(arrived)
    BY <1>2 DEF ReadSome
  <2>3. CASE ~inSession
    BY <2>1, <2>2, <2>3, HandshakeKeeps
  <2>4. CASE inSession
    <3>1. ~faulty /\ (OpcodeCutShort(arrived) \/ RequestCharacters(arrived) \/ CharacterSelected(arrived) \/ Unhandled(arrived))
      BY <2>2, <2>4 DEF ReadSession
    <3>. QED
      BY <2>1, <2>4, <3>1, OpcodeCutShortKeeps, RequestCharactersKeeps, CharacterSelectedKeeps, UnhandledKeeps
  <2>. QED
    BY <2>3, <2>4
<1>3. CASE UNCHANGED vars
  <2>1. /\ inSession' = inSession /\ sent' = sent /\ stream' = stream
        /\ handled' = handled /\ faulty' = faulty /\ cut' = cut
    BY <1>3 DEF vars
  <2>2. FramingTyped'
    BY <2>1 DEF FramingInv, FramingTyped, Senders
  <2>3. Sourced'
    <3>1. Sourced
      BY DEF FramingInv
    <3>2. ASSUME NEW i \in 1..Len(stream')
          PROVE  \E j \in 1..Len(sent') : \E k \in 1..Len(Written(sent'[j])) :
                     \A d \in 0..(k - 1) : d < i => stream'[i - d] = Written(sent'[j])[k - d]
      <4>1. i \in 1..Len(stream)
        BY <2>1
      <4>2. PICK j \in 1..Len(sent) : \E k \in 1..Len(Written(sent[j])) :
                \A d \in 0..(k - 1) : d < i => stream[i - d] = Written(sent[j])[k - d]
        BY <3>1, <4>1 DEF Sourced
      <4>3. j \in 1..Len(sent') /\ sent'[j] = sent[j]
        BY <2>1
      <4>. QED
        BY <2>1, <4>2, <4>3
    <3>. QED
      BY <3>2, Zenon DEF Sourced
  <2>4. Uncut' /\ Refused' /\ Paired'
    <3>1. (\A i \in Nat : KnownUpTo(i)' = KnownUpTo(i)) /\ KnownUpTo(Len(handled))' = KnownUpTo(Len(handled))
      BY <2>1 DEF KnownUpTo, Unknown
    <3>2. InStep' = InStep
      BY <2>1 DEF InStep, StandsAt, Positions
    <3>3. InPairs' = InPairs
      BY <2>1 DEF InPairs, StandsAt, Positions
    <3>4. \A i \in 1..Len(handled) : KnownUpTo(i)' = KnownUpTo(i)
      BY <3>1
    <3>5. Uncut'
      BY <2>1, <3>1, <3>2, <3>4 DEF FramingInv, Uncut
    <3>6. Refused'
      BY <2>1, <3>1 DEF FramingInv, Refused
    <3>7. Paired'
      BY <2>1, <3>3 DEF FramingInv, Paired
    <3>. QED
      BY <3>5, <3>6, <3>7
  <2>5. RequestsMade' /\ TextsNeverForged'
    BY <2>1 DEF FramingInv, RequestsMade, TextsNeverForged
  <2>. QED
    BY <2>2, <2>3, <2>4, <2>5 DEF FramingInv
<1>. QED
  BY <1>1, <1>2, <1>3 DEF Next

LEMMA FramingInvariant == Spec => []FramingInv
<1>. QED
  BY FramingInit, FramingNext, PTL DEF Spec

-----------------------------------------------------------------------------
(* The theorems. *)

\* Until a read is cut, what is handled is what was sent, for every choice of packets, of
\* the widths of a byte and of an id, and of the limit of a recv(); in a session, up to the
\* first identity that is sent again.
THEOREM HandledAsSentCorrect == Spec => []HandledAsSent
<1>1. FramingInv => HandledAsSent
  <2>. SUFFICES ASSUME FramingInv, ~cut, \A j \in DOMAIN sent : ~Outgrown(sent[j])
                PROVE  /\ ~faulty
                       /\ \A i \in DOMAIN handled : (\A j \in DOMAIN sent : Unknown(sent[j]) => i < j) =>
                              i \in DOMAIN sent /\ handled[i] = AsReceived(sent[i])
    BY DEF HandledAsSent
  <2>1. FramingTyped /\ Uncut
    BY DEF FramingInv
  <2>2. ~faulty
    BY <2>1 DEF Uncut
  <2>3. /\ sent \in Seq(Senders) /\ DOMAIN sent = 1..Len(sent) /\ Len(sent) \in Nat
        /\ DOMAIN handled = 1..Len(handled) /\ Len(handled) \in Nat
    BY <2>1, LenProperties DEF FramingTyped
  <2>4. ASSUME NEW i \in 1..Len(handled), \A j \in DOMAIN sent : Unknown(sent[j]) => i < j
        PROVE  i \in 1..Len(sent) /\ handled[i] = AsReceived(sent[i])
    <3>1. KnownUpTo(i)
      <4>1. \A j \in 1..i : ~(i < j)
        BY <2>3
      <4>. QED
        BY <2>3, <2>4, <4>1 DEF KnownUpTo
    <3>2. /\ i \in 1..Len(sent)
          /\ IF inSession THEN handled[i] = sent[i] ELSE ~Outgrown(sent[i]) => handled[i] = AsReceived(sent[i])
      BY <2>1, <3>1 DEF Uncut
    <3>3. CASE inSession
      <4> DEFINE p == sent[i]
      <4>1. p.opcode \in {"REQUEST_CHARACTERS", "CHARACTER_SELECT"}
        <5>1. ~Unknown(sent[i])
          <6>1. i \in 1..i
            BY <2>3
          <6>. QED
            BY <3>1, <3>2, <6>1 DEF KnownUpTo
        <5>. QED
          BY <3>3, <5>1 DEF Unknown, SessionOpcodes
      <4>. HIDE DEF p
      <4>2. AsReceived(p) = p
        <5>1. CASE p.opcode = "REQUEST_CHARACTERS"
          BY <5>1 DEF AsReceived
        <5>2. CASE p.opcode = "CHARACTER_SELECT"
          BY <5>2 DEF AsReceived
        <5>. QED
          BY <4>1, <5>1, <5>2
      <4>. QED
        BY <3>2, <3>3, <4>2 DEF p
    <3>4. CASE ~inSession
      BY <2>3, <3>2, <3>4
    <3>. QED
      BY <3>3, <3>4
  <2>. QED
    BY <2>2, <2>3, <2>4
<1>. QED
  BY <1>1, FramingInvariant, PTL

\* A JSON text that is accepted is one that was sent, wherever the reads end and however
\* the packets run together.
THEOREM TextsNeverForgedCorrect == Spec => []TextsNeverForged
<1>1. FramingInv => TextsNeverForged
  BY DEF FramingInv
<1>. QED
  BY <1>1, FramingInvariant, PTL

\* A session handles a request nobody made only when it is out of step, behind something it
\* has refused: a selection that was cut, or an identity of an odd length.
THEOREM RequestsMadeCorrect == Spec => []RequestsMade
<1>1. FramingInv => RequestsMade
  BY DEF FramingInv
<1>. QED
  BY <1>1, FramingInvariant, PTL

=============================================================================
