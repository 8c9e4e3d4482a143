---------------------------- MODULE RecordsProofs ----------------------------
(***************************************************************************)
(* Proofs about the records of a capture, for any script, whatever run of  *)
(* bytes is lost and wherever a read ends: their times never go back and   *)
(* stay near the host's clock, the user is told of each whole handshake    *)
(* once, and what is recorded is what was heard, each packet once and in   *)
(* order, none of a frame that came whole left out.                        *)
(*                                                                         *)
(* The first half is what records() and the decoders return, for bytes in  *)
(* any order: a record is never of a packet that does not exist, nor has   *)
(* it a time that is no number.  The second half is about what the bytes   *)
(* mean: SoFar, the invariant, says how far the parser has come in what    *)
(* was sent (AheadOf) and that the records are of what is behind it        *)
(* (Account).                                                              *)
(***************************************************************************)
EXTENDS Records, SequenceTheorems, FiniteSetTheorems, WellFoundedInduction, TLAPS

-----------------------------------------------------------------------------
(* Induction, by the least number of a set.                                *)

Below == {p \in Nat \X Nat : p[1] < p[2]}

LEMMA Least ==
  ASSUME NEW T, T \subseteq Nat, T # {}
  PROVE  \E x \in T : \A y \in T : x <= y
<1>1. OpToRel(<, Nat) = Below
  BY DEF OpToRel, Below
<1>2. IsWellFoundedOn(Below, Nat)
  BY <1>1, NatLessThanWellFounded
<1>3. PICK x \in T : \A y \in T : ~(<<y, x>> \in Below)
  BY <1>2, WFMin
<1>4. ASSUME NEW y \in T PROVE x <= y
  <2>1. x \in Nat /\ y \in Nat /\ <<y, x>> \notin Below
    BY <1>3
  <2>2. ~(y < x)
    BY <2>1 DEF Below
  <2>3. QED
    BY <2>1, <2>2
<1>5. QED
  BY <1>3, <1>4

LEMMA Induction ==
  ASSUME NEW G, 0 \in G, \A n \in Nat : n \in G => n + 1 \in G
  PROVE  \A n \in Nat : n \in G
<1> DEFINE T == {n \in Nat : n \notin G}
<1>1. SUFFICES ASSUME T # {} PROVE FALSE
  OBVIOUS
<1>2. T \subseteq Nat
  OBVIOUS
<1> HIDE DEF T
<1>3. PICK x \in T : \A y \in T : x <= y
  BY <1>1, <1>2, Least
<1>4. x \in Nat /\ x \notin G
  BY <1>3 DEF T
<1>5. x # 0
  BY <1>4
<1>6. x - 1 \in Nat /\ x - 1 \notin T
  BY <1>3, <1>4, <1>5
<1>7. x - 1 \in G
  BY <1>6 DEF T
<1>8. (x - 1) + 1 = x
  BY <1>4
<1>9. x \in G
  BY <1>6, <1>7, <1>8
<1>10. QED
  BY <1>4, <1>9

LEMMA MinIs ==
  ASSUME NEW T, T \subseteq Nat, T # {}
  PROVE  Min(T) \in T
  BY Least DEF Min

-----------------------------------------------------------------------------
(* What is put together from sequences.                                    *)

IsFlat(g, ss, n) ==
  g = [i \in 1 .. n |-> IF i = 1 THEN ss[i] ELSE g[i - 1] \o ss[i]]

FlatOf(ss) == CHOOSE g : IsFlat(g, ss, Len(ss))

LEMMA FlattenIs ==
  ASSUME NEW ss, Len(ss) # 0
  PROVE  FlattenSeq(ss) = FlatOf(ss)[Len(ss)]
  BY DEF FlattenSeq, FlatOf, IsFlat

LEMMA FlatExists ==
  ASSUME NEW S, NEW ss \in Seq(Seq(S)), NEW n \in Nat, n <= Len(ss)
  PROVE  \E g : IsFlat(g, ss, n)
<1> DEFINE G == {m \in Nat : \E g : IsFlat(g, ss, m)}
<1>1. 0 \in G
  <2>1. IsFlat(<<>>, ss, 0)
    BY DEF IsFlat
  <2>2. QED
    BY <2>1
<1>2. ASSUME NEW m \in Nat, m \in G PROVE m + 1 \in G
  <2>1. PICK g : IsFlat(g, ss, m)
    BY <1>2
  <2> DEFINE h == [i \in 1 .. m + 1 |->
                     IF i = 1 THEN ss[i]
                     ELSE IF i = m + 1 THEN g[m] \o ss[i] ELSE g[i]]
  <2>2. ASSUME NEW i \in 1 .. m + 1
        PROVE  h[i] = IF i = 1 THEN ss[i] ELSE h[i - 1] \o ss[i]
    <3>1. CASE i = 1
      BY <3>1
    <3>2. CASE i = m + 1 /\ i # 1
      <4>1. m \in 1 .. m + 1 /\ m # m + 1 /\ i - 1 = m
        BY <3>2
      <4>2. h[m] = IF m = 1 THEN ss[m] ELSE g[m]
        BY <4>1
      <4>3. m = 1 => g[m] = ss[m]
        BY <2>1 DEF IsFlat
      <4>4. h[m] = g[m]
        BY <4>2, <4>3
      <4>5. h[i] = g[m] \o ss[i]
        BY <3>2
      <4>6. QED
        BY <3>2, <4>1, <4>4, <4>5
    <3>3. CASE i # m + 1 /\ i # 1
      <4>1. i \in 1 .. m /\ i - 1 \in 1 .. m
        BY <3>3
      <4>2. g[i] = g[i - 1] \o ss[i]
        BY <2>1, <3>3, <4>1 DEF IsFlat
      <4>3. h[i] = g[i]
        BY <3>3
      <4>4. i - 1 = 1 => g[i - 1] = ss[i - 1]
        BY <2>1, <4>1 DEF IsFlat
      <4>5. h[i - 1] = g[i - 1]
        BY <4>1, <4>4
      <4>6. QED
        BY <3>3, <4>2, <4>3, <4>5
    <3>4. QED
      BY <3>1, <3>2, <3>3
  <2>3. IsFlat(h, ss, m + 1)
    BY <2>2 DEF IsFlat
  <2> HIDE DEF h
  <2>4. \E k : IsFlat(k, ss, m + 1)
    BY <2>3
  <2>5. QED
    BY <2>4
<1>3. n \in G
  <2> HIDE DEF G
  <2>1. QED
    BY <1>1, <1>2, Induction
<1>4. QED
  BY <1>3

LEMMA Flat ==
  ASSUME NEW S, NEW ss \in Seq(Seq(S))
  PROVE  FlattenSeq(ss) \in Seq(S)
<1> DEFINE n == Len(ss)
<1>1. n \in Nat
  OBVIOUS
<1>2. CASE n = 0
  <2>1. FlattenSeq(ss) = ss /\ ss = <<>>
    BY <1>2 DEF FlattenSeq
  <2>2. QED
    BY <2>1
<1>3. CASE n # 0
  <2> DEFINE g == FlatOf(ss)
  <2>1. g = [i \in 1 .. n |-> IF i = 1 THEN ss[i] ELSE g[i - 1] \o ss[i]]
    <3>1. \E k : IsFlat(k, ss, n)
      BY <1>1, FlatExists
    <3>2. IsFlat(FlatOf(ss), ss, n)
      BY <3>1 DEF FlatOf
    <3>3. QED
      BY <3>2 DEF IsFlat
  <2> HIDE DEF g
  <2> DEFINE G == {k \in Nat : k \in 1 .. n => g[k] \in Seq(S)}
  <2>2. 0 \in G
    OBVIOUS
  <2>3. ASSUME NEW k \in Nat, k \in G PROVE k + 1 \in G
    <3>1. SUFFICES ASSUME k + 1 \in 1 .. n PROVE g[k + 1] \in Seq(S)
      OBVIOUS
    <3>2. ss[k + 1] \in Seq(S)
      BY <3>1
    <3>3. CASE k = 0
      <4>1. g[k + 1] = ss[k + 1]
        BY <2>1, <3>1, <3>3
      <4>2. QED
        BY <3>2, <4>1
    <3>4. CASE k # 0
      <4>1. k \in 1 .. n /\ k + 1 # 1 /\ (k + 1) - 1 = k
        BY <3>1, <3>4
      <4>2. g[k] \in Seq(S)
        BY <2>3, <4>1
      <4>3. g[k + 1] = g[k] \o ss[k + 1]
        BY <2>1, <3>1, <4>1
      <4>4. QED
        BY <3>2, <4>2, <4>3
    <3>5. QED
      BY <3>3, <3>4
  <2>4. n \in G
    <3> HIDE DEF G, n
    <3>1. QED
      BY <1>1, <2>2, <2>3, Induction
  <2>5. n \in 1 .. n
    BY <1>1, <1>3
  <2>6. g[n] \in Seq(S)
    BY <2>4, <2>5
  <2>7. QED
    BY <1>3, <2>6, FlattenIs DEF g
<1>4. QED
  BY <1>2, <1>3

\* The times of a batch's entries.
IsTimes(g, p, n) ==
  g = [k \in 0 .. n |-> IF k = 0 THEN p[1].base ELSE g[k - 1] + p[k + 1].dt]

LEMMA TimesExist ==
  ASSUME NEW p, NEW n \in Nat
  PROVE  \E g : IsTimes(g, p, n)
<1> DEFINE G == {m \in Nat : \E g : IsTimes(g, p, m)}
<1>1. 0 \in G
  <2> DEFINE h == [k \in 0 .. 0 |-> p[1].base]
  <2>1. IsTimes(h, p, 0)
    BY DEF IsTimes
  <2> HIDE DEF h
  <2>2. \E l : IsTimes(l, p, 0)
    BY <2>1
  <2>3. QED
    BY <2>2
<1>2. ASSUME NEW m \in Nat, m \in G PROVE m + 1 \in G
  <2>1. PICK g : IsTimes(g, p, m)
    BY <1>2
  <2> DEFINE h == [k \in 0 .. m + 1 |->
                     IF k = m + 1 THEN g[m] + p[k + 1].dt ELSE g[k]]
  <2>2. ASSUME NEW k \in 0 .. m + 1
        PROVE  h[k] = IF k = 0 THEN p[1].base ELSE h[k - 1] + p[k + 1].dt
    <3>1. CASE k = m + 1
      <4>1. k # 0 /\ k - 1 = m /\ m \in 0 .. m + 1 /\ m # m + 1
        BY <3>1
      <4>2. h[k - 1] = g[m]
        BY <4>1
      <4>3. h[k] = g[m] + p[k + 1].dt
        BY <3>1
      <4>4. QED
        BY <4>1, <4>2, <4>3
    <3>2. CASE k # m + 1
      <4>1. k \in 0 .. m /\ h[k] = g[k]
        BY <3>2
      <4>2. k # 0 => k - 1 \in 0 .. m + 1 /\ k - 1 # m + 1
        BY <4>1
      <4>3. k # 0 => h[k - 1] = g[k - 1]
        BY <4>2
      <4>4. g[k] = IF k = 0 THEN p[1].base ELSE g[k - 1] + p[k + 1].dt
        BY <2>1, <4>1 DEF IsTimes
      <4>5. QED
        BY <4>1, <4>3, <4>4
    <3>3. QED
      BY <3>1, <3>2
  <2>3. IsTimes(h, p, m + 1)
    BY <2>2 DEF IsTimes
  <2> HIDE DEF h
  <2>4. \E l : IsTimes(l, p, m + 1)
    BY <2>3
  <2>5. QED
    BY <2>4
<1> HIDE DEF G
<1>3. n \in G
  BY <1>1, <1>2, Induction
<1>4. QED
  BY <1>3 DEF G

LEMMA TimeIsInt ==
  ASSUME NEW p, p[1].count \in Nat, p[1].base \in Int,
         \A k \in 1 .. p[1].count : p[k + 1].dt \in Int,
         NEW i \in 0 .. p[1].count
  PROVE  TimeOf(p, i) \in Int
<1> DEFINE n == p[1].count
           at == CHOOSE g : IsTimes(g, p, n)
<1>1. IsTimes(at, p, n)
  <2>1. \E g : IsTimes(g, p, n)
    BY TimesExist
  <2>2. QED
    BY <2>1
<1>2. TimeOf(p, i) = at[i]
  BY DEF TimeOf, IsTimes
<1> HIDE DEF at
<1> DEFINE G == {k \in Nat : k \in 0 .. n => at[k] \in Int}
<1>3. 0 \in G
  BY <1>1 DEF IsTimes
<1>4. ASSUME NEW k \in Nat, k \in G PROVE k + 1 \in G
  <2>1. SUFFICES ASSUME k + 1 \in 0 .. n PROVE at[k + 1] \in Int
    OBVIOUS
  <2>2. k \in 0 .. n /\ k + 1 \in 1 .. n /\ (k + 1) - 1 = k /\ k + 1 # 0
    BY <2>1
  <2>3. at[k] \in Int /\ p[(k + 1) + 1].dt \in Int
    BY <1>4, <2>2
  <2>4. at[k + 1] = at[k] + p[(k + 1) + 1].dt
    BY <1>1, <2>1, <2>2 DEF IsTimes
  <2>5. QED
    BY <2>3, <2>4
<1>5. i \in Nat
  OBVIOUS
<1>6. i \in G
  <2> HIDE DEF G, n
  <2>1. QED
    BY <1>3, <1>4, <1>5, Induction
<1>7. QED
  BY <1>2, <1>6

-----------------------------------------------------------------------------
(* The tokens a board sends of n packets.                                  *)

MARKS == {"magic0", "magic1", "counters", "more", "chance"}
TokensOf(n) ==
  [t : MARKS, f : Nat]
  \cup [t : {"rest"}, f : Nat, kind : Kinds, seq : Int, len : Nat]
  \cup [t : {"meta"}, f : Nat, at : Int, channel : Int]
  \cup [t : {"packet"}, f : Nat, pkt : 1 .. n, lost : Nat]
  \cup [t : {"batch"}, f : Nat, base : Int, channel : Int, count : Nat]
  \cup [t : {"entry"}, f : Nat, dt : Int, pkt : 1 .. n]
  \cup [t : {"bleBatch"}, f : Nat, base : Int, count : Nat]
  \cup [t : {"bleEntry"}, f : Nat, dt : Int, pkt : 1 .. n, lost : Nat]

LEMMA TokensAre ==
  ASSUME NEW n \in Nat
  PROVE  /\ \A t \in MARKS, f \in Nat : [t |-> t, f |-> f] \in TokensOf(n)
         /\ \A f, len \in Nat, kind \in Kinds, seq \in Int :
              [t |-> "rest", f |-> f, kind |-> kind, seq |-> seq, len |-> len]
                \in TokensOf(n)
         /\ \A f \in Nat, at, channel \in Int :
              [t |-> "meta", f |-> f, at |-> at, channel |-> channel] \in TokensOf(n)
         /\ \A f, lost \in Nat, pkt \in 1 .. n :
              [t |-> "packet", f |-> f, pkt |-> pkt, lost |-> lost] \in TokensOf(n)
         /\ \A f, count \in Nat, base, channel \in Int :
              [t |-> "batch", f |-> f, base |-> base, channel |-> channel,
               count |-> count] \in TokensOf(n)
         /\ \A f \in Nat, dt \in Int, pkt \in 1 .. n :
              [t |-> "entry", f |-> f, dt |-> dt, pkt |-> pkt] \in TokensOf(n)
         /\ \A f, count \in Nat, base \in Int :
              [t |-> "bleBatch", f |-> f, base |-> base, count |-> count]
                \in TokensOf(n)
         /\ \A f, lost \in Nat, dt \in Int, pkt \in 1 .. n :
              [t |-> "bleEntry", f |-> f, dt |-> dt, pkt |-> pkt, lost |-> lost]
                \in TokensOf(n)
  BY DEF TokensOf

LEMMA TokensHold ==
  ASSUME NEW n \in Nat, NEW k \in TokensOf(n)
  PROVE  /\ k.t = "rest" => k.kind \in Kinds /\ k.seq \in Int /\ k.len \in Nat
         /\ k.t = "meta" => k.at \in Int /\ k.channel \in Int
         /\ k.t = "packet" => k.pkt \in 1 .. n /\ k.lost \in Nat
         /\ k.t = "batch" => k.base \in Int /\ k.channel \in Int /\ k.count \in Nat
         /\ k.t = "entry" => k.dt \in Int /\ k.pkt \in 1 .. n
         /\ k.t = "bleBatch" => k.base \in Int /\ k.count \in Nat
         /\ k.t = "bleEntry" => k.dt \in Int /\ k.pkt \in 1 .. n /\ k.lost \in Nat
         /\ k.f \in Nat
  BY DEF TokensOf, MARKS

LEMMA EncodeIs ==
  ASSUME NEW n \in Nat, NEW f \in Nat, NEW kind \in Kinds, NEW seq \in Int,
         NEW payload \in Seq(TokensOf(n))
  PROVE  Encode(f, kind, seq, payload) \in Seq(TokensOf(n))
<1> DEFINE first == [t |-> "magic0", f |-> f]
           second == [t |-> "magic1", f |-> f]
           third == [t |-> "rest", f |-> f, kind |-> kind, seq |-> seq % Modulus,
                     len |-> Len(payload)]
<1>1. "magic0" \in MARKS /\ "magic1" \in MARKS
  BY DEF MARKS
<1>2. seq % Modulus \in Int /\ Len(payload) \in Nat
  BY DEF Modulus
<1>3. first \in TokensOf(n) /\ second \in TokensOf(n)
  BY <1>1, TokensAre
<1>4. third \in TokensOf(n)
  <2> DEFINE number == seq % Modulus
             len == Len(payload)
  <2> HIDE DEF number, len
  <2>1. number \in Int /\ len \in Nat
    BY <1>2 DEF number, len
  <2>2. [t |-> "rest", f |-> f, kind |-> kind, seq |-> number, len |-> len]
          \in TokensOf(n)
    BY <2>1, TokensAre
  <2>3. QED
    BY <2>2 DEF number, len
<1>5. Encode(f, kind, seq, payload) = <<first, second, third>> \o payload
  BY DEF Encode
<1> HIDE DEF first, second, third
<1>6. <<first, second, third>> \in Seq(TokensOf(n))
  BY <1>3, <1>4
<1>7. QED
  BY <1>5, <1>6

\* A script, and what the packets of one of its frames are.
LEMMA ScriptIs ==
  ASSUME NEW s \in Scripts
  PROVE  /\ s.heard \in Seq(Packet) /\ Len(s.heard) \in Nat
         /\ \A p \in 1 .. Len(s.heard) :
              /\ s.heard[p].at \in Nat /\ s.heard[p].at \in Int
              /\ s.heard[p].channel \in Int /\ s.heard[p].lost \in Nat
         /\ Len(s.frames) \in Nat
         /\ \A f \in 1 .. Len(s.frames) :
              /\ s.frames[f].kind \in Kinds
              /\ s.frames[f].ps \in Seq(1 .. Len(s.heard))
              /\ s.frames[f].kind # "STATS" => s.frames[f].ps # <<>>
<1>1. /\ s.heard \in Seq(Packet)
      /\ s.frames \in Seq([kind : Kinds, ps : Seq(1 .. Len(s.heard))])
      /\ \A f \in 1 .. Len(s.frames) :
           s.frames[f].kind # "STATS" => s.frames[f].ps # <<>>
  BY ScriptsAssumption
<1>2. \A p \in 1 .. Len(s.heard) : s.heard[p] \in Packet
  BY <1>1
<1>3. \A p \in 1 .. Len(s.heard) :
        /\ s.heard[p].at \in Nat /\ s.heard[p].at \in Int
        /\ s.heard[p].channel \in Int /\ s.heard[p].lost \in Nat
  <2>1. \A k \in Packet : k.at \in Nat /\ k.channel \in Int /\ k.lost \in Nat
    BY DEF Packet
  <2>2. QED
    BY <1>2, <2>1
<1>4. \A f \in 1 .. Len(s.frames) :
        s.frames[f] \in [kind : Kinds, ps : Seq(1 .. Len(s.heard))]
  <2> DEFINE F == [kind : Kinds, ps : Seq(1 .. Len(s.heard))]
  <2>1. s.frames \in Seq(F)
    BY <1>1
  <2> HIDE DEF F
  <2>2. \A f \in 1 .. Len(s.frames) : s.frames[f] \in F
    BY <2>1
  <2>3. QED
    BY <2>2 DEF F
<1>5. \A f \in 1 .. Len(s.frames) :
        s.frames[f].kind \in Kinds /\ s.frames[f].ps \in Seq(1 .. Len(s.heard))
  BY <1>4
<1>6. QED
  BY <1>1, <1>3, <1>5

LEMMA PacketPayloadIs ==
  ASSUME NEW s \in Scripts, NEW f \in Nat, NEW p \in 1 .. Len(s.heard)
  PROVE  PacketPayload(f, p, s.heard) \in Seq(TokensOf(Len(s.heard)))
<1> DEFINE meta == [t |-> "meta", f |-> f, at |-> s.heard[p].at,
                    channel |-> s.heard[p].channel]
           packet == [t |-> "packet", f |-> f, pkt |-> p, lost |-> s.heard[p].lost]
<1>1. /\ s.heard[p].at \in Int /\ s.heard[p].channel \in Int
      /\ s.heard[p].lost \in Nat /\ Len(s.heard) \in Nat
  BY ScriptIs
<1>2. meta \in TokensOf(Len(s.heard)) /\ packet \in TokensOf(Len(s.heard))
  <2> DEFINE n == Len(s.heard)
  <2>1. n \in Nat /\ p \in 1 .. n
    BY <1>1
  <2> HIDE DEF n
  <2>2. meta \in TokensOf(n)
    BY <1>1, <2>1, TokensAre
  <2>3. packet \in TokensOf(n)
    BY <1>1, <2>1, TokensAre
  <2>4. QED
    BY <2>2, <2>3 DEF n
<1>3. PacketPayload(f, p, s.heard) = <<meta, packet>>
  BY DEF PacketPayload
<1> HIDE DEF meta, packet
<1>4. QED
  BY <1>2, <1>3

\* The distance of a batch's packet from the one before.
LEMMA DtIs ==
  ASSUME NEW s \in Scripts, NEW ps \in Seq(1 .. Len(s.heard)), NEW i \in 1 .. Len(ps)
  PROVE  Dt(ps, i, s.heard) \in Int /\ ps[i] \in 1 .. Len(s.heard)
<1>1. ps[i] \in 1 .. Len(s.heard) /\ (i # 1 => ps[i - 1] \in 1 .. Len(s.heard))
  OBVIOUS
<1>2. s.heard[ps[i]].at \in Int /\ (i # 1 => s.heard[ps[i - 1]].at \in Int)
  BY <1>1, ScriptIs
<1>3. QED
  BY <1>1, <1>2 DEF Dt

LEMMA BatchIs ==
  ASSUME NEW s \in Scripts, NEW f \in Nat,
         NEW ps \in Seq(1 .. Len(s.heard)), ps # <<>>
  PROVE  EncodePacketBatch(f, ps, s.heard) \in Seq(TokensOf(Len(s.heard)))
<1> DEFINE n == Len(s.heard)
           head == [t |-> "batch", f |-> f, base |-> s.heard[ps[1]].at,
                    channel |-> s.heard[ps[1]].channel, count |-> Len(ps)]
           Entry(i) == [t |-> "entry", f |-> f, dt |-> Dt(ps, i, s.heard), pkt |-> ps[i]]
<1>1. n \in Nat /\ Len(ps) \in Nat /\ ps[1] \in 1 .. n
  BY ScriptIs
<1>2. head \in TokensOf(n)
  <2>1. s.heard[ps[1]].at \in Int /\ s.heard[ps[1]].channel \in Int
    BY <1>1, ScriptIs
  <2>2. QED
    BY <1>1, <2>1, TokensAre
<1>3. \A i \in 1 .. Len(ps) : Entry(i) \in TokensOf(n)
  BY <1>1, DtIs, TokensAre
<1>4. EncodePacketBatch(f, ps, s.heard) = <<head>> \o [i \in 1 .. Len(ps) |-> Entry(i)]
  BY DEF EncodePacketBatch
<1> HIDE DEF head, Entry, n
<1>5. <<head>> \in Seq(TokensOf(n))
  BY <1>2
<1>6. [i \in 1 .. Len(ps) |-> Entry(i)] \in Seq(TokensOf(n))
  BY <1>1, <1>3
<1>7. QED
  BY <1>4, <1>5, <1>6 DEF n

LEMMA BleBatchIs ==
  ASSUME NEW s \in Scripts, NEW f \in Nat,
         NEW ps \in Seq(1 .. Len(s.heard)), ps # <<>>
  PROVE  EncodeBleBatch(f, ps, s.heard) \in Seq(TokensOf(Len(s.heard)))
<1> DEFINE n == Len(s.heard)
           head == [t |-> "bleBatch", f |-> f, base |-> s.heard[ps[1]].at,
                    count |-> Len(ps)]
           Entry(i) == [t |-> "bleEntry", f |-> f, dt |-> Dt(ps, i, s.heard),
                        pkt |-> ps[i], lost |-> s.heard[ps[i]].lost]
<1>1. n \in Nat /\ Len(ps) \in Nat /\ ps[1] \in 1 .. n
  BY ScriptIs
<1>2. head \in TokensOf(n)
  <2>1. s.heard[ps[1]].at \in Int
    BY <1>1, ScriptIs
  <2>2. QED
    BY <1>1, <2>1, TokensAre
<1>3. \A i \in 1 .. Len(ps) : Entry(i) \in TokensOf(n)
  <2> TAKE i \in 1 .. Len(ps)
  <2>1. Dt(ps, i, s.heard) \in Int /\ ps[i] \in 1 .. n
    BY DtIs
  <2>2. s.heard[ps[i]].lost \in Nat
    BY <2>1, ScriptIs
  <2>3. QED
    BY <1>1, <2>1, <2>2, TokensAre
<1>4. EncodeBleBatch(f, ps, s.heard) = <<head>> \o [i \in 1 .. Len(ps) |-> Entry(i)]
  BY DEF EncodeBleBatch
<1> HIDE DEF head, Entry, n
<1>5. <<head>> \in Seq(TokensOf(n))
  BY <1>2
<1>6. [i \in 1 .. Len(ps) |-> Entry(i)] \in Seq(TokensOf(n))
  BY <1>1, <1>3
<1>7. QED
  BY <1>4, <1>5, <1>6 DEF n

LEMMA PayloadIs ==
  ASSUME NEW s \in Scripts, NEW f \in 1 .. Len(s.frames)
  PROVE  Payload(f, s.frames[f], s.heard) \in Seq(TokensOf(Len(s.heard)))
<1> DEFINE n == Len(s.heard)
           frame == s.frames[f]
           mine == PacketPayload(f, frame.ps[1], s.heard)
<1>1. n \in Nat /\ f \in Nat /\ frame.kind \in Kinds /\ frame.ps \in Seq(1 .. n)
  BY ScriptIs
<1>2. CASE frame.kind = "STATS"
  <2> DEFINE counters == [t |-> "counters", f |-> f]
  <2>1. counters \in TokensOf(n)
    BY <1>1, TokensAre DEF MARKS
  <2>2. Payload(f, frame, s.heard) = <<counters>>
    BY <1>2 DEF Payload
  <2> HIDE DEF counters
  <2>3. QED
    BY <2>1, <2>2
<1>3. CASE frame.kind # "STATS"
  <2>1. frame.ps # <<>> /\ frame.ps[1] \in 1 .. n
    <3>1. frame.ps # <<>>
      BY <1>3, ScriptIs
    <3>2. Len(frame.ps) \in Nat \ {0}
      BY <1>1, <3>1
    <3>3. QED
      BY <1>1, <3>1, <3>2
  <2>2. mine \in Seq(TokensOf(n))
    BY <1>1, <2>1, PacketPayloadIs
  <2>3. CASE frame.kind = "PACKET_BATCH"
    <3>1. Payload(f, frame, s.heard) = EncodePacketBatch(f, frame.ps, s.heard)
      BY <2>3 DEF Payload
    <3>2. QED
      BY <1>1, <2>1, <3>1, BatchIs
  <2>4. CASE frame.kind = "BLE_BATCH"
    <3>1. Payload(f, frame, s.heard) = EncodeBleBatch(f, frame.ps, s.heard)
      BY <2>4 DEF Payload
    <3>2. QED
      BY <1>1, <2>1, <3>1, BleBatchIs
  <2>5. CASE frame.kind = "LONG"
    <3> DEFINE more == [t |-> "more", f |-> f]
    <3>1. more \in TokensOf(n)
      BY <1>1, TokensAre DEF MARKS
    <3>2. Payload(f, frame, s.heard) = mine \o [k \in 1 .. 4 |-> more]
      BY <2>5 DEF Payload
    <3> HIDE DEF more, mine
    <3>3. [k \in 1 .. 4 |-> more] \in Seq(TokensOf(n))
      BY <3>1
    <3>4. QED
      BY <2>2, <3>2, <3>3
  <2>6. CASE frame.kind = "CHANCE"
    <3> DEFINE chance == [t |-> "chance", f |-> f]
               inner == Encode(f, "PACKET", FirstSeq + f + 1, <<chance, chance>>)
    <3>1. chance \in TokensOf(n)
      BY <1>1, TokensAre DEF MARKS
    <3>2. Payload(f, frame, s.heard) = mine \o inner
      BY <2>6 DEF Payload
    <3> HIDE DEF chance, mine
    <3>3. <<chance, chance>> \in Seq(TokensOf(n))
      BY <3>1
    <3>4. "PACKET" \in Kinds /\ FirstSeq + f + 1 \in Int
      BY DEF Kinds, FirstSeq
    <3>5. inner \in Seq(TokensOf(n))
      BY <1>1, <3>3, <3>4, EncodeIs
    <3> HIDE DEF inner
    <3>6. QED
      BY <2>2, <3>2, <3>5
  <2>7. CASE frame.kind \notin {"PACKET_BATCH", "BLE_BATCH", "LONG", "CHANCE"}
    <3>1. Payload(f, frame, s.heard) = mine
      BY <1>3, <2>7 DEF Payload
    <3>2. QED
      BY <2>2, <3>1
  <2>8. QED
    BY <2>3, <2>4, <2>5, <2>6, <2>7
<1>4. QED
  BY <1>2, <1>3

LEMMA FramedIs ==
  ASSUME NEW s \in Scripts, NEW f \in 1 .. Len(s.frames)
  PROVE  Framed(s, f) \in Seq(TokensOf(Len(s.heard)))
<1> DEFINE n == Len(s.heard)
           kind == IF s.frames[f].kind \in {"LONG", "CHANCE"} THEN "PACKET"
                   ELSE s.frames[f].kind
<1>1. n \in Nat /\ Len(s.frames) \in Nat
  BY ScriptIs
<1>2. kind \in Kinds
  BY ScriptIs DEF Kinds
<1>3. f \in Nat /\ FirstSeq + f - 1 \in Int
  BY <1>1 DEF FirstSeq
<1>4. Payload(f, s.frames[f], s.heard) \in Seq(TokensOf(n))
  BY PayloadIs
<1> HIDE DEF kind
<1>5. Encode(f, kind, FirstSeq + f - 1, Payload(f, s.frames[f], s.heard))
        \in Seq(TokensOf(n))
  BY <1>1, <1>2, <1>3, <1>4, EncodeIs
<1>6. QED
  BY <1>5 DEF kind, Framed

LEMMA SentIs ==
  ASSUME NEW s \in Scripts
  PROVE  Sent(s) \in Seq(TokensOf(Len(s.heard)))
<1> DEFINE n == Len(s.heard)
           all == [f \in 1 .. Len(s.frames) |-> Framed(s, f)]
<1>1. n \in Nat /\ Len(s.frames) \in Nat
  BY ScriptIs
<1>2. \A f \in 1 .. Len(s.frames) : Framed(s, f) \in Seq(TokensOf(n))
  BY FramedIs
<1>3. Sent(s) = FlattenSeq(all)
  BY DEF Sent
<1>4. all \in Seq(Seq(TokensOf(n)))
  BY <1>1, <1>2
<1>5. QED
  BY <1>3, <1>4, Flat

-----------------------------------------------------------------------------
(* What the parser makes of tokens.                                        *)

LEMMA CutIs ==
  ASSUME NEW S, NEW b \in Seq(S), NEW m \in 1 .. Len(b) + 1, NEW k \in m - 1 .. Len(b)
  PROVE  SubSeq(b, m, k) \in Seq(S)
<1>1. Len(b) \in Nat
  OBVIOUS
<1>2. CASE k < m
  <2>1. SubSeq(b, m, k) = <<>>
    BY <1>2, <1>1
  <2>2. QED
    BY <2>1
<1>3. CASE ~(k < m)
  <2>1. \A i \in m .. k : i \in 1 .. Len(b)
    BY <1>1
  <2>2. \A i \in m .. k : b[i] \in S
    BY <2>1
  <2>3. m \in Int /\ k \in Int /\ m <= k + 1
    BY <1>1
  <2>4. QED
    BY <2>2, <2>3, SubSeqProperties
<1>4. QED
  BY <1>2, <1>3

LEMMA ResyncedIs ==
  ASSUME NEW S, NEW b \in Seq(S)
  PROVE  Resynced(b) \in Seq(S)
<1> DEFINE magics == {p \in 2 .. Len(b) : MagicAt(b, p)}
<1>1. Len(b) \in Nat
  OBVIOUS
<1>2. CASE magics # {}
  <2>1. magics \subseteq Nat /\ magics \subseteq 2 .. Len(b)
    BY <1>1
  <2>2. Resynced(b) = SubSeq(b, Min(magics), Len(b))
    BY <1>2 DEF Resynced
  <2> HIDE DEF magics
  <2>3. Min(magics) \in 2 .. Len(b)
    BY <1>2, <2>1, MinIs
  <2>4. Min(magics) \in 1 .. Len(b) + 1 /\ Len(b) \in Min(magics) - 1 .. Len(b)
    BY <1>1, <2>3
  <2>5. QED
    BY <2>2, <2>4, CutIs
<1>3. CASE magics = {}
  <2>1. Resynced(b) \in {<<Last(b)>>, <<>>}
        /\ (Resynced(b) = <<Last(b)>> => Len(b) > 1 \/ Resynced(b) = <<>>)
    BY <1>3 DEF Resynced
  <2>2. Len(b) > 1 => Last(b) \in S
    BY <1>1 DEF Last
  <2>3. Len(b) > 1 => <<Last(b)>> \in Seq(S)
    BY <2>2
  <2>4. <<>> \in Seq(S)
    OBVIOUS
  <2>5. QED
    BY <2>1, <2>3, <2>4
<1>4. QED
  BY <1>2, <1>3

\* A frame whole at the head of the buffer.
LEMMA HeadIs ==
  ASSUME NEW n \in Nat, NEW b \in Seq(TokensOf(n)), Whole(b)
  PROVE  /\ b[3].kind \in Kinds
         /\ End(b) \in Nat /\ End(b) >= HEADER_LEN /\ End(b) <= Len(b)
<1>1. Len(b) \in Nat /\ b[3].t = "rest" /\ 3 <= Len(b) /\ Len(b) >= End(b)
  BY DEF Whole, HeaderAt
<1>2. b[3] \in TokensOf(n)
  BY <1>1
<1>3. b[3].kind \in Kinds /\ b[3].len \in Nat
  BY <1>1, <1>2, TokensHold
<1>4. QED
  BY <1>1, <1>3 DEF End, HEADER_LEN

LEMMA SkippedIs ==
  ASSUME NEW n \in Nat, NEW b \in Seq(TokensOf(n))
  PROVE  Skipped(b) \in Seq(TokensOf(n))
<1>1. CASE ~LostTail(b)
  BY <1>1, ResyncedIs DEF Skipped
<1>2. CASE LostTail(b)
  <2>1. Whole(b) /\ InnerHeaders(b) # {}
    BY <1>2 DEF LostTail
  <2>2. End(b) \in Nat /\ End(b) >= 3 /\ End(b) <= Len(b) /\ Len(b) \in Nat
    BY <2>1, HeadIs DEF HEADER_LEN
  <2>3. InnerHeaders(b) \subseteq 4 .. End(b)
    BY <2>2 DEF InnerHeaders, HEADER_LEN
  <2>4. InnerHeaders(b) \subseteq Nat
    BY <2>2, <2>3
  <2>5. Min(InnerHeaders(b)) \in 4 .. End(b)
    BY <2>1, <2>3, <2>4, MinIs
  <2>6. /\ Min(InnerHeaders(b)) \in 1 .. Len(b) + 1
        /\ Len(b) \in Min(InnerHeaders(b)) - 1 .. Len(b)
    BY <2>2, <2>5
  <2>7. Skipped(b) = SubSeq(b, Min(InnerHeaders(b)), Len(b))
    BY <1>2 DEF Skipped
  <2>8. QED
    BY <2>6, <2>7, CutIs
<1>3. QED
  BY <1>1, <1>2

LEMMA FrameIs ==
  ASSUME NEW n \in Nat, NEW b \in Seq(TokensOf(n)), Whole(b)
  PROVE  /\ Rest(b) \in Seq(TokensOf(n))
         /\ HeadFrame(b).payload \in Seq(TokensOf(n))
<1>1. End(b) \in Nat /\ End(b) >= 3 /\ End(b) <= Len(b) /\ Len(b) \in Nat
  BY HeadIs DEF HEADER_LEN
<1>2. /\ End(b) + 1 \in 1 .. Len(b) + 1 /\ Len(b) \in (End(b) + 1) - 1 .. Len(b)
      /\ 4 \in 1 .. Len(b) + 1 /\ End(b) \in 4 - 1 .. Len(b)
  BY <1>1
<1>3. SubSeq(b, End(b) + 1, Len(b)) \in Seq(TokensOf(n))
  BY <1>2, CutIs
<1>4. SubSeq(b, 4, End(b)) \in Seq(TokensOf(n))
  BY <1>2, CutIs
<1>5. HeadFrame(b).payload = SubSeq(b, HEADER_LEN + 1, End(b)) /\ HEADER_LEN + 1 = 4
  <2>1. HeadFrame(b).payload = SubSeq(b, HEADER_LEN + 1, End(b))
    BY DEF HeadFrame
  <2>2. HEADER_LEN + 1 = 4
    BY DEF HEADER_LEN
  <2>3. QED
    BY <2>1, <2>2
<1>6. QED
  BY <1>3, <1>4, <1>5 DEF Rest

-----------------------------------------------------------------------------
(* The records of a frame.                                                 *)

RecordsUpTo(n) == [pkt : 0 .. n, at : Int, channel : Int, lost : Nat]

LEMMA RecordIs ==
  ASSUME NEW n \in Nat, NEW p \in Seq(TokensOf(n))
  PROVE  BuildRecord(p) \in Seq(RecordsUpTo(n))
<1>1. CASE Len(p) < 2
  <2>1. BuildRecord(p) = <<>>
    BY <1>1 DEF BuildRecord
  <2>2. QED
    BY <2>1
<1>2. CASE Len(p) >= 2
  <2>1. p[1] \in TokensOf(n) /\ p[2] \in TokensOf(n)
    BY <1>2
  <2>2. BuildRecordInner(p) \in RecordsUpTo(n)
    <3>1. CASE p[1].t # "meta" \/ p[2].t # "packet"
      BY <3>1 DEF BuildRecordInner, RecordsUpTo
    <3>2. CASE p[1].t = "meta" /\ p[2].t = "packet"
      <4> DEFINE pkt == PktOf(p, p[2].pkt)
                 lost == IF script.radio = "wifi" THEN p[2].lost ELSE 0
      <4>1. /\ p[1].at \in Int /\ p[1].channel \in Int
            /\ p[2].pkt \in 1 .. n /\ p[2].lost \in Nat
        BY <2>1, <3>2, TokensHold
      <4>2. pkt \in 0 .. n
        BY <4>1 DEF PktOf
      <4>3. lost \in Nat
        BY <4>1
      <4>4. BuildRecordInner(p) = [pkt |-> pkt, at |-> p[1].at,
                                   channel |-> p[1].channel, lost |-> lost]
        BY <3>2 DEF BuildRecordInner
      <4> HIDE DEF pkt, lost
      <4>5. QED
        BY <4>1, <4>2, <4>3, <4>4 DEF RecordsUpTo
    <3>3. QED
      BY <3>1, <3>2
  <2> DEFINE r == BuildRecordInner(p)
  <2>3. BuildRecord(p) = <<>> \/ BuildRecord(p) = <<r>>
    BY DEF BuildRecord
  <2> HIDE DEF r
  <2>4. <<r>> \in Seq(RecordsUpTo(n)) /\ <<>> \in Seq(RecordsUpTo(n))
    BY <2>2 DEF r
  <2>5. QED
    BY <2>3, <2>4
<1>3. Len(p) \in Nat
  OBVIOUS
<1>4. QED
  BY <1>1, <1>2, <1>3

LEMMA SingleIs ==
  ASSUME NEW n \in Nat, NEW e, e.f \in Nat, e.at \in Int, e.pkt \in 1 .. n,
         e.lost \in Nat, NEW channel \in Int
  PROVE  Single(e, channel) \in Seq(TokensOf(n))
<1> DEFINE meta == [t |-> "meta", f |-> e.f, at |-> e.at, channel |-> channel]
           packet == [t |-> "packet", f |-> e.f, pkt |-> e.pkt, lost |-> e.lost]
<1>1. {meta, packet} \subseteq TokensOf(n)
  BY TokensAre
<1>2. Single(e, channel) = <<meta, packet>>
  BY DEF Single
<1> HIDE DEF meta, packet
<1>3. QED
  BY <1>1, <1>2

LEMMA ExpandedIs ==
  ASSUME NEW n \in Nat, NEW p \in Seq(TokensOf(n))
  PROVE  ExpandBatch(p) \in Seq(Seq(TokensOf(n)))
<1>1. CASE ~WellFormed(p, "batch", "entry")
  <2>1. ExpandBatch(p) = <<>>
    BY <1>1 DEF ExpandBatch
  <2>2. QED
    BY <2>1
<1>2. CASE WellFormed(p, "batch", "entry")
  <2>1. Len(p) > 0 /\ p[1].t = "batch" /\ Len(p) = 1 + p[1].count
        /\ \A k \in 2 .. Len(p) : p[k].t = "entry"
    BY <1>2 DEF WellFormed
  <2>2. p[1].base \in Int /\ p[1].channel \in Int /\ p[1].count \in Nat
    <3>1. p[1] \in TokensOf(n)
      BY <2>1
    <3>2. QED
      BY <2>1, <3>1, TokensHold
  <2>3. ASSUME NEW k \in 1 .. p[1].count
        PROVE  p[k + 1].dt \in Int /\ p[k + 1].pkt \in 1 .. n /\ p[k + 1].f \in Nat
    <3>1. k + 1 \in 2 .. Len(p)
      BY <2>1, <2>2
    <3>2. p[k + 1] \in TokensOf(n) /\ p[k + 1].t = "entry"
      BY <2>1, <3>1
    <3>3. QED
      BY <3>2, TokensHold
  <2>4. ASSUME NEW k \in 1 .. p[1].count
        PROVE  Single(DecodePacketBatch(p)[k], p[1].channel) \in Seq(TokensOf(n))
    <3> DEFINE e == DecodePacketBatch(p)[k]
    <3>1. e = [at |-> TimeOf(p, k), f |-> p[k + 1].f, pkt |-> p[k + 1].pkt, lost |-> 0]
      BY DEF DecodePacketBatch
    <3>2. TimeOf(p, k) \in Int
      BY <2>2, <2>3, TimeIsInt
    <3>3. e.f \in Nat /\ e.at \in Int /\ e.pkt \in 1 .. n /\ e.lost \in Nat
      BY <2>3, <3>1, <3>2
    <3> HIDE DEF e
    <3>4. QED
      BY <2>2, <3>3, SingleIs DEF e
  <2> DEFINE T == Seq(TokensOf(n))
             One(k) == Single(DecodePacketBatch(p)[k], p[1].channel)
  <2>5. ExpandBatch(p) = [k \in 1 .. p[1].count |-> One(k)]
    BY <1>2 DEF ExpandBatch
  <2>6. \A k \in 1 .. p[1].count : One(k) \in T
    BY <2>4
  <2> HIDE DEF T, One
  <2>7. [k \in 1 .. p[1].count |-> One(k)] \in Seq(T)
    BY <2>2, <2>6
  <2>8. QED
    BY <2>5, <2>7 DEF T
<1>3. QED
  BY <1>1, <1>2

LEMMA BleExpandedIs ==
  ASSUME NEW n \in Nat, NEW p \in Seq(TokensOf(n))
  PROVE  ExpandBleBatch(p) \in Seq(Seq(TokensOf(n)))
<1>1. CASE ~WellFormed(p, "bleBatch", "bleEntry")
  <2>1. ExpandBleBatch(p) = <<>>
    BY <1>1 DEF ExpandBleBatch
  <2>2. QED
    BY <2>1
<1>2. CASE WellFormed(p, "bleBatch", "bleEntry")
  <2>1. Len(p) > 0 /\ p[1].t = "bleBatch" /\ Len(p) = 1 + p[1].count
        /\ \A k \in 2 .. Len(p) : p[k].t = "bleEntry"
    BY <1>2 DEF WellFormed
  <2>0. Len(p) \in Nat
    OBVIOUS
  <2>2. p[1].base \in Int /\ p[1].count \in Nat
    <3>1. p[1] \in TokensOf(n)
      <4>1. 1 \in 1 .. Len(p)
        BY <2>0, <2>1
      <4>2. QED
        BY <4>1
    <3>2. QED
      BY <2>1, <3>1, TokensHold
  <2>3. ASSUME NEW k \in 1 .. p[1].count
        PROVE  /\ p[k + 1].dt \in Int /\ p[k + 1].pkt \in 1 .. n
               /\ p[k + 1].f \in Nat /\ p[k + 1].lost \in Nat
    <3>1. k + 1 \in 2 .. Len(p) /\ k + 1 \in 1 .. Len(p)
      BY <2>0, <2>1, <2>2
    <3>2. p[k + 1].t = "bleEntry"
      BY <2>1, <3>1
    <3>3. p[k + 1] \in TokensOf(n)
      BY <3>1
    <3>4. QED
      BY <3>2, <3>3, TokensHold
  <2>4. ASSUME NEW k \in 1 .. p[1].count
        PROVE  Single(DecodeBleBatch(p)[k], 0) \in Seq(TokensOf(n))
    <3> DEFINE e == DecodeBleBatch(p)[k]
    <3>1. e = [at |-> TimeOf(p, k), f |-> p[k + 1].f, pkt |-> p[k + 1].pkt,
               lost |-> p[k + 1].lost]
      BY DEF DecodeBleBatch
    <3>2. TimeOf(p, k) \in Int
      BY <2>2, <2>3, TimeIsInt
    <3>3. e.f \in Nat /\ e.at \in Int /\ e.pkt \in 1 .. n /\ e.lost \in Nat
      BY <2>3, <3>1, <3>2
    <3> HIDE DEF e
    <3>4. QED
      BY <3>3, SingleIs DEF e
  <2> DEFINE T == Seq(TokensOf(n))
             One(k) == Single(DecodeBleBatch(p)[k], 0)
  <2>5. ExpandBleBatch(p) = [k \in 1 .. p[1].count |-> One(k)]
    BY <1>2 DEF ExpandBleBatch
  <2>6. \A k \in 1 .. p[1].count : One(k) \in T
    BY <2>4
  <2> HIDE DEF T, One
  <2>7. [k \in 1 .. p[1].count |-> One(k)] \in Seq(T)
    BY <2>2, <2>6
  <2>8. QED
    BY <2>5, <2>7 DEF T
<1>3. QED
  BY <1>1, <1>2

LEMMA RecordsAreTyped ==
  ASSUME NEW n \in Nat, NEW frame, frame.payload \in Seq(TokensOf(n))
  PROVE  RecordsOf(frame) \in Seq(RecordsUpTo(n))
<1> DEFINE payloads == CASE frame.kind = "PACKET" -> <<frame.payload>>
                         [] frame.kind = "PACKET_BATCH" -> ExpandBatch(frame.payload)
                         [] frame.kind = "BLE_BATCH" -> ExpandBleBatch(frame.payload)
                         [] OTHER -> <<>>
           built == [i \in 1 .. Len(payloads) |-> BuildRecord(payloads[i])]
<1>1. RecordsOf(frame) = FlattenSeq(built)
  BY DEF RecordsOf
<1>2. payloads \in Seq(Seq(TokensOf(n)))
  <2> DEFINE T == Seq(TokensOf(n))
  <2> HIDE DEF T
  <2>0. frame.payload \in T /\ <<>> \in Seq(T)
    BY DEF T
  <2>1. CASE frame.kind = "PACKET"
    <3>1. payloads = <<frame.payload>>
      BY <2>1
    <3>2. <<frame.payload>> \in Seq(T)
      BY <2>0
    <3>3. QED
      BY <3>1, <3>2 DEF T
  <2>2. CASE frame.kind = "PACKET_BATCH"
    <3>1. payloads = ExpandBatch(frame.payload)
      BY <2>2
    <3>2. QED
      BY <3>1, ExpandedIs
  <2>3. CASE frame.kind = "BLE_BATCH"
    <3>1. payloads = ExpandBleBatch(frame.payload)
      BY <2>3
    <3>2. QED
      BY <3>1, BleExpandedIs
  <2>4. CASE frame.kind \notin {"PACKET", "PACKET_BATCH", "BLE_BATCH"}
    <3>1. payloads = <<>>
      BY <2>4
    <3>2. QED
      BY <2>0, <3>1 DEF T
  <2>5. QED
    BY <2>1, <2>2, <2>3, <2>4
<1> HIDE DEF payloads
<1>3. \A i \in 1 .. Len(payloads) : BuildRecord(payloads[i]) \in Seq(RecordsUpTo(n))
  <2>1. \A i \in 1 .. Len(payloads) : payloads[i] \in Seq(TokensOf(n))
    BY <1>2
  <2>2. QED
    BY <2>1, RecordIs
<1>4. Len(payloads) \in Nat
  BY <1>2
<1>5. built \in Seq(Seq(RecordsUpTo(n)))
  BY <1>3, <1>4
<1>6. QED
  BY <1>1, <1>5, Flat

-----------------------------------------------------------------------------
(* The types of the loop's variables.                                      *)

RecordsSpec == RecordsInit(Scripts) /\ [][RecordsNext]_rvars

Heard == Len(script.heard)
Delivered(n) ==
  [pkt : 0 .. n, at : Int, channel : Int, lost : Nat, stamp : Int, now : Nat]
Clock == [device : Int, host : Int, last : Int]

RecordTypes ==
  /\ script \in Scripts
  /\ wire \in Seq(TokensOf(Heard)) /\ buf \in Seq(TokensOf(Heard))
  /\ pend \in Seq(RecordsUpTo(Heard))
  /\ now \in Nat /\ clock \in Clock
  /\ out \in Seq(Delivered(Heard))

LEMMA HeardIsNat == RecordTypes => Heard \in Nat
  BY ScriptIs DEF RecordTypes, Heard

LEMMA LargerOf ==
  ASSUME NEW x \in Int, NEW y \in Int
  PROVE  Max({x, y}) \in {x, y} /\ Max({x, y}) >= x /\ Max({x, y}) >= y
<1> DEFINE Largest(m) == m \in {x, y} /\ \A z \in {x, y} : m >= z
<1>1. Largest(x) \/ Largest(y)
  OBVIOUS
<1>2. \E m : Largest(m)
  <2> HIDE DEF Largest
  <2>1. QED
    BY <1>1
<1>3. Max({x, y}) = CHOOSE m : Largest(m)
  BY DEF Max
<1>4. Largest(Max({x, y}))
  <2> HIDE DEF Largest
  <2>1. QED
    BY <1>2, <1>3
<1>5. QED
  BY <1>4

\* A stamp is within a minute of the host's clock, and not before the last.
LEMMA AnchorIs ==
  ASSUME NEW c \in Clock, NEW at \in Int, now \in Nat, c.last <= now + MaxSkew
  PROVE  /\ Anchor(c, at) \in Clock
         /\ Anchor(c, at).last - now \in -MaxSkew .. MaxSkew
         /\ Anchor(c, at).last >= c.last
<1> DEFINE d == IF c.device = None THEN at ELSE c.device
           h == IF c.device = None THEN now ELSE c.host
           stamp == h + at - d
           afresh == [device |-> at, host |-> now, last |-> Max({now, c.last})]
           on == [device |-> d, host |-> h, last |-> Max({stamp, c.last})]
<1>1. c.device \in Int /\ c.host \in Int /\ c.last \in Int
  BY DEF Clock
<1>2. d \in Int /\ h \in Int /\ now \in Int
  BY <1>1
<1>3. stamp \in Int
  BY <1>2
<1>4. Anchor(c, at) = IF stamp - now \notin -MaxSkew .. MaxSkew THEN afresh ELSE on
  BY DEF Anchor
<1> HIDE DEF d, h, stamp
<1>5. CASE stamp - now \notin -MaxSkew .. MaxSkew
  <2>1. Anchor(c, at) = afresh
    BY <1>4, <1>5
  <2>2. Max({now, c.last}) \in {now, c.last} /\ Max({now, c.last}) >= c.last
        /\ Max({now, c.last}) >= now
    BY <1>1, <1>2, LargerOf
  <2>3. Max({now, c.last}) \in Int /\ Max({now, c.last}) - now \in -MaxSkew .. MaxSkew
    BY <1>1, <1>2, <2>2 DEF MaxSkew
  <2>4. QED
    BY <1>1, <2>1, <2>2, <2>3 DEF Clock
<1>6. CASE stamp - now \in -MaxSkew .. MaxSkew
  <2>1. Anchor(c, at) = on
    BY <1>4, <1>6
  <2>2. Max({stamp, c.last}) \in {stamp, c.last} /\ Max({stamp, c.last}) >= c.last
        /\ Max({stamp, c.last}) >= stamp
    BY <1>1, <1>3, LargerOf
  <2>3. Max({stamp, c.last}) \in Int
        /\ Max({stamp, c.last}) - now \in -MaxSkew .. MaxSkew
    BY <1>1, <1>2, <1>3, <1>6, <2>2 DEF MaxSkew
  <2>4. QED
    BY <1>1, <1>2, <2>1, <2>2, <2>3 DEF Clock
<1>7. QED
  BY <1>5, <1>6

LEMMA RecordsStart == RecordsInit(Scripts) => RecordTypes
<1> SUFFICES ASSUME RecordsInit(Scripts) PROVE RecordTypes
  OBVIOUS
<1> DEFINE sent == Sent(script)
<1>1. script \in Scripts
  BY DEF RecordsInit
<1>2. sent \in Seq(TokensOf(Heard))
  BY <1>1, SentIs DEF Heard
<1>3. PICK cut \in Lost(sent, script.loses) \cup {<<1, 0>>} :
        wire = SubSeq(sent, 1, cut[1] - 1) \o SubSeq(sent, cut[2] + 1, Len(sent))
  BY DEF RecordsInit
<1> HIDE DEF sent
<1>4. Len(sent) \in Nat
  BY <1>2
<1>5. cut[1] - 1 \in 0 .. Len(sent) /\ cut[2] + 1 \in 1 .. Len(sent) + 1
  <2>1. cut \in (1 .. Len(sent)) \X (1 .. Len(sent)) \/ cut = <<1, 0>>
    BY <1>3 DEF Lost
  <2>2. CASE cut = <<1, 0>>
    BY <1>4, <2>2
  <2>3. CASE cut \in (1 .. Len(sent)) \X (1 .. Len(sent))
    <3>1. cut[1] \in 1 .. Len(sent) /\ cut[2] \in 1 .. Len(sent)
      BY <2>3
    <3>2. QED
      BY <1>4, <3>1
  <2>4. QED
    BY <2>1, <2>2, <2>3
<1>6. /\ 1 \in 1 .. Len(sent) + 1 /\ cut[1] - 1 \in 1 - 1 .. Len(sent)
      /\ Len(sent) \in (cut[2] + 1) - 1 .. Len(sent)
  BY <1>4, <1>5
<1>7. /\ SubSeq(sent, 1, cut[1] - 1) \in Seq(TokensOf(Heard))
      /\ SubSeq(sent, cut[2] + 1, Len(sent)) \in Seq(TokensOf(Heard))
  BY <1>2, <1>5, <1>6, CutIs
<1>8. wire \in Seq(TokensOf(Heard))
  BY <1>3, <1>7
<1>9. /\ buf = <<>> /\ pend = <<>> /\ out = <<>> /\ now = 0
      /\ clock = [device |-> None, host |-> 0, last |-> None]
  BY DEF RecordsInit
<1>10. /\ buf \in Seq(TokensOf(Heard)) /\ pend \in Seq(RecordsUpTo(Heard))
       /\ out \in Seq(Delivered(Heard))
  BY <1>9
<1>11. now \in Nat /\ clock \in Clock
  BY <1>9 DEF Clock, None
<1>12. QED
  BY <1>1, <1>8, <1>10, <1>11 DEF RecordTypes

\* How far each step goes: what it does to the variables that later ones read.
LEMMA ReadTypes ==
  ASSUME RecordTypes, Read
  PROVE  wire' \in Seq(TokensOf(Heard)) /\ buf' \in Seq(TokensOf(Heard))
<1>1. PICK n \in 1 .. Len(wire) :
        buf' = buf \o SubSeq(wire, 1, n) /\ wire' = SubSeq(wire, n + 1, Len(wire))
  BY DEF Read, Pieces
<1>2. Len(wire) \in Nat /\ wire \in Seq(TokensOf(Heard)) /\ buf \in Seq(TokensOf(Heard))
  BY DEF RecordTypes
<1>3. /\ 1 \in 1 .. Len(wire) + 1 /\ n \in 1 - 1 .. Len(wire)
      /\ n + 1 \in 1 .. Len(wire) + 1 /\ Len(wire) \in (n + 1) - 1 .. Len(wire)
  BY <1>2
<1>4. /\ SubSeq(wire, 1, n) \in Seq(TokensOf(Heard))
      /\ SubSeq(wire, n + 1, Len(wire)) \in Seq(TokensOf(Heard))
  BY <1>2, <1>3, CutIs
<1>5. QED
  BY <1>1, <1>2, <1>4

LEMMA TakenTypes ==
  ASSUME RecordTypes, Whole(buf)
  PROVE  /\ Rest(buf) \in Seq(TokensOf(Heard))
         /\ RecordsOf(HeadFrame(buf)) \in Seq(RecordsUpTo(Heard))
<1>1. Heard \in Nat /\ buf \in Seq(TokensOf(Heard))
  BY HeardIsNat DEF RecordTypes
<1>2. Rest(buf) \in Seq(TokensOf(Heard))
      /\ HeadFrame(buf).payload \in Seq(TokensOf(Heard))
  BY <1>1, FrameIs
<1>3. QED
  BY <1>1, <1>2, RecordsAreTyped

LEMMA YieldTypes ==
  ASSUME RecordTypes, clock.last <= now + MaxSkew, Yield
  PROVE  /\ pend[1] \in RecordsUpTo(Heard) /\ pend' \in Seq(RecordsUpTo(Heard))
         /\ clock' = Anchor(clock, pend[1].at) /\ clock' \in Clock
         /\ out' = Append(out, [pkt |-> pend[1].pkt, at |-> pend[1].at,
                                channel |-> pend[1].channel, lost |-> pend[1].lost,
                                stamp |-> clock'.last, now |-> now])
         /\ out' \in Seq(Delivered(Heard))
<1> DEFINE r == [pkt |-> pend[1].pkt, at |-> pend[1].at,
                 channel |-> pend[1].channel, lost |-> pend[1].lost,
                 stamp |-> clock'.last, now |-> now]
<1>1. pend # <<>> /\ pend' = Tail(pend) /\ clock' = Anchor(clock, pend[1].at)
      /\ out' = Append(out, r)
  BY DEF Yield
<1>2. pend[1] \in RecordsUpTo(Heard) /\ pend' \in Seq(RecordsUpTo(Heard))
  BY <1>1, HeadTailProperties DEF RecordTypes
<1>3. /\ pend[1].pkt \in 0 .. Heard /\ pend[1].at \in Int
      /\ pend[1].channel \in Int /\ pend[1].lost \in Nat
  BY <1>2 DEF RecordsUpTo
<1>4. clock' \in Clock
  BY <1>1, <1>3, AnchorIs DEF RecordTypes
<1>5. clock'.last \in Int /\ now \in Nat
  BY <1>4 DEF Clock, RecordTypes
<1>6. r \in Delivered(Heard)
  BY <1>3, <1>5 DEF Delivered
<1> HIDE DEF r
<1>7. out' \in Seq(Delivered(Heard))
  BY <1>1, <1>6 DEF RecordTypes
<1>8. QED
  BY <1>1, <1>2, <1>4, <1>7 DEF r

-----------------------------------------------------------------------------
(* The stamps.  Each was within a minute of the host's clock when it was   *)
(* given, and the last is the latest.                                      *)

InTime ==
  /\ clock.last <= now + MaxSkew
  /\ \A k \in 1 .. Len(out) :
       /\ out[k].stamp - out[k].now \in -MaxSkew .. MaxSkew
       /\ out[k].stamp <= clock.last
  /\ \A k \in 2 .. Len(out) : out[k - 1].stamp <= out[k].stamp

TimeInv == RecordTypes /\ InTime

LEMMA TimeStart == RecordsInit(Scripts) => TimeInv
<1> SUFFICES ASSUME RecordsInit(Scripts) PROVE TimeInv
  OBVIOUS
<1>1. RecordTypes
  BY RecordsStart
<1>2. clock = [device |-> None, host |-> 0, last |-> None] /\ now = 0 /\ Len(out) = 0
  BY DEF RecordsInit
<1>3. clock.last = -1
  BY <1>2 DEF None
<1>4. InTime
  BY <1>2, <1>3 DEF InTime, MaxSkew
<1>5. QED
  BY <1>1, <1>4 DEF TimeInv

\* Types depend on what a step leaves alone.
LEMMA SameTypes ==
  ASSUME RecordTypes, script' = script,
         wire' \in Seq(TokensOf(Heard)), buf' \in Seq(TokensOf(Heard)),
         pend' \in Seq(RecordsUpTo(Heard)), now' \in Nat, clock' \in Clock,
         out' \in Seq(Delivered(Heard))
  PROVE  RecordTypes'
<1>1. Heard' = Heard
  BY DEF Heard
<1>2. script' \in Scripts
  BY DEF RecordTypes
<1>3. QED
  BY <1>1, <1>2 DEF RecordTypes

LEMMA TypesKept == TimeInv /\ [RecordsNext]_rvars => RecordTypes'
<1> SUFFICES ASSUME TimeInv, [RecordsNext]_rvars PROVE RecordTypes'
  OBVIOUS
<1>0. /\ RecordTypes /\ clock.last <= now + MaxSkew /\ Heard \in Nat
      /\ script \in Scripts
      /\ wire \in Seq(TokensOf(Heard)) /\ buf \in Seq(TokensOf(Heard))
      /\ pend \in Seq(RecordsUpTo(Heard)) /\ now \in Nat /\ clock \in Clock
      /\ out \in Seq(Delivered(Heard))
  BY HeardIsNat DEF TimeInv, InTime, RecordTypes
<1>1. CASE UNCHANGED rvars
  <2>1. UNCHANGED <<script, wire, buf, pend, now, clock, out>>
    BY <1>1 DEF rvars
  <2>2. QED
    BY <1>0, <2>1, SameTypes
<1>2. CASE Read
  <2>1. UNCHANGED <<script, pend, now, clock, out>>
    BY <1>2 DEF Read
  <2>2. wire' \in Seq(TokensOf(Heard)) /\ buf' \in Seq(TokensOf(Heard))
    BY <1>0, <1>2, ReadTypes
  <2>3. QED
    BY <1>0, <2>1, <2>2, SameTypes
<1>3. CASE Skip
  <2>1. UNCHANGED <<script, wire, pend, now, clock, out>> /\ buf' = Skipped(buf)
    BY <1>3 DEF Skip
  <2>2. buf' \in Seq(TokensOf(Heard))
    BY <1>0, <2>1, SkippedIs
  <2>3. QED
    BY <1>0, <2>1, <2>2, SameTypes
<1>4. CASE Parse
  <2>1. /\ UNCHANGED <<script, wire, now, clock, out>> /\ Whole(buf)
        /\ buf' = Rest(buf) /\ pend' = RecordsOf(HeadFrame(buf))
    BY <1>4 DEF Parse, Delivers
  <2>2. buf' \in Seq(TokensOf(Heard)) /\ pend' \in Seq(RecordsUpTo(Heard))
    BY <1>0, <2>1, TakenTypes
  <2>3. QED
    BY <1>0, <2>1, <2>2, SameTypes
<1>5. CASE Yield
  <2>1. UNCHANGED <<script, wire, buf, now>>
    BY <1>5 DEF Yield
  <2>2. /\ pend' \in Seq(RecordsUpTo(Heard)) /\ clock' \in Clock
        /\ out' \in Seq(Delivered(Heard))
    BY <1>0, <1>5, YieldTypes
  <2>3. QED
    BY <1>0, <2>1, <2>2, SameTypes
<1>6. CASE ForceResync
  <2>1. UNCHANGED <<script, wire, now, clock, out>>
    BY <1>6 DEF ForceResync
  <2>2. CASE Whole(buf)
    <3>1. buf' = Rest(buf) /\ pend' = RecordsOf(HeadFrame(buf))
      BY <1>6, <2>2 DEF ForceResync
    <3>2. buf' \in Seq(TokensOf(Heard)) /\ pend' \in Seq(RecordsUpTo(Heard))
      BY <1>0, <2>2, <3>1, TakenTypes
    <3>3. QED
      BY <1>0, <2>1, <3>2, SameTypes
  <2>3. CASE ~Whole(buf)
    <3>1. buf' = Resynced(buf) /\ pend' = pend
      BY <1>6, <2>3 DEF ForceResync
    <3>2. buf' \in Seq(TokensOf(Heard))
      BY <1>0, <3>1, ResyncedIs
    <3>3. QED
      BY <1>0, <2>1, <3>1, <3>2, SameTypes
  <2>4. QED
    BY <2>2, <2>3
<1>7. CASE Tick
  <2>1. UNCHANGED <<script, wire, buf, pend, clock, out>>
        /\ \E d \in Ticks : now' = now + d
    BY <1>7 DEF Tick
  <2>2. now' \in Nat
    BY <1>0, <2>1, TicksAssumption
  <2>3. QED
    BY <1>0, <2>1, <2>2, SameTypes
<1>8. QED
  BY <1>1, <1>2, <1>3, <1>4, <1>5, <1>6, <1>7 DEF RecordsNext, Loop

LEMMA InTimeKept == TimeInv /\ [RecordsNext]_rvars => InTime'
<1> SUFFICES ASSUME TimeInv, [RecordsNext]_rvars PROVE InTime'
  OBVIOUS
<1>0. RecordTypes /\ InTime /\ now \in Nat /\ clock \in Clock /\ clock.last \in Int
  BY DEF TimeInv, RecordTypes, Clock
<1>1. CASE Read \/ Skip \/ Parse \/ ForceResync \/ UNCHANGED rvars
  <2>1. UNCHANGED <<now, clock, out>>
    BY <1>1 DEF Read, Skip, Parse, ForceResync, rvars
  <2>2. QED
    BY <1>0, <2>1 DEF InTime
<1>2. CASE Tick
  <2>1. UNCHANGED <<clock, out>> /\ \E d \in Ticks : now' = now + d
    BY <1>2 DEF Tick
  <2>2. clock'.last <= now' + MaxSkew
    BY <1>0, <2>1, TicksAssumption DEF InTime, MaxSkew
  <2>3. QED
    BY <1>0, <2>1, <2>2 DEF InTime
<1>3. CASE Yield
  <2> DEFINE r == [pkt |-> pend[1].pkt, at |-> pend[1].at,
                   channel |-> pend[1].channel, lost |-> pend[1].lost,
                   stamp |-> clock'.last, now |-> now]
             n == Len(out)
  <2>1. clock.last <= now + MaxSkew
    BY <1>0 DEF InTime
  <2>2. /\ pend[1] \in RecordsUpTo(Heard) /\ clock' = Anchor(clock, pend[1].at)
        /\ clock' \in Clock /\ out' = Append(out, r)
    BY <1>0, <1>3, <2>1, YieldTypes
  <2>3. pend[1].at \in Int
    BY <2>2 DEF RecordsUpTo
  <2>4. /\ clock'.last - now \in -MaxSkew .. MaxSkew /\ clock'.last >= clock.last
        /\ clock'.last \in Int
    BY <1>0, <2>1, <2>2, <2>3, AnchorIs DEF Clock
  <2>5. now' = now
    BY <1>3 DEF Yield
  <2>6. r.stamp = clock'.last /\ r.now = now
    OBVIOUS
  <2> HIDE DEF r
  <2>7. n \in Nat /\ Len(out') = n + 1 /\ out'[n + 1] = r
        /\ \A k \in 1 .. n : out'[k] = out[k]
    BY <1>0, <2>2 DEF RecordTypes
  <2> HIDE DEF n
  <2>8. \A k \in 1 .. n : out[k].stamp \in Int
    <3>1. \A k \in 1 .. n : out[k] \in Delivered(Heard)
      BY <1>0 DEF RecordTypes, n
    <3>2. QED
      BY <3>1 DEF Delivered
  <2>9. \A k \in 1 .. n : /\ out[k].stamp - out[k].now \in -MaxSkew .. MaxSkew
                          /\ out[k].stamp <= clock.last
    BY <1>0 DEF InTime, n
  <2>10. ASSUME NEW k \in 1 .. Len(out')
         PROVE  /\ out'[k].stamp - out'[k].now \in -MaxSkew .. MaxSkew
                /\ out'[k].stamp <= clock'.last
    <3>1. CASE k = n + 1
      BY <2>4, <2>6, <2>7, <3>1
    <3>2. CASE k # n + 1
      <4>1. k \in 1 .. n
        BY <2>7, <3>2
      <4>2. out'[k] = out[k] /\ out[k].stamp \in Int /\ out[k].stamp <= clock.last
            /\ out[k].stamp - out[k].now \in -MaxSkew .. MaxSkew
        BY <2>7, <2>8, <2>9, <4>1
      <4>3. QED
        BY <1>0, <2>4, <4>2
    <3>3. QED
      BY <3>1, <3>2
  <2>11. ASSUME NEW k \in 2 .. Len(out') PROVE out'[k - 1].stamp <= out'[k].stamp
    <3>1. k - 1 \in 1 .. n
      BY <2>7
    <3>2. CASE k = n + 1
      <4>1. out'[k - 1] = out[k - 1] /\ out[k - 1].stamp \in Int
            /\ out[k - 1].stamp <= clock.last /\ out'[k].stamp = clock'.last
        BY <2>6, <2>7, <2>8, <2>9, <3>1, <3>2
      <4>2. QED
        BY <1>0, <2>4, <4>1
    <3>3. CASE k # n + 1
      <4>1. k \in 2 .. n /\ k \in 1 .. n
        BY <2>7, <3>3
      <4>2. out[k - 1].stamp <= out[k].stamp
        BY <1>0, <4>1 DEF InTime, n
      <4>3. QED
        BY <2>7, <3>1, <4>1, <4>2
    <3>4. QED
      BY <3>2, <3>3
  <2>12. clock'.last <= now' + MaxSkew
    BY <1>0, <2>4, <2>5 DEF MaxSkew
  <2>13. QED
    BY <2>10, <2>11, <2>12 DEF InTime
<1>4. QED
  BY <1>1, <1>2, <1>3 DEF RecordsNext, Loop

(* The times of a capture never go back, and each is within a minute of    *)
(* the host's clock when its record came, whatever the board's clock and   *)
(* the link do to them: _anchor.                                           *)
THEOREM StampsNeverGoBack == RecordsSpec => []StampsInOrder
<1>1. TimeInv /\ [RecordsNext]_rvars => TimeInv'
  BY TypesKept, InTimeKept DEF TimeInv
<1>2. TimeInv => StampsInOrder
  BY DEF TimeInv, InTime, StampsInOrder
<1>3. QED
  BY <1>1, <1>2, TimeStart, PTL DEF RecordsSpec

-----------------------------------------------------------------------------
(* The handshakes.  What has been seen are the messages whole in the       *)
(* capture, and what has been told are the conversations complete in it.   *)

Conversations == STRING \X STRING
Messages == STRING \X STRING \X (1 .. 4)

\* The numbers of a handshake's messages, by their names.
Name == <<"1", "2", "3", "4">>

\* What it takes an air's message to be the n-th of a handshake.
LEMMA OnAirIs ==
  ASSUME NEW p \in 1 .. Len(script.heard), script \in Scripts
  PROVE  LET air == script.heard[p].air
         IN  /\ air.ap \in STRING /\ air.station \in STRING
             /\ air = [ap |-> air.ap, station |-> air.station, step |-> air.step]
             /\ air.step # "none" =>
                  ParseEapolKey(OnAir(air)) =
                    {<<air.ap, air.station, n>> : n \in {k \in 1 .. 4 : air.step = Name[k]}}
<1> DEFINE air == script.heard[p].air
           names == {"1", "2", "3", "4", "group1", "group2", "none"}
<1>1. air \in [ap : STRING, station : STRING, step : names]
  <2>1. script.heard \in Seq(Packet)
    BY ScriptIs
  <2>2. script.heard[p] \in Packet
    BY <2>1
  <2>3. QED
    BY <2>2 DEF Packet
<1> HIDE DEF air
<1>2. /\ air.ap \in STRING /\ air.station \in STRING /\ air.step \in names
      /\ air = [ap |-> air.ap, station |-> air.station, step |-> air.step]
  BY <1>1
<1>3. ASSUME air.step # "none"
      PROVE  ParseEapolKey(OnAir(air)) =
               {<<air.ap, air.station, n>> : n \in {k \in 1 .. 4 : air.step = Name[k]}}
  <2> DEFINE a == OnAir(air)
             Is(n) == a.pairwise /\ CASE n = 1 -> a.ack /\ ~a.mic
                                     [] n = 2 -> ~a.ack /\ a.mic /\ ~a.secure
                                     [] n = 3 -> a.ack /\ a.mic
                                     [] n = 4 -> ~a.ack /\ a.mic /\ a.secure /\ ~a.data
             messages == {n \in 1 .. 4 : Is(n)}
             kept == {k \in 1 .. 4 : air.step = Name[k]}
             down == air.step \in {"1", "3", "group1"}
  <2>1. /\ a.from_ds = down /\ a.ack = down
        /\ a.address1 = (IF down THEN air.station ELSE air.ap)
        /\ a.address2 = (IF down THEN air.ap ELSE air.station)
        /\ a.pairwise = (air.step \in {"1", "2", "3", "4"})
        /\ a.mic = (air.step # "1")
        /\ a.secure = (air.step \in {"3", "4", "group1", "group2"})
        /\ a.data = (air.step \in {"2", "3", "group1"})
    BY DEF OnAir
  <2>2. ParseEapolKey(a) =
          IF a.from_ds THEN {<<a.address2, a.address1, n>> : n \in messages}
                       ELSE {<<a.address1, a.address2, n>> : n \in messages}
    BY DEF ParseEapolKey
  <2> HIDE DEF a
  <2>3. /\ Is(1) <=> air.step = "1"
        /\ Is(2) <=> air.step = "2"
        /\ Is(3) <=> air.step = "3"
        /\ Is(4) <=> air.step = "4"
    <3>1. /\ Is(1) <=> a.pairwise /\ a.ack /\ ~a.mic
          /\ Is(2) <=> a.pairwise /\ ~a.ack /\ a.mic /\ ~a.secure
          /\ Is(3) <=> a.pairwise /\ a.ack /\ a.mic
          /\ Is(4) <=> a.pairwise /\ ~a.ack /\ a.mic /\ a.secure /\ ~a.data
      OBVIOUS
    <3> HIDE DEF Is
    <3>2. QED
      BY <1>2, <2>1, <3>1
  <2>4. Name[1] = "1" /\ Name[2] = "2" /\ Name[3] = "3" /\ Name[4] = "4"
    BY DEF Name
  <2> HIDE DEF Is
  <2>5. \A n \in 1 .. 4 : Is(n) <=> air.step = Name[n]
    BY <2>3, <2>4
  <2>6. messages = kept
    BY <2>5
  <2> HIDE DEF messages, kept
  <2>7. ParseEapolKey(a) = {<<air.ap, air.station, n>> : n \in messages}
    <3>1. CASE down
      BY <2>1, <2>2, <3>1
    <3>2. CASE ~down
      BY <2>1, <2>2, <3>2
    <3>3. QED
      BY <3>1, <3>2
  <2>8. QED
    BY <2>6, <2>7 DEF a, kept
<1>4. QED
  BY <1>2, <1>3 DEF air

\* A record of a packet that is the n-th message, whole.
Bears(r, m) ==
  /\ r.pkt # 0 /\ r.lost = 0
  /\ script.heard[r.pkt].air =
       [ap |-> m[1], station |-> m[2], step |-> Name[m[3]]]

LEMMA MessageIs ==
  ASSUME script \in Scripts, NEW r, r.pkt \in 0 .. Heard
  PROVE  /\ MessageIn(r) = {m \in Messages : Bears(r, m)}
         /\ IsFiniteSet(MessageIn(r))
<1>0. Heard \in Nat
  BY ScriptIs DEF Heard
<1>1. CASE r.pkt = 0 \/ r.lost # 0
  <2>1. MessageIn(r) = {}
    BY <1>1 DEF MessageIn
  <2>2. \A m \in Messages : ~Bears(r, m)
    BY <1>1 DEF Bears
  <2>3. QED
    BY <2>1, <2>2, FS_EmptySet
<1>2. CASE r.pkt # 0 /\ r.lost = 0
  <2> DEFINE air == script.heard[r.pkt].air
             found == {<<air.ap, air.station, n>> :
                         n \in {k \in 1 .. 4 : air.step = Name[k]}}
  <2>1. r.pkt \in 1 .. Len(script.heard)
    BY <1>0, <1>2 DEF Heard
  <2>2. /\ air.ap \in STRING /\ air.station \in STRING
        /\ air = [ap |-> air.ap, station |-> air.station, step |-> air.step]
        /\ air.step # "none" => ParseEapolKey(OnAir(air)) = found
    BY <2>1, OnAirIs
  <2>3. \A n \in 1 .. 4 : Name[n] \in {"1", "2", "3", "4"} /\ Name[n] # "none"
    BY DEF Name
  <2>4. air.step = "none" => found = {}
    BY <2>3
  <2>5. MessageIn(r) = found
    BY <1>2, <2>2, <2>4 DEF MessageIn
  <2>6. \A m \in Messages : Bears(r, m) <=>
          air = [ap |-> m[1], station |-> m[2], step |-> Name[m[3]]]
    BY <1>2 DEF Bears
  <2> HIDE DEF air
  <2>7. ASSUME NEW m \in found PROVE m \in Messages /\ Bears(r, m)
    <3>1. PICK n \in 1 .. 4 : air.step = Name[n] /\ m = <<air.ap, air.station, n>>
      OBVIOUS
    <3>2. m \in Messages /\ m[1] = air.ap /\ m[2] = air.station /\ m[3] = n
      BY <2>2, <3>1 DEF Messages
    <3>3. air = [ap |-> m[1], station |-> m[2], step |-> Name[m[3]]]
      BY <2>2, <3>1, <3>2
    <3>4. QED
      BY <2>6, <3>2, <3>3
  <2>8. ASSUME NEW m \in Messages, Bears(r, m) PROVE m \in found
    <3>1. air = [ap |-> m[1], station |-> m[2], step |-> Name[m[3]]]
      BY <2>6, <2>8
    <3>2. air.ap = m[1] /\ air.station = m[2] /\ air.step = Name[m[3]]
      BY <3>1
    <3>3. m[3] \in 1 .. 4 /\ m = <<m[1], m[2], m[3]>>
      BY DEF Messages
    <3>4. QED
      BY <3>2, <3>3
  <2>9. IsFiniteSet(found)
    <3>1. IsFiniteSet({k \in 1 .. 4 : air.step = Name[k]})
      <4>1. IsFiniteSet(1 .. 4)
        <5>1. 1 \in Int /\ 4 \in Int
          OBVIOUS
        <5>2. QED
          BY <5>1, FS_Interval, Zenon
      <4>2. {k \in 1 .. 4 : air.step = Name[k]} \in SUBSET (1 .. 4)
        OBVIOUS
      <4>3. QED
        BY <4>1, <4>2, FS_Subset
    <3> DEFINE S == {k \in 1 .. 4 : air.step = Name[k]}
               f == [k \in S |-> <<air.ap, air.station, k>>]
    <3>2. f \in Surjection(S, found)
      BY DEF Surjection
    <3>3. QED
      BY <3>1, <3>2, FS_Surjection
  <2>10. QED
    BY <2>5, <2>7, <2>8, <2>9
<1>3. QED
  BY <1>1, <1>2

-----------------------------------------------------------------------------
(* Handshakes told: each conversation once.                                *)

LEMMA SetToSeqIs ==
  ASSUME NEW S, IsFiniteSet(S)
  PROVE  /\ SetToSeq(S) \in Seq(S) /\ Range(SetToSeq(S)) = S
         /\ Len(SetToSeq(S)) = Cardinality(S)
<1> DEFINE n == Cardinality(S)
           s == SetToSeq(S)
<1>1. n \in Nat /\ ExistsBijection(1 .. n, S)
  BY FS_CardinalityType
<1>2. PICK g \in Bijection(1 .. n, S) : TRUE
  BY <1>1 DEF ExistsBijection
<1>3. g \in [1 .. n -> S] /\ IsInjective(g)
  BY <1>2 DEF Bijection, Injection, IsInjective
<1>4. s \in [1 .. n -> S] /\ IsInjective(s)
  BY <1>3 DEF SetToSeq
<1> HIDE DEF s
<1>5. s \in Injection(1 .. n, S)
  BY <1>4 DEF Injection, IsInjective
<1>6. Cardinality(1 .. n) = n
  <2>1. n >= 0 /\ 0 \in Int /\ 1 \in Int /\ n \in Int
    BY <1>1
  <2> HIDE DEF n
  <2>2. Cardinality(1 .. n) = IF 1 > n THEN 0 ELSE n - 1 + 1
    BY <2>1, FS_Interval
  <2>3. QED
    BY <2>1, <2>2
<1>7. s \in Surjection(1 .. n, S)
  BY <1>5, <1>6, FS_Injection
<1> HIDE DEF n
<1>8. s \in Seq(S) /\ Len(s) = n
  BY <1>1, <1>4
<1>9. Range(s) = S
  BY <1>4, <1>7 DEF Range, Surjection
<1>10. QED
  BY <1>8, <1>9 DEF s, n

\* A conversation is complete when its four messages have been seen.
LEMMA CompleteIs ==
  ASSUME NEW seen, seen \subseteq Messages
  PROVE  Complete(seen) =
           {c \in Conversations : \A n \in 1 .. 4 : <<c[1], c[2], n>> \in seen}
<1> DEFINE All(c) == \A n \in 1 .. 4 : <<c[1], c[2], n>> \in seen
<1>1. ASSUME NEW c \in Complete(seen) PROVE c \in Conversations /\ All(c)
  <2>1. PICK m \in seen : /\ \A n \in 1 .. 4 : <<m[1], m[2], n>> \in seen
                          /\ c = <<m[1], m[2]>>
    BY DEF Complete
  <2>2. c \in Conversations /\ c[1] = m[1] /\ c[2] = m[2]
    BY <2>1 DEF Messages, Conversations
  <2>3. QED
    BY <2>1, <2>2
<1>2. ASSUME NEW c \in Conversations, All(c) PROVE c \in Complete(seen)
  <2> DEFINE m == <<c[1], c[2], 1>>
  <2>1. m \in seen
    BY <1>2
  <2>2. m[1] = c[1] /\ m[2] = c[2] /\ c = <<c[1], c[2]>>
    BY DEF Conversations
  <2> HIDE DEF m
  <2>3. \A n \in 1 .. 4 : <<m[1], m[2], n>> \in seen
    BY <1>2, <2>2
  <2>4. QED
    BY <2>1, <2>2, <2>3 DEF Complete
<1>3. QED
  BY <1>1, <1>2

LEMMA CompleteIsFinite ==
  ASSUME NEW seen, seen \subseteq Messages, IsFiniteSet(seen)
  PROVE  Complete(seen) \subseteq Conversations /\ IsFiniteSet(Complete(seen))
<1> DEFINE f == [m \in seen |-> <<m[1], m[2]>>]
           pairs == {f[m] : m \in seen}
<1>1. IsFiniteSet(pairs)
  <2>1. f \in Surjection(seen, pairs)
    BY DEF Surjection
  <2>2. QED
    BY <2>1, FS_Surjection
<1>2. Complete(seen) \in SUBSET pairs
  BY DEF Complete
<1>3. QED
  BY <1>1, <1>2, CompleteIs, FS_Subset

\* The messages seen are those of the records delivered, and each complete
\* conversation has been told once.
Borne(m) == \E k \in 1 .. Len(out) : Bears(out[k], m)
HandshakeInv ==
  /\ IsFiniteSet(eapol)
  /\ eapol = {m \in Messages : Borne(m)}
  /\ told \in Seq(Conversations)
  /\ Range(told) = Complete(eapol)
  /\ Len(told) = Cardinality(Range(told))

LEMMA HandshakeStart == RecordsInit(Scripts) => HandshakeInv
<1> SUFFICES ASSUME RecordsInit(Scripts) PROVE HandshakeInv
  OBVIOUS
<1>1. out = <<>> /\ eapol = {} /\ told = <<>>
  BY DEF RecordsInit
<1>2. \A m \in Messages : ~Borne(m)
  BY <1>1 DEF Borne
<1>3. Range(told) = {}
  BY <1>1 DEF Range
<1>4. Complete({}) = {}
  BY DEF Complete
<1>5. IsFiniteSet({}) /\ Cardinality({}) = 0
  BY FS_EmptySet
<1>6. eapol = {m \in Messages : Borne(m)}
  BY <1>1, <1>2
<1>7. told \in Seq(Conversations) /\ Len(told) = 0
  BY <1>1
<1>8. QED
  BY <1>1, <1>3, <1>4, <1>5, <1>6, <1>7 DEF HandshakeInv

\* Taking a record's message, and telling what it completes.
LEMMA FeedKept ==
  ASSUME HandshakeInv, script \in Scripts, NEW r, r.pkt \in 0 .. Heard, Feed(r)
  PROVE  /\ eapol' = eapol \cup {m \in Messages : Bears(r, m)}
         /\ IsFiniteSet(eapol')
         /\ told' \in Seq(Conversations) /\ Range(told') = Complete(eapol')
         /\ Len(told') = Cardinality(Range(told'))
<1> DEFINE new == Complete(eapol') \ Range(told)
           more == SetToSeq(new)
<1>1. eapol' = eapol \cup MessageIn(r) /\ told' = told \o more
  BY DEF Feed
<1>2. MessageIn(r) = {m \in Messages : Bears(r, m)} /\ IsFiniteSet(MessageIn(r))
  BY MessageIs
<1>3. IsFiniteSet(eapol') /\ eapol' \subseteq Messages /\ eapol \subseteq Messages
  <2>1. IsFiniteSet(eapol) /\ eapol \subseteq Messages
    BY DEF HandshakeInv
  <2>2. IsFiniteSet(eapol \cup MessageIn(r))
    BY <1>2, <2>1, FS_Union
  <2>3. QED
    BY <1>1, <1>2, <2>1, <2>2
<1>4. Complete(eapol') \subseteq Conversations /\ IsFiniteSet(Complete(eapol'))
  BY <1>3, CompleteIsFinite
<1>5. Complete(eapol) \subseteq Complete(eapol')
  BY <1>1, <1>3, CompleteIs
<1>6. Range(told) = Complete(eapol) /\ told \in Seq(Conversations)
      /\ Len(told) = Cardinality(Range(told))
  BY DEF HandshakeInv
<1>7. IsFiniteSet(Range(told)) /\ IsFiniteSet(new)
  <2>1. Range(told) \in SUBSET Complete(eapol') /\ new \in SUBSET Complete(eapol')
    BY <1>5, <1>6
  <2> HIDE DEF new
  <2>2. QED
    BY <1>4, <2>1, FS_Subset
<1>8. new \subseteq Conversations /\ Range(told) \cup new = Complete(eapol')
      /\ Range(told) \cap new = {}
  BY <1>4, <1>5, <1>6
<1> HIDE DEF new
<1>9. more \in Seq(new) /\ Range(more) = new /\ Len(more) = Cardinality(new)
  BY <1>7, SetToSeqIs
<1> HIDE DEF more
<1>10. more \in Seq(Conversations)
  BY <1>8, <1>9
<1>11. told' \in Seq(Conversations) /\ Len(told') = Len(told) + Len(more)
  BY <1>1, <1>6, <1>10, ConcatProperties
<1>12. Range(told') = Range(told) \cup new
  BY <1>1, <1>6, <1>9, <1>10, RangeConcatenation
<1>13. Cardinality(Range(told')) = Cardinality(Range(told)) + Cardinality(new)
  <2>1. Cardinality(Range(told) \cup new) =
          Cardinality(Range(told)) + Cardinality(new) - Cardinality(Range(told) \cap new)
    BY <1>7, FS_Union
  <2>2. Cardinality(Range(told) \cap new) = 0
    BY <1>8, FS_EmptySet
  <2>3. Cardinality(Range(told)) \in Nat /\ Cardinality(new) \in Nat
    BY <1>7, FS_CardinalityType
  <2>4. QED
    BY <1>12, <2>1, <2>2, <2>3
<1>14. QED
  BY <1>1, <1>2, <1>3, <1>6, <1>8, <1>9, <1>11, <1>12, <1>13

LEMMA HandshakesKept ==
  TimeInv /\ HandshakeInv /\ [RecordsNext]_rvars => HandshakeInv'
<1> SUFFICES ASSUME TimeInv, HandshakeInv, [RecordsNext]_rvars PROVE HandshakeInv'
  OBVIOUS
<1>0. RecordTypes /\ clock.last <= now + MaxSkew /\ script \in Scripts
      /\ Heard \in Nat /\ out \in Seq(Delivered(Heard))
  BY HeardIsNat DEF TimeInv, InTime, RecordTypes
<1>1. CASE Read \/ Skip \/ Parse \/ ForceResync \/ Tick \/ UNCHANGED rvars
  <2>1. UNCHANGED <<script, out, eapol, told>>
    BY <1>1 DEF Read, Skip, Parse, ForceResync, Tick, rvars
  <2>2. \A m : Borne(m)' <=> Borne(m)
    BY <2>1 DEF Borne, Bears
  <2>3. QED
    BY <2>1, <2>2 DEF HandshakeInv
<1>2. CASE Yield
  <2> DEFINE r == pend[1]
             o == [pkt |-> pend[1].pkt, at |-> pend[1].at,
                   channel |-> pend[1].channel, lost |-> pend[1].lost,
                   stamp |-> clock'.last, now |-> now]
             n == Len(out)
  <2>1. r \in RecordsUpTo(Heard) /\ out' = Append(out, o)
    BY <1>0, <1>2, YieldTypes
  <2>2. script' = script /\ Feed(r)
    BY <1>2 DEF Yield
  <2>3. r.pkt \in 0 .. Heard /\ o.pkt = r.pkt /\ o.lost = r.lost
    BY <2>1 DEF RecordsUpTo
  <2> HIDE DEF o, r
  <2>4. /\ eapol' = eapol \cup {m \in Messages : Bears(r, m)}
        /\ IsFiniteSet(eapol')
        /\ told' \in Seq(Conversations) /\ Range(told') = Complete(eapol')
        /\ Len(told') = Cardinality(Range(told'))
    BY <1>0, <2>2, <2>3, FeedKept
  <2>5. n \in Nat /\ Len(out') = n + 1 /\ out'[n + 1] = o
        /\ \A k \in 1 .. n : out'[k] = out[k]
    BY <1>0, <2>1
  <2>6. ASSUME NEW m PROVE Borne(m)' <=> Borne(m) \/ Bears(r, m)
    <3>1. Borne(m)' <=> \E k \in 1 .. Len(out') :
                          /\ out'[k].pkt # 0 /\ out'[k].lost = 0
                          /\ script.heard[out'[k].pkt].air =
                               [ap |-> m[1], station |-> m[2], step |-> Name[m[3]]]
      BY <2>2 DEF Borne, Bears
    <3>2. Borne(m)' <=> \E k \in 1 .. n + 1 : Bears(out'[k], m)
      BY <2>5, <3>1 DEF Bears
    <3>3. Bears(o, m) <=> Bears(r, m)
      BY <2>3 DEF Bears
    <3>4. (\E k \in 1 .. n + 1 : Bears(out'[k], m)) <=>
            (\E k \in 1 .. n : Bears(out'[k], m)) \/ Bears(out'[n + 1], m)
      BY <2>5
    <3>5. (\E k \in 1 .. n : Bears(out'[k], m)) <=> Borne(m)
      BY <2>5 DEF Borne
    <3>6. QED
      BY <2>5, <3>2, <3>3, <3>4, <3>5
  <2>7. eapol' = {m \in Messages : Borne(m)'}
    <3>1. eapol = {m \in Messages : Borne(m)}
      BY DEF HandshakeInv
    <3>2. QED
      BY <2>4, <2>6, <3>1
  <2>8. QED
    BY <2>4, <2>7 DEF HandshakeInv
<1>3. QED
  BY <1>1, <1>2 DEF RecordsNext, Loop

\* What the user has been told, against the capture.
LEMMA ToldIsWhole == TimeInv /\ HandshakeInv => HandshakesTold
<1> SUFFICES ASSUME TimeInv, HandshakeInv PROVE HandshakesTold
  OBVIOUS
<1> DEFINE J == {j \in 1 .. Len(out) : out[j].pkt # 0 /\ out[j].lost = 0}
           have == {script.heard[out[k].pkt].air : k \in J}
           As(a, s) == [ap |-> a.ap, station |-> a.station, step |-> s]
           whole == {a \in have : a.step # "none" /\
                       \A s \in {"1", "2", "3", "4"} : As(a, s) \in have}
           pairs == {<<m.ap, m.station>> : m \in whole}
<1>1. script \in Scripts /\ out \in Seq(Delivered(Heard)) /\ Heard \in Nat
      /\ Heard = Len(script.heard)
  BY HeardIsNat DEF TimeInv, RecordTypes, Heard
<1>2. ASSUME NEW a \in have
      PROVE  /\ a.ap \in STRING /\ a.station \in STRING
             /\ a = [ap |-> a.ap, station |-> a.station, step |-> a.step]
  <2>1. PICK k \in J : a = script.heard[out[k].pkt].air
    OBVIOUS
  <2>2. out[k] \in Delivered(Heard) /\ out[k].pkt # 0
    BY <1>1, <2>1
  <2>3. out[k].pkt \in 0 .. Heard
    BY <2>2 DEF Delivered
  <2>4. out[k].pkt \in 1 .. Len(script.heard)
    BY <1>1, <2>2, <2>3
  <2>5. QED
    BY <1>1, <2>1, <2>4, OnAirIs
<1>3. ASSUME NEW m \in Messages
      PROVE  m \in eapol <=> [ap |-> m[1], station |-> m[2], step |-> Name[m[3]]] \in have
  BY DEF HandshakeInv, Borne, Bears
<1>4. \A c \in Conversations : c \in Range(told) <=>
        \A n \in 1 .. 4 : [ap |-> c[1], station |-> c[2], step |-> Name[n]] \in have
  <2>1. Range(told) = {c \in Conversations : \A n \in 1 .. 4 : <<c[1], c[2], n>> \in eapol}
    BY CompleteIs DEF HandshakeInv
  <2>2. ASSUME NEW c \in Conversations, NEW n \in 1 .. 4
        PROVE  <<c[1], c[2], n>> \in eapol <=>
                 [ap |-> c[1], station |-> c[2], step |-> Name[n]] \in have
    <3> DEFINE m == <<c[1], c[2], n>>
    <3>1. m \in Messages /\ m[1] = c[1] /\ m[2] = c[2] /\ m[3] = n
      BY DEF Messages, Conversations
    <3> HIDE DEF m, have
    <3>2. m \in eapol <=> [ap |-> c[1], station |-> c[2], step |-> Name[n]] \in have
      BY <1>3, <3>1
    <3>3. QED
      BY <3>2 DEF m
  <2> HIDE DEF have
  <2>3. QED
    BY <2>1, <2>2
<1>5. Name[1] = "1" /\ Name[2] = "2" /\ Name[3] = "3" /\ Name[4] = "4"
  BY DEF Name
<1>6. Range(told) \subseteq Conversations
  BY RangeOfSeq DEF HandshakeInv
<1>7. ASSUME NEW c \in Range(told) PROVE c \in pairs
  <2> DEFINE a == [ap |-> c[1], station |-> c[2], step |-> "1"]
  <2> HIDE DEF have
  <2>1. c \in Conversations /\ c = <<c[1], c[2]>>
    BY <1>6 DEF Conversations
  <2>2. \A s \in {"1", "2", "3", "4"} :
          [ap |-> c[1], station |-> c[2], step |-> s] \in have
    <3>1. \A n \in 1 .. 4 : [ap |-> c[1], station |-> c[2], step |-> Name[n]] \in have
      BY <1>4, <2>1
    <3>2. ASSUME NEW s \in {"1", "2", "3", "4"}
          PROVE  \E n \in 1 .. 4 : Name[n] = s
      BY <1>5
    <3>3. QED
      BY <3>1, <3>2
  <2>3. a \in have
    BY <2>2
  <2>4. a.ap = c[1] /\ a.station = c[2] /\ a.step = "1"
    OBVIOUS
  <2> HIDE DEF a
  <2>5. a \in whole
    BY <2>2, <2>3, <2>4
  <2> HIDE DEF whole
  <2>6. QED
    BY <2>1, <2>4, <2>5
<1>8. ASSUME NEW c \in pairs PROVE c \in Range(told)
  <2>1. PICK a \in whole : c = <<a.ap, a.station>>
    OBVIOUS
  <2>2. a \in have /\ \A s \in {"1", "2", "3", "4"} : As(a, s) \in have
    BY <2>1
  <2>3. a.ap \in STRING /\ a.station \in STRING
    BY <1>2, <2>2
  <2>4. c \in Conversations /\ c[1] = a.ap /\ c[2] = a.station
    BY <2>1, <2>3 DEF Conversations
  <2> HIDE DEF have
  <2>5. \A n \in 1 .. 4 : [ap |-> c[1], station |-> c[2], step |-> Name[n]] \in have
    BY <1>5, <2>2, <2>4
  <2>6. QED
    BY <1>4, <2>4, <2>5
<1>9. Range(told) = pairs
  BY <1>7, <1>8
<1>10. QED
  BY <1>9 DEF HandshakesTold, HandshakeInv

(* The user is told of a handshake once, and of exactly those whose four   *)
(* messages are whole in the capture: HandshakeTracker, fed every record   *)
(* that is delivered.                                                      *)
THEOREM HandshakesAreToldOnce == RecordsSpec => []HandshakesTold
<1> DEFINE Inv == TimeInv /\ HandshakeInv
<1>1. RecordsInit(Scripts) => Inv
  BY TimeStart, HandshakeStart
<1>2. Inv /\ [RecordsNext]_rvars => Inv'
  BY TypesKept, InTimeKept, HandshakesKept DEF TimeInv
<1>3. Inv => HandshakesTold
  BY ToldIsWhole
<1> HIDE DEF Inv
<1>4. QED
  BY <1>1, <1>2, <1>3, PTL DEF RecordsSpec

-----------------------------------------------------------------------------
(* Where each frame's bytes are among all that is sent.                    *)

\* A frame's bytes: how many, whose, and what its header says.
LEMMA HeaderIs ==
  ASSUME NEW s \in Scripts, NEW f \in 1 .. Len(s.frames)
  PROVE  LET b == Framed(s, f)
             payload == Payload(f, s.frames[f], s.heard)
         IN  /\ b \in Seq(TokensOf(Len(s.heard)))
             /\ Len(payload) \in Nat /\ Len(b) = 3 + Len(payload)
             /\ b[1] = [t |-> "magic0", f |-> f] /\ b[2] = [t |-> "magic1", f |-> f]
             /\ b[3].t = "rest" /\ b[3].f = f /\ b[3].len = Len(payload)
             /\ b[3].seq = (FirstSeq + f - 1) % Modulus
             /\ b[3].kind = IF s.frames[f].kind \in {"LONG", "CHANCE"} THEN "PACKET"
                            ELSE s.frames[f].kind
             /\ \A i \in 1 .. Len(payload) : b[3 + i] = payload[i]
<1> DEFINE n == Len(s.heard)
           payload == Payload(f, s.frames[f], s.heard)
           kind == IF s.frames[f].kind \in {"LONG", "CHANCE"} THEN "PACKET"
                   ELSE s.frames[f].kind
           first == [t |-> "magic0", f |-> f]
           second == [t |-> "magic1", f |-> f]
           number == (FirstSeq + f - 1) % Modulus
           third == [t |-> "rest", f |-> f, kind |-> kind, seq |-> number,
                     len |-> Len(payload)]
<1>1. payload \in Seq(TokensOf(n)) /\ Framed(s, f) \in Seq(TokensOf(n))
  BY PayloadIs, FramedIs
<1>2. Framed(s, f) = <<first, second, third>> \o payload
  BY DEF Framed, Encode
<1>3. /\ third.t = "rest" /\ third.f = f /\ third.len = Len(payload)
      /\ third.seq = number /\ third.kind = kind
  OBVIOUS
<1> HIDE DEF first, second, third, kind, payload, number
<1>4. Len(payload) \in Nat /\ Len(<<first, second, third>> \o payload) = 3 + Len(payload)
  BY <1>1
<1>5. /\ (<<first, second, third>> \o payload)[1] = first
      /\ (<<first, second, third>> \o payload)[2] = second
      /\ (<<first, second, third>> \o payload)[3] = third
      /\ \A i \in 1 .. Len(payload) :
           (<<first, second, third>> \o payload)[3 + i] = payload[i]
  BY <1>1
<1>6. QED
  BY <1>1, <1>2, <1>3, <1>4, <1>5 DEF first, second, kind, payload, number

\* Then comes its payload.
LEMMA PayloadFollows ==
  ASSUME NEW s \in Scripts, NEW f \in 1 .. Len(s.frames),
         NEW i \in 1 .. Len(Payload(f, s.frames[f], s.heard))
  PROVE  Framed(s, f)[3 + i] = Payload(f, s.frames[f], s.heard)[i]
<1> DEFINE payload == Payload(f, s.frames[f], s.heard)
           first == [t |-> "magic0", f |-> f]
           second == [t |-> "magic1", f |-> f]
           third == [t |-> "rest", f |-> f,
                     kind |-> IF s.frames[f].kind \in {"LONG", "CHANCE"} THEN "PACKET"
                              ELSE s.frames[f].kind,
                     seq |-> (FirstSeq + f - 1) % Modulus, len |-> Len(payload)]
<1>1. payload \in Seq(TokensOf(Len(s.heard))) /\ i \in 1 .. Len(payload)
  BY PayloadIs
<1>2. Framed(s, f) = <<first, second, third>> \o payload
  BY DEF Framed, Encode
<1> HIDE DEF payload, first, second, third
<1>3. (<<first, second, third>> \o payload)[3 + i] = payload[i]
  BY <1>1
<1>4. QED
  BY <1>2, <1>3 DEF payload

\* A packet's metadata, and the packet.
LEMMA PacketIs ==
  ASSUME NEW s \in Scripts, NEW f, NEW p
  PROVE  LET b == PacketPayload(f, p, s.heard)
         IN  /\ Len(b) = 2
             /\ b[1].t = "meta" /\ b[1].f = f /\ b[1].at = s.heard[p].at
             /\ b[1].channel = s.heard[p].channel
             /\ b[2].t = "packet" /\ b[2].f = f /\ b[2].pkt = p
             /\ b[2].lost = s.heard[p].lost
  BY DEF PacketPayload

\* What a batch's bytes say.
LEMMA BatchSays ==
  ASSUME NEW s \in Scripts, NEW f \in Nat, NEW ps \in Seq(1 .. Len(s.heard))
  PROVE  LET b == EncodePacketBatch(f, ps, s.heard)
         IN  /\ Len(b) = 1 + Len(ps)
             /\ b[1].t = "batch" /\ b[1].f = f /\ b[1].base = s.heard[ps[1]].at
             /\ b[1].channel = s.heard[ps[1]].channel /\ b[1].count = Len(ps)
             /\ \A i \in 1 .. Len(ps) :
                  /\ b[i + 1].t = "entry" /\ b[i + 1].f = f /\ b[i + 1].pkt = ps[i]
                  /\ b[i + 1].dt = Dt(ps, i, s.heard)
<1> DEFINE head == [t |-> "batch", f |-> f, base |-> s.heard[ps[1]].at,
                    channel |-> s.heard[ps[1]].channel, count |-> Len(ps)]
           Entry(i) == [t |-> "entry", f |-> f, dt |-> Dt(ps, i, s.heard), pkt |-> ps[i]]
           rest == [i \in 1 .. Len(ps) |-> Entry(i)]
<1>1. EncodePacketBatch(f, ps, s.heard) = <<head>> \o rest
  BY DEF EncodePacketBatch
<1>2. /\ head.t = "batch" /\ head.f = f /\ head.base = s.heard[ps[1]].at
      /\ head.channel = s.heard[ps[1]].channel /\ head.count = Len(ps)
  OBVIOUS
<1>3. \A i : /\ Entry(i).t = "entry" /\ Entry(i).f = f /\ Entry(i).pkt = ps[i]
             /\ Entry(i).dt = Dt(ps, i, s.heard)
  OBVIOUS
<1> HIDE DEF head, Entry
<1>4. Len(ps) \in Nat /\ rest \in Seq({Entry(i) : i \in 1 .. Len(ps)}) /\ Len(rest) = Len(ps)
  OBVIOUS
<1>5. /\ Len(<<head>> \o rest) = 1 + Len(ps) /\ (<<head>> \o rest)[1] = head
      /\ \A i \in 1 .. Len(ps) : (<<head>> \o rest)[i + 1] = Entry(i)
  BY <1>4
<1>6. QED
  BY <1>1, <1>2, <1>3, <1>5

\* What a Bluetooth batch's bytes say.
LEMMA BleBatchSays ==
  ASSUME NEW s \in Scripts, NEW f \in Nat, NEW ps \in Seq(1 .. Len(s.heard))
  PROVE  LET b == EncodeBleBatch(f, ps, s.heard)
         IN  /\ Len(b) = 1 + Len(ps)
             /\ b[1].t = "bleBatch" /\ b[1].f = f /\ b[1].base = s.heard[ps[1]].at
             /\ b[1].count = Len(ps)
             /\ \A i \in 1 .. Len(ps) :
                  /\ b[i + 1].t = "bleEntry" /\ b[i + 1].f = f /\ b[i + 1].pkt = ps[i]
                  /\ b[i + 1].dt = Dt(ps, i, s.heard)
                  /\ b[i + 1].lost = s.heard[ps[i]].lost
<1> DEFINE head == [t |-> "bleBatch", f |-> f, base |-> s.heard[ps[1]].at,
                    count |-> Len(ps)]
           Entry(i) == [t |-> "bleEntry", f |-> f, dt |-> Dt(ps, i, s.heard),
                        pkt |-> ps[i], lost |-> s.heard[ps[i]].lost]
           rest == [i \in 1 .. Len(ps) |-> Entry(i)]
<1>1. EncodeBleBatch(f, ps, s.heard) = <<head>> \o rest
  BY DEF EncodeBleBatch
<1>2. /\ head.t = "bleBatch" /\ head.f = f /\ head.base = s.heard[ps[1]].at
      /\ head.count = Len(ps)
  OBVIOUS
<1>3. \A i : /\ Entry(i).t = "bleEntry" /\ Entry(i).f = f /\ Entry(i).pkt = ps[i]
             /\ Entry(i).dt = Dt(ps, i, s.heard) /\ Entry(i).lost = s.heard[ps[i]].lost
  OBVIOUS
<1> HIDE DEF head, Entry
<1>4. Len(ps) \in Nat /\ rest \in Seq({Entry(i) : i \in 1 .. Len(ps)}) /\ Len(rest) = Len(ps)
  OBVIOUS
<1>5. /\ Len(<<head>> \o rest) = 1 + Len(ps) /\ (<<head>> \o rest)[1] = head
      /\ \A i \in 1 .. Len(ps) : (<<head>> \o rest)[i + 1] = Entry(i)
  BY <1>4
<1>6. QED
  BY <1>1, <1>2, <1>3, <1>5

\* Two sequences joined.
LEMMA JoinedIs ==
  ASSUME NEW S, NEW b \in Seq(S), NEW c \in Seq(S)
  PROVE  /\ b \o c \in Seq(S) /\ Len(b \o c) = Len(b) + Len(c)
         /\ \A i \in 1 .. Len(b) : (b \o c)[i] = b[i]
         /\ \A i \in 1 .. Len(c) : (b \o c)[Len(b) + i] = c[i]
  OBVIOUS

\* A packet's frame holds it, and perhaps more bytes of it.
LEMMA PacketFrameIs ==
  ASSUME NEW s \in Scripts, NEW f \in 1 .. Len(s.frames),
         s.frames[f].kind \in {"PACKET", "LONG", "CHANCE"}
  PROVE  LET b == Payload(f, s.frames[f], s.heard)
             p == s.frames[f].ps[1]
         IN  /\ Len(b) \in 2 .. 7
             /\ b[1].t = "meta" /\ b[1].at = s.heard[p].at
             /\ b[1].channel = s.heard[p].channel
             /\ b[2].t = "packet" /\ b[2].pkt = p /\ b[2].lost = s.heard[p].lost
             /\ \A i \in 1 .. Len(b) : b[i].f = f
             /\ s.frames[f].kind # "CHANCE" => \A i \in 1 .. Len(b) : b[i].t # "magic0"
<1> DEFINE p == s.frames[f].ps[1]
           mine == PacketPayload(f, p, s.heard)
           b == Payload(f, s.frames[f], s.heard)
<1>1. /\ Len(mine) = 2
      /\ mine[1].t = "meta" /\ mine[1].f = f /\ mine[1].at = s.heard[p].at
      /\ mine[1].channel = s.heard[p].channel
      /\ mine[2].t = "packet" /\ mine[2].f = f /\ mine[2].pkt = p
      /\ mine[2].lost = s.heard[p].lost
  BY DEF PacketPayload
<1>2. b \in Seq(TokensOf(Len(s.heard)))
  BY PayloadIs
<1> DEFINE x == mine[1]
           y == mine[2]
           Says == /\ Len(b) \in 2 .. 7
                   /\ b[1].t = "meta" /\ b[1].at = s.heard[p].at
                   /\ b[1].channel = s.heard[p].channel
                   /\ b[2].t = "packet" /\ b[2].pkt = p /\ b[2].lost = s.heard[p].lost
                   /\ \A i \in 1 .. Len(b) : b[i].f = f
                   /\ s.frames[f].kind # "CHANCE" => \A i \in 1 .. Len(b) : b[i].t # "magic0"
<1>2a. mine = <<x, y>>
  BY DEF PacketPayload
<1>2b. Len(mine) = 2
  BY <1>1
<1>3. ASSUME s.frames[f].kind = "PACKET" PROVE Says
  <2>1. b = mine
    BY <1>3 DEF Payload
  <2> HIDE DEF mine, p, b
  <2>2. Len(b) = 2
    BY <1>1, <2>1
  <2>2a. \A i \in 1 .. Len(b) : i = 1 \/ i = 2
    BY <2>2
  <2>3. \A i \in 1 .. Len(b) : b[i].f = f /\ b[i].t # "magic0"
    BY <1>1, <2>1, <2>2a
  <2>4. Len(b) \in 2 .. 7
    BY <2>2
  <2>5. QED
    BY <1>1, <2>1, <2>3, <2>4
<1>4. ASSUME s.frames[f].kind = "LONG" PROVE Says
  <2> DEFINE more == [t |-> "more", f |-> f]
             tail == [k \in 1 .. 4 |-> more]
  <2>1. b = mine \o tail
    BY <1>4 DEF Payload
  <2>2. more.f = f /\ more.t = "more"
    OBVIOUS
  <2> HIDE DEF mine, p, b, more, x, y
  <2>3. /\ Len(b) = 6 /\ b[1] = x /\ b[2] = y
        /\ \A i \in 3 .. 6 : b[i] = more
    <3> DEFINE S == {x, y, more}
               two == <<x, y>>
    <3>0. two \in Seq(S) /\ tail \in Seq(S)
      OBVIOUS
    <3>1. Len(two) = 2 /\ Len(tail) = 4
      OBVIOUS
    <3>2. two[1] = x /\ two[2] = y /\ \A i \in 1 .. 4 : tail[i] = more
      OBVIOUS
    <3>3. b = two \o tail
      BY <1>2a, <2>1
    <3> HIDE DEF two, tail, S
    <3>4. /\ Len(b) = Len(two) + Len(tail) /\ \A i \in 1 .. Len(two) : b[i] = two[i]
          /\ \A i \in 1 .. Len(tail) : b[Len(two) + i] = tail[i]
      BY <3>0, <3>3, JoinedIs
    <3>5. /\ Len(b) = 6 /\ b[1] = two[1] /\ b[2] = two[2]
          /\ \A i \in 1 .. 4 : b[2 + i] = tail[i]
      BY <3>1, <3>4
    <3>6. \A i \in 3 .. 6 : i - 2 \in 1 .. 4 /\ 2 + (i - 2) = i
      OBVIOUS
    <3>7. \A i \in 3 .. 6 : b[i] = more
      BY <3>2, <3>5, <3>6
    <3>8. QED
      BY <3>2, <3>5, <3>7
  <2>4. \A i \in 1 .. Len(b) : i = 1 \/ i = 2 \/ i \in 3 .. 6
    BY <2>3
  <2>5. \A i \in 1 .. Len(b) : b[i].f = f /\ b[i].t # "magic0"
    BY <1>1, <2>2, <2>3, <2>4 DEF x, y
  <2>6. Len(b) \in 2 .. 7
    BY <2>3
  <2>7. QED
    BY <1>1, <2>3, <2>5, <2>6 DEF x, y
<1>5. ASSUME s.frames[f].kind = "CHANCE" PROVE Says
  <2> DEFINE chance == [t |-> "chance", f |-> f]
             m0 == [t |-> "magic0", f |-> f]
             m1 == [t |-> "magic1", f |-> f]
             m2 == [t |-> "rest", f |-> f, kind |-> "PACKET",
                    seq |-> (FirstSeq + f + 1) % Modulus, len |-> Len(<<chance, chance>>)]
             tail == Encode(f, "PACKET", FirstSeq + f + 1, <<chance, chance>>)
  <2>1. b = mine \o tail
    BY <1>5 DEF Payload
  <2>2. tail = <<m0, m1, m2>> \o <<chance, chance>>
    BY DEF Encode
  <2>3. m0.f = f /\ m1.f = f /\ m2.f = f /\ chance.f = f
    OBVIOUS
  <2> HIDE DEF mine, p, b, chance, m0, m1, m2, tail, x, y
  <2>4. /\ Len(b) = 7 /\ b[1] = x /\ b[2] = y
        /\ b[3] = m0 /\ b[4] = m1 /\ b[5] = m2 /\ b[6] = chance /\ b[7] = chance
    <3> DEFINE S == {x, y, m0, m1, m2, chance}
               two == <<x, y>>
               three == <<m0, m1, m2>>
               last == <<chance, chance>>
    <3>0. two \in Seq(S) /\ three \in Seq(S) /\ last \in Seq(S)
      OBVIOUS
    <3>1. Len(two) = 2 /\ Len(three) = 3 /\ Len(last) = 2
      OBVIOUS
    <3>2. /\ two[1] = x /\ two[2] = y
          /\ three[1] = m0 /\ three[2] = m1 /\ three[3] = m2
          /\ last[1] = chance /\ last[2] = chance
      OBVIOUS
    <3>3. b = two \o tail /\ tail = three \o last
      BY <1>2a, <2>1, <2>2
    <3> HIDE DEF two, three, last, S
    <3>4. /\ tail \in Seq(S) /\ Len(tail) = Len(three) + Len(last)
          /\ \A i \in 1 .. Len(three) : tail[i] = three[i]
          /\ \A i \in 1 .. Len(last) : tail[Len(three) + i] = last[i]
      BY <3>0, <3>3, JoinedIs
    <3>5. /\ Len(b) = Len(two) + Len(tail)
          /\ \A i \in 1 .. Len(two) : b[i] = two[i]
          /\ \A i \in 1 .. Len(tail) : b[Len(two) + i] = tail[i]
      BY <3>0, <3>3, <3>4, JoinedIs
    <3>6. /\ Len(tail) = 5 /\ tail[1] = three[1] /\ tail[2] = three[2]
          /\ tail[3] = three[3] /\ tail[3 + 1] = last[1] /\ tail[3 + 2] = last[2]
      BY <3>1, <3>4
    <3>7. /\ Len(b) = 7 /\ b[1] = two[1] /\ b[2] = two[2]
          /\ b[2 + 1] = tail[1] /\ b[2 + 2] = tail[2] /\ b[2 + 3] = tail[3]
          /\ b[2 + 4] = tail[4] /\ b[2 + 5] = tail[5]
      BY <3>1, <3>5, <3>6
    <3>8. QED
      BY <3>2, <3>6, <3>7
  <2>5. \A i \in 1 .. Len(b) : i = 1 \/ i = 2 \/ i = 3 \/ i = 4 \/ i = 5 \/ i = 6 \/ i = 7
    BY <2>4
  <2>6. \A i \in 1 .. Len(b) : b[i].f = f
    BY <1>1, <2>3, <2>4, <2>5 DEF x, y
  <2>7. Len(b) \in 2 .. 7
    BY <2>4
  <2>8. QED
    BY <1>1, <1>5, <2>4, <2>6, <2>7 DEF x, y
<1>6. Says
  BY <1>3, <1>4, <1>5
<1>7. QED
  BY <1>6

\* Every byte of a frame's payload is the frame's, and none begins a header.
LEMMA PayloadSays ==
  ASSUME NEW s \in Scripts, NEW f \in 1 .. Len(s.frames)
  PROVE  LET b == Payload(f, s.frames[f], s.heard)
         IN  /\ Len(b) \in 1 .. 33
             /\ \A i \in 1 .. Len(b) : b[i].f = f
             /\ s.frames[f].kind # "CHANCE" => \A i \in 1 .. Len(b) : b[i].t # "magic0"
<1> DEFINE frame == s.frames[f]
           b == Payload(f, frame, s.heard)
<1>1. /\ frame.kind \in Kinds /\ frame.ps \in Seq(1 .. Len(s.heard)) /\ f \in Nat
      /\ Len(frame.ps) \in Nat
  BY ScriptIs
<1>2. CASE frame.kind \in {"PACKET", "LONG", "CHANCE"}
  <2>1. Len(b) \in 2 .. 7
    BY <1>2, PacketFrameIs
  <2>2. 2 .. 7 \subseteq 1 .. 33
    OBVIOUS
  <2>3. /\ \A i \in 1 .. Len(b) : b[i].f = f
        /\ frame.kind # "CHANCE" => \A i \in 1 .. Len(b) : b[i].t # "magic0"
    BY <1>2, PacketFrameIs
  <2>4. QED
    BY <2>1, <2>2, <2>3
<1>3. CASE frame.kind \in {"PACKET_BATCH", "BLE_BATCH"}
  <2>1. /\ Len(b) = 1 + Len(frame.ps) /\ b[1].f = f /\ b[1].t # "magic0"
        /\ \A i \in 1 .. Len(frame.ps) : b[i + 1].f = f /\ b[i + 1].t # "magic0"
    <3>1. CASE frame.kind = "PACKET_BATCH"
      <4>1. b = EncodePacketBatch(f, frame.ps, s.heard)
        BY <3>1 DEF Payload
      <4>2. QED
        BY <1>1, <4>1, BatchSays
    <3>2. CASE frame.kind = "BLE_BATCH"
      <4>1. b = EncodeBleBatch(f, frame.ps, s.heard)
        BY <3>2 DEF Payload
      <4>2. QED
        BY <1>1, <4>1, BleBatchSays, SMTT(30)
    <3>3. QED
      BY <1>3, <3>1, <3>2
  <2>2. Len(frame.ps) <= 32
    BY <1>3, FramesAssumption DEF MAX_BATCH_ENTRIES
  <2> DEFINE n == Len(frame.ps)
  <2> HIDE DEF b, frame, n
  <2>3. n \in Nat /\ n <= 32 /\ Len(b) = 1 + n
    BY <1>1, <2>1, <2>2 DEF n
  <2>4. \A i \in 1 .. Len(b) : i = 1 \/ (i - 1 \in 1 .. n /\ (i - 1) + 1 = i)
    BY <2>3
  <2>5. \A i \in 1 .. n : b[i + 1].f = f /\ b[i + 1].t # "magic0"
    BY <2>1 DEF n
  <2>6. \A i \in 1 .. Len(b) : b[i].f = f /\ b[i].t # "magic0"
    BY <2>1, <2>4, <2>5
  <2>7. Len(b) \in 1 .. 33
    BY <2>3
  <2>8. QED
    BY <2>6, <2>7 DEF b, frame
<1>4. CASE frame.kind = "STATS"
  <2> DEFINE counters == [t |-> "counters", f |-> f]
  <2>1. b = <<counters>>
    BY <1>4 DEF Payload
  <2>2. counters.f = f /\ counters.t = "counters"
    OBVIOUS
  <2> HIDE DEF counters, b
  <2>3. Len(b) = 1 /\ b[1] = counters /\ 1 \in 1 .. 33
    BY <2>1
  <2>4. \A i \in 1 .. Len(b) : i = 1
    BY <2>3
  <2>5. QED
    BY <2>2, <2>3, <2>4 DEF b
<1>5. QED
  BY <1>1, <1>2, <1>3, <1>4 DEF Kinds

\* The tokens a frame may have.
MAX_FRAME == 36

\* Every byte of a frame is the frame's; only its first begins a header.
LEMMA FrameSays ==
  ASSUME NEW s \in Scripts, NEW f \in 1 .. Len(s.frames)
  PROVE  LET b == Framed(s, f)
         IN  /\ Len(b) \in 3 .. MAX_FRAME
             /\ \A i \in 1 .. Len(b) : b[i].f = f
             /\ s.frames[f].kind # "CHANCE" => \A i \in 2 .. Len(b) : b[i].t # "magic0"
<1> DEFINE b == Framed(s, f)
           payload == Payload(f, s.frames[f], s.heard)
           n == Len(payload)
           plain == s.frames[f].kind # "CHANCE"
<1>1. /\ n \in 1 .. 33 /\ \A i \in 1 .. n : payload[i].f = f
      /\ plain => \A i \in 1 .. n : payload[i].t # "magic0"
  BY PayloadSays
<1>2. /\ Len(b) = 3 + n
      /\ b[1] = [t |-> "magic0", f |-> f] /\ b[2] = [t |-> "magic1", f |-> f]
      /\ b[3].t = "rest" /\ b[3].f = f /\ \A i \in 1 .. n : b[3 + i] = payload[i]
  BY HeaderIs
<1>3. b[1].f = f /\ b[2].f = f /\ b[2].t # "magic0" /\ b[3].t # "magic0"
  BY <1>2
<1> HIDE DEF b, payload, n, plain
<1>4. \A i \in 1 .. Len(b) : i = 1 \/ i = 2 \/ i = 3 \/ (i - 3 \in 1 .. n /\ 3 + (i - 3) = i)
  <2>1. n \in Nat /\ Len(b) = 3 + n
    BY <1>1, <1>2
  <2>2. QED
    BY <2>1
<1>5. \A i \in 1 .. Len(b) : b[i].f = f
  BY <1>1, <1>2, <1>3, <1>4
<1>6. ASSUME plain, NEW i \in 2 .. Len(b) PROVE b[i].t # "magic0"
  <2>1. i \in 1 .. Len(b) /\ i # 1
    BY <1>1, <1>2
  <2>2. QED
    BY <1>1, <1>2, <1>3, <1>4, <1>6, <2>1
<1>7. Len(b) \in 3 .. MAX_FRAME
  BY <1>1, <1>2 DEF MAX_FRAME
<1>8. QED
  BY <1>5, <1>6, <1>7 DEF b, plain

\* The three bytes every frame starts with.
LEMMA HeaderSays ==
  ASSUME NEW s \in Scripts, NEW f \in 1 .. Len(s.frames)
  PROVE  /\ Framed(s, f)[1].t = "magic0" /\ Framed(s, f)[2].t = "magic1"
         /\ Framed(s, f)[3].t = "rest"
         /\ Framed(s, f)[3].seq = (FirstSeq + f - 1) % Modulus
<1>1. /\ Framed(s, f)[1] = [t |-> "magic0", f |-> f]
      /\ Framed(s, f)[2] = [t |-> "magic1", f |-> f]
      /\ Framed(s, f)[3].t = "rest"
      /\ Framed(s, f)[3].seq = (FirstSeq + f - 1) % Modulus
  BY HeaderIs
<1>2. QED
  BY <1>1

\* Where frame f's bytes start, in all that is sent.
AllOf(s) == [f \in 1 .. Len(s.frames) |-> Framed(s, f)]
Start(s, f) == IF f = 1 THEN 0 ELSE Len(FlatOf(AllOf(s))[f - 1])

\* The frames lie one after another.
LEMMA Layout ==
  ASSUME NEW s \in Scripts
  PROVE  /\ Sent(s) \in Seq(TokensOf(Len(s.heard))) /\ Len(Sent(s)) \in Nat
         /\ Start(s, 1) = 0 /\ Start(s, Len(s.frames) + 1) = Len(Sent(s))
         /\ \A f \in 1 .. Len(s.frames) + 1 : Start(s, f) \in Nat
         /\ \A f \in 1 .. Len(s.frames) :
              /\ Start(s, f + 1) = Start(s, f) + Len(Framed(s, f))
              /\ \A i \in 1 .. Len(Framed(s, f)) :
                   Sent(s)[Start(s, f) + i] = Framed(s, f)[i]
<1> DEFINE n == Len(s.frames)
           T == TokensOf(Len(s.heard))
           g == FlatOf(AllOf(s))
           ss == AllOf(s)
<1>1. n \in Nat
  BY ScriptIs
<1>2. /\ \A f \in 1 .. n : Framed(s, f) \in Seq(T) /\ Len(Framed(s, f)) \in Nat
      /\ Sent(s) \in Seq(T) /\ Len(Sent(s)) \in Nat
  BY FramedIs, SentIs
<1>3. ss \in Seq(Seq(T)) /\ Len(ss) = n /\ \A f \in 1 .. n : ss[f] = Framed(s, f)
  BY <1>1, <1>2 DEF AllOf
<1>4. IsFlat(g, ss, n)
  <2>1. \E k : IsFlat(k, ss, n)
    <3> HIDE DEF ss, n, T
    <3>1. QED
      BY <1>1, <1>3, FlatExists
  <2>2. QED
    BY <1>3, <2>1 DEF FlatOf
<1> HIDE DEF ss, n, T, g
<1>5. \A f \in 1 .. n : g[f] = IF f = 1 THEN ss[f] ELSE g[f - 1] \o ss[f]
  BY <1>4 DEF IsFlat
<1>6. \A f \in 1 .. n : g[f] \in Seq(T)
  <2> DEFINE G == {k \in Nat : k \in 1 .. n => g[k] \in Seq(T)}
  <2>1. 0 \in G
    OBVIOUS
  <2>2. ASSUME NEW k \in Nat, k \in G PROVE k + 1 \in G
    <3>1. SUFFICES ASSUME k + 1 \in 1 .. n PROVE g[k + 1] \in Seq(T)
      OBVIOUS
    <3>2. ss[k + 1] \in Seq(T)
      BY <1>2, <1>3, <3>1
    <3>3. CASE k = 0
      BY <1>5, <3>1, <3>2, <3>3
    <3>4. CASE k # 0
      <4>1. k \in 1 .. n /\ k + 1 # 1 /\ (k + 1) - 1 = k
        BY <1>1, <3>1, <3>4
      <4>2. g[k] \in Seq(T)
        BY <2>2, <4>1
      <4>3. g[k + 1] = g[k] \o ss[k + 1]
        BY <1>5, <3>1, <4>1
      <4>4. QED
        BY <3>2, <4>2, <4>3
    <3>5. QED
      BY <3>3, <3>4
  <2> HIDE DEF G
  <2>3. \A k \in Nat : k \in G
    BY <2>1, <2>2, Induction
  <2>4. QED
    BY <1>1, <2>3 DEF G
\* What is flattened up to f is frame f after what comes before it.
<1>7. ASSUME NEW f \in 1 .. n
      PROVE  /\ Len(g[f]) = Start(s, f) + Len(Framed(s, f)) /\ Start(s, f) \in Nat
             /\ \A i \in 1 .. Len(Framed(s, f)) :
                  g[f][Start(s, f) + i] = Framed(s, f)[i]
  <2>1. Framed(s, f) \in Seq(T) /\ Len(Framed(s, f)) \in Nat /\ f \in Nat
    BY <1>1, <1>2
  <2>2. CASE f = 1
    <3>1. Start(s, f) = 0 /\ g[f] = Framed(s, f)
      BY <1>3, <1>5, <2>2 DEF Start
    <3>2. QED
      BY <2>1, <3>1
  <2>3. CASE f # 1
    <3>1. f - 1 \in 1 .. n
      BY <1>1, <2>1, <2>3
    <3>2. Start(s, f) = Len(g[f - 1]) /\ g[f] = g[f - 1] \o Framed(s, f)
      BY <1>3, <1>5, <2>3 DEF Start, g
    <3>3. g[f - 1] \in Seq(T) /\ Len(g[f - 1]) \in Nat
      BY <1>6, <3>1
    <3>4. QED
      BY <2>1, <3>2, <3>3
  <2>4. QED
    BY <2>2, <2>3
\* Later frames leave what comes before them.
<1>8. ASSUME NEW f \in 1 .. n, NEW k \in Nat, f + k \in 1 .. n
      PROVE  \A i \in 1 .. Len(g[f]) : i \in 1 .. Len(g[f + k]) /\ g[f + k][i] = g[f][i]
  <2> DEFINE Same(m) == \A i \in 1 .. Len(g[f]) :
                          i \in 1 .. Len(g[f + m]) /\ g[f + m][i] = g[f][i]
             G == {m \in Nat : f + m \in 1 .. n => Same(m)}
  <2>1. f \in Nat /\ f + 0 = f
    BY <1>1
  <2>2. 0 \in G
    BY <2>1
  <2>3. ASSUME NEW m \in Nat, m \in G PROVE m + 1 \in G
    <3>1. SUFFICES ASSUME f + (m + 1) \in 1 .. n PROVE Same(m + 1)
      OBVIOUS
    <3>2. f + m \in 1 .. n /\ f + (m + 1) # 1 /\ (f + (m + 1)) - 1 = f + m
      BY <1>1, <2>1, <3>1
    <3>3. Same(m)
      BY <2>3, <3>2
    <3>4. g[f + (m + 1)] = g[f + m] \o ss[f + (m + 1)]
      BY <1>5, <3>1, <3>2
    <3>5. g[f + m] \in Seq(T) /\ ss[f + (m + 1)] \in Seq(T)
      BY <1>2, <1>3, <1>6, <3>1, <3>2
    <3>6. \A i \in 1 .. Len(g[f + m]) : /\ i \in 1 .. Len(g[f + (m + 1)])
                                        /\ g[f + (m + 1)][i] = g[f + m][i]
      <4> DEFINE x == g[f + m]
                 y == g[f + (m + 1)]
                 z == ss[f + (m + 1)]
      <4> HIDE DEF x, y, z
      <4>1. x \in Seq(T) /\ z \in Seq(T) /\ y = x \o z
        BY <3>4, <3>5 DEF x, y, z
      <4>2. \A i \in 1 .. Len(x) : i \in 1 .. Len(y) /\ y[i] = x[i]
        BY <4>1
      <4>3. QED
        BY <4>2 DEF x, y
    <3>7. QED
      BY <3>3, <3>6
  <2> HIDE DEF G
  <2>4. k \in G
    BY <2>2, <2>3, Induction
  <2>5. QED
    BY <1>8, <2>4 DEF G
<1>9. Sent(s) = IF n = 0 THEN <<>> ELSE g[n]
  <2>1. CASE n = 0
    <3>1. ss = <<>>
      BY <1>3, <2>1
    <3>2. Sent(s) = <<>>
      BY <1>3, <2>1, <3>1 DEF Sent, FlattenSeq, ss, AllOf, n
    <3>3. QED
      BY <2>1, <3>2
  <2>2. CASE n # 0
    <3>1. Sent(s) = FlattenSeq(ss)
      BY DEF Sent, ss, AllOf
    <3>2. FlattenSeq(ss) = FlatOf(ss)[Len(ss)]
      BY <1>3, <2>2, FlattenIs
    <3>3. QED
      BY <1>3, <2>2, <3>1, <3>2 DEF g, ss
  <2>3. QED
    BY <2>1, <2>2
<1>10. Start(s, 1) = 0
  BY DEF Start
<1>11. Start(s, n + 1) = Len(Sent(s))
  <2>1. CASE n = 0
    BY <1>9, <1>10, <2>1
  <2>2. CASE n # 0
    <3>1. n + 1 # 1 /\ (n + 1) - 1 = n
      BY <1>1, <2>2
    <3>2. Start(s, n + 1) = Len(g[n])
      BY <3>1 DEF Start, g
    <3>3. QED
      BY <1>9, <2>2, <3>2
  <2>3. QED
    BY <2>1, <2>2
<1>12. ASSUME NEW f \in 1 .. n
       PROVE  /\ Start(s, f + 1) = Start(s, f) + Len(Framed(s, f))
              /\ \A i \in 1 .. Len(Framed(s, f)) :
                   Sent(s)[Start(s, f) + i] = Framed(s, f)[i]
  <2>1. f \in Nat /\ f + 1 # 1 /\ (f + 1) - 1 = f /\ n # 0
    BY <1>1
  <2>2. Start(s, f + 1) = Len(g[f])
    BY <2>1 DEF Start, g
  <2>3. n - f \in Nat /\ f + (n - f) = n /\ n \in 1 .. n
    BY <1>1, <2>1
  <2>4. \A i \in 1 .. Len(g[f]) : g[n][i] = g[f][i]
    BY <1>8, <2>3
  <2>5. /\ Len(g[f]) = Start(s, f) + Len(Framed(s, f)) /\ Start(s, f) \in Nat
        /\ \A i \in 1 .. Len(Framed(s, f)) : g[f][Start(s, f) + i] = Framed(s, f)[i]
    BY <1>7
  <2>6. Len(Framed(s, f)) \in Nat
    BY <1>2
  <2>7. \A i \in 1 .. Len(Framed(s, f)) : Start(s, f) + i \in 1 .. Len(g[f])
    BY <2>5, <2>6
  <2>8. QED
    BY <1>9, <2>1, <2>2, <2>4, <2>5, <2>7
<1>13. ASSUME NEW f \in 1 .. n + 1 PROVE Start(s, f) \in Nat
  <2>1. CASE f = n + 1
    BY <1>2, <1>11, <2>1
  <2>2. CASE f # n + 1
    <3>1. f \in 1 .. n
      BY <1>1, <2>2
    <3>2. QED
      BY <1>7, <3>1
  <2>3. QED
    BY <2>1, <2>2
<1>14. QED
  BY <1>2, <1>10, <1>11, <1>12, <1>13 DEF n, T

\* They start in order, at least three bytes apart.
LEMMA StartsInOrder ==
  ASSUME NEW s \in Scripts, NEW f \in 1 .. Len(s.frames) + 1,
         NEW g \in 1 .. Len(s.frames) + 1, f <= g
  PROVE  Start(s, f) \in Nat /\ Start(s, g) \in Nat /\ Start(s, f) + 3 * (g - f) <= Start(s, g)
<1> DEFINE n == Len(s.frames)
           G == {k \in Nat : f + k <= n + 1 => Start(s, f) + 3 * k <= Start(s, f + k)}
<1>1. n \in Nat /\ f \in Nat /\ g \in Nat
  BY ScriptIs
<1>2. \A k \in 1 .. n + 1 : Start(s, k) \in Nat
  BY Layout
<1>3. 0 \in G
  <2>1. f + 0 = f /\ Start(s, f) \in Nat
    BY <1>1, <1>2
  <2>2. QED
    BY <2>1
<1>4. ASSUME NEW k \in Nat, k \in G PROVE k + 1 \in G
  <2>1. SUFFICES ASSUME f + (k + 1) <= n + 1
        PROVE  Start(s, f) + 3 * (k + 1) <= Start(s, f + (k + 1))
    OBVIOUS
  <2>2. f + k \in 1 .. n /\ f + k \in 1 .. n + 1 /\ (f + k) + 1 = f + (k + 1)
        /\ f + (k + 1) \in 1 .. n + 1 /\ f + k <= n + 1
    BY <1>1, <2>1
  <2>3. Start(s, f) + 3 * k <= Start(s, f + k)
    BY <1>4, <2>2
  <2>4. Start(s, f + (k + 1)) = Start(s, f + k) + Len(Framed(s, f + k))
    BY <2>2, Layout
  <2>5. Len(Framed(s, f + k)) \in 3 .. MAX_FRAME
    BY <2>2, FrameSays
  <2> DEFINE x == Start(s, f)
             y == Start(s, f + k)
             z == Start(s, f + (k + 1))
             l == Len(Framed(s, f + k))
  <2>6. x \in Nat /\ y \in Nat /\ z \in Nat /\ l \in 3 .. MAX_FRAME
    BY <1>2, <2>2, <2>5
  <2> HIDE DEF x, y, z, l
  <2>7. l \in Int /\ l >= 3
    BY <2>6 DEF MAX_FRAME
  <2>8. x + 3 * k <= y /\ z = y + l
    BY <2>3, <2>4 DEF x, y, z, l
  <2>9. x + 3 * (k + 1) <= z
    BY <2>6, <2>7, <2>8
  <2>10. QED
    BY <2>9 DEF x, z
<1> HIDE DEF G
<1>5. g - f \in Nat /\ f + (g - f) = g /\ g <= n + 1
  BY <1>1
<1>6. g - f \in G
  BY <1>3, <1>4, <1>5, Induction
<1>7. Start(s, f) + 3 * (g - f) <= Start(s, f + (g - f))
  BY <1>5, <1>6 DEF G
<1>8. QED
  BY <1>2, <1>5, <1>7

\* Every byte is of some frame.
LEMMA Within ==
  ASSUME NEW s \in Scripts, NEW k \in 1 .. Len(Sent(s))
  PROVE  \E f \in 1 .. Len(s.frames) : Start(s, f) < k /\ k <= Start(s, f + 1)
<1> DEFINE n == Len(s.frames)
           T == {f \in 1 .. n : k <= Start(s, f + 1)}
<1>1. n \in Nat /\ Len(Sent(s)) \in Nat /\ Start(s, 1) = 0
      /\ Start(s, n + 1) = Len(Sent(s)) /\ \A f \in 1 .. n + 1 : Start(s, f) \in Nat
  BY ScriptIs, Layout
<1>2. n # 0
  <2>1. SUFFICES ASSUME n = 0 PROVE FALSE
    OBVIOUS
  <2>2. Len(Sent(s)) = 0
    BY <1>1, <2>1
  <2>3. QED
    BY <2>2
<1>3. n \in T /\ T \subseteq Nat
  BY <1>1, <1>2
<1> HIDE DEF n
<1>4. PICK f \in T : \A y \in T : f <= y
  <2> HIDE DEF T
  <2>1. T # {}
    BY <1>3
  <2>2. QED
    BY <1>3, <2>1, Least
<1>5. f \in 1 .. n /\ k <= Start(s, f + 1)
  BY <1>4
<1>6. Start(s, f) < k
  <2>1. CASE f = 1
    BY <1>1, <2>1
  <2>2. CASE f # 1
    <3>1. f - 1 \in 1 .. n /\ (f - 1) + 1 = f /\ f \in 1 .. n + 1 /\ ~(f <= f - 1)
      BY <1>1, <1>5, <2>2
    <3>2. f - 1 \notin T
      BY <1>4, <3>1
    <3>3. ~(k <= Start(s, f))
      BY <3>1, <3>2
    <3>4. Start(s, f) \in Nat
      BY <1>1, <3>1
    <3>5. QED
      BY <1>1, <3>3, <3>4
  <2>3. QED
    BY <2>1, <2>2
<1>7. QED
  BY <1>5, <1>6 DEF n

\* A byte of frame f is one of its own.
LEMMA ByteIs ==
  ASSUME NEW s \in Scripts, NEW f \in 1 .. Len(s.frames), NEW k \in Int,
         Start(s, f) < k, k <= Start(s, f + 1)
  PROVE  /\ k \in 1 .. Len(Sent(s)) /\ k - Start(s, f) \in 1 .. Len(Framed(s, f))
         /\ Sent(s)[k] = Framed(s, f)[k - Start(s, f)] /\ Sent(s)[k].f = f
<1>1. /\ Len(s.frames) \in Nat /\ Start(s, f) \in Nat /\ Len(Sent(s)) \in Nat
      /\ f + 1 \in 1 .. Len(s.frames) + 1 /\ f + 1 <= Len(s.frames) + 1
      /\ Len(s.frames) + 1 \in 1 .. Len(s.frames) + 1
      /\ Start(s, f + 1) \in Nat
  BY ScriptIs, Layout
<1>2. Start(s, f + 1) = Start(s, f) + Len(Framed(s, f)) /\ Len(Framed(s, f)) \in 3 .. MAX_FRAME
      /\ \A i \in 1 .. Len(Framed(s, f)) : Sent(s)[Start(s, f) + i] = Framed(s, f)[i]
  BY Layout, FrameSays
<1>3. Len(Framed(s, f)) \in Nat
  BY <1>2 DEF MAX_FRAME
<1>4. Start(s, f + 1) <= Len(Sent(s))
  <2>1. Start(s, f + 1) + 3 * ((Len(s.frames) + 1) - (f + 1)) <= Start(s, Len(s.frames) + 1)
    BY <1>1, StartsInOrder
  <2>2. Start(s, Len(s.frames) + 1) = Len(Sent(s))
    BY Layout
  <2> DEFINE x == Start(s, f + 1)
             y == Start(s, Len(s.frames) + 1)
             z == Len(s.frames)
  <2>3. x \in Nat /\ y \in Nat /\ z \in Nat /\ f \in 1 .. z
    BY <1>1, <2>2
  <2> HIDE DEF x, y, z
  <2>4. x + 3 * ((z + 1) - (f + 1)) <= y
    BY <2>1 DEF x, y, z
  <2>5. x <= y
    BY <2>3, <2>4
  <2>6. QED
    BY <2>2, <2>5 DEF x, y
<1>5. k - Start(s, f) \in 1 .. Len(Framed(s, f)) /\ Start(s, f) + (k - Start(s, f)) = k
      /\ k \in 1 .. Len(Sent(s))
  <2> DEFINE x == Start(s, f)
             y == Start(s, f + 1)
             l == Len(Framed(s, f))
             z == Len(Sent(s))
  <2>1. /\ x \in Nat /\ y \in Nat /\ l \in Nat /\ z \in Nat /\ y = x + l /\ y <= z
        /\ x < k /\ k <= y
    BY <1>1, <1>2, <1>3, <1>4
  <2> HIDE DEF x, y, z, l
  <2>2. k - x \in 1 .. l /\ x + (k - x) = k /\ k \in 1 .. z
    BY <2>1
  <2>3. QED
    BY <2>2 DEF x, y, z, l
<1>6. Framed(s, f)[k - Start(s, f)].f = f
  BY <1>5, FrameSays
<1>7. Sent(s)[Start(s, f) + (k - Start(s, f))] = Framed(s, f)[k - Start(s, f)]
  BY <1>2, <1>5
<1>8. QED
  BY <1>5, <1>6, <1>7

\* No payload holds a header by chance.
NoChance(s) == \A f \in 1 .. Len(s.frames) : s.frames[f].kind # "CHANCE"

\* Where no payload holds a header by chance, one starts where a frame does.
LEMMA MagicStarts ==
  ASSUME NEW s \in Scripts, NoChance(s), NEW k \in 1 .. Len(Sent(s)),
         Sent(s)[k].t = "magic0"
  PROVE  \E f \in 1 .. Len(s.frames) : k = Start(s, f) + 1
<1>1. PICK f \in 1 .. Len(s.frames) : Start(s, f) < k /\ k <= Start(s, f + 1)
  BY Within
<1>2. Len(Sent(s)) \in Nat /\ k \in Int
  BY Layout
<1>3. k - Start(s, f) \in 1 .. Len(Framed(s, f))
      /\ Sent(s)[k] = Framed(s, f)[k - Start(s, f)]
  BY <1>1, <1>2, ByteIs
<1>4. s.frames[f].kind # "CHANCE"
  BY DEF NoChance
<1>5. \A i \in 2 .. Len(Framed(s, f)) : Framed(s, f)[i].t # "magic0"
  BY <1>4, FrameSays
<1>6. ~(k - Start(s, f) \in 2 .. Len(Framed(s, f)))
  BY <1>3, <1>5
<1>7. Start(s, f) \in Nat /\ Len(Framed(s, f)) \in Nat
  <2>1. f \in 1 .. Len(s.frames) + 1
    BY ScriptIs
  <2>2. Len(Framed(s, f)) \in 3 .. MAX_FRAME
    BY FrameSays
  <2>3. QED
    BY <2>1, <2>2, Layout DEF MAX_FRAME
<1>8. k - Start(s, f) = 1
  BY <1>2, <1>3, <1>6, <1>7
<1>9. k = Start(s, f) + 1
  BY <1>2, <1>7, <1>8
<1>10. QED
  BY <1>9

-----------------------------------------------------------------------------
(* What is still to be parsed.                                             *)

\* After d bytes of r come all those sent from frame n on.
SentFrom(s, r, d, n) ==
  /\ Len(r) = d + Len(Sent(s)) - Start(s, n)
  /\ \A i \in 1 .. Len(Sent(s)) - Start(s, n) : r[d + i] = Sent(s)[Start(s, n) + i]

\* Then comes the whole of frame n.
Holds(s, r, d, n) ==
  /\ d + Len(Framed(s, n)) <= Len(r)
  /\ \A i \in 1 .. Len(Framed(s, n)) : r[d + i] = Framed(s, n)[i]

\* How long they are, and where they start.
LEMMA LengthsAre ==
  ASSUME NEW s \in Scripts
  PROVE  /\ Len(s.frames) \in Nat /\ Len(Sent(s)) \in Nat
         /\ \A n \in 1 .. Len(s.frames) + 1 :
              Start(s, n) \in Nat /\ Start(s, n) <= Len(Sent(s))
         /\ \A n \in 1 .. Len(s.frames) :
              /\ Len(Framed(s, n)) \in Nat /\ Len(Framed(s, n)) >= 3
              /\ Len(Framed(s, n)) <= 36
              /\ n \in 1 .. Len(s.frames) + 1 /\ n + 1 \in 1 .. Len(s.frames) + 1
              /\ Start(s, n + 1) = Start(s, n) + Len(Framed(s, n))
<1>1. Len(s.frames) \in Nat /\ Len(Sent(s)) \in Nat
  BY ScriptIs, Layout
<1>2. ASSUME NEW n \in 1 .. Len(s.frames) + 1
      PROVE  Start(s, n) \in Nat /\ Start(s, n) <= Len(Sent(s))
  <2> DEFINE x == Start(s, n)
             y == Start(s, Len(s.frames) + 1)
             z == Len(s.frames)
  <2>1. z + 1 \in 1 .. z + 1 /\ n <= z + 1
    BY <1>1
  <2>2. x \in Nat /\ y \in Nat /\ x + 3 * ((z + 1) - n) <= y
    BY <2>1, StartsInOrder
  <2>3. y = Len(Sent(s))
    BY Layout
  <2> HIDE DEF x, y, z
  <2>4. z \in Nat /\ n \in 1 .. z + 1
    BY <1>1 DEF z
  <2>5. x <= y
    BY <2>2, <2>4
  <2>6. QED
    BY <2>2, <2>3, <2>5 DEF x
<1>3. ASSUME NEW n \in 1 .. Len(s.frames)
      PROVE  /\ Len(Framed(s, n)) \in Nat /\ Len(Framed(s, n)) >= 3
             /\ Len(Framed(s, n)) <= 36
             /\ n \in 1 .. Len(s.frames) + 1 /\ n + 1 \in 1 .. Len(s.frames) + 1
             /\ Start(s, n + 1) = Start(s, n) + Len(Framed(s, n))
  <2>1. Len(Framed(s, n)) \in 3 .. MAX_FRAME
    BY FrameSays
  <2>2. /\ Len(Framed(s, n)) \in Nat /\ Len(Framed(s, n)) >= 3
        /\ Len(Framed(s, n)) <= 36
    <3> DEFINE l == Len(Framed(s, n))
    <3>1. l \in 3 .. MAX_FRAME
      BY <2>1
    <3> HIDE DEF l
    <3>2. l \in Nat /\ l >= 3 /\ l <= 36
      BY <3>1 DEF MAX_FRAME
    <3>3. QED
      BY <3>2 DEF l
  <2>3. n \in 1 .. Len(s.frames) + 1 /\ n + 1 \in 1 .. Len(s.frames) + 1
    BY <1>1
  <2>4. Start(s, n + 1) = Start(s, n) + Len(Framed(s, n))
    BY Layout
  <2>5. QED
    BY <2>2, <2>3, <2>4
<1>4. QED
  BY <1>1, <1>2, <1>3

\* The next frame is there whole, and the others come after it.
LEMMA NextIs ==
  ASSUME NEW s \in Scripts, NEW r, NEW d \in Nat, NEW n \in 1 .. Len(s.frames),
         SentFrom(s, r, d, n)
  PROVE  Holds(s, r, d, n) /\ SentFrom(s, r, d + Len(Framed(s, n)), n + 1)
<1> DEFINE x == Start(s, n)
           y == Start(s, n + 1)
           l == Len(Framed(s, n))
           z == Len(Sent(s))
<1>1. x \in Nat /\ y \in Nat /\ l \in Nat /\ z \in Nat /\ y = x + l /\ y <= z
  BY LengthsAre
<1>2. Len(r) = d + z - x /\ \A i \in 1 .. z - x : r[d + i] = Sent(s)[x + i]
  BY DEF SentFrom
<1>3. \A i \in 1 .. l : Sent(s)[x + i] = Framed(s, n)[i]
  BY Layout
<1> HIDE DEF x, y, l, z
<1>4. d + l <= Len(r) /\ \A i \in 1 .. l : r[d + i] = Framed(s, n)[i]
  <2>1. \A i \in 1 .. l : i \in 1 .. z - x
    BY <1>1
  <2>2. QED
    BY <1>1, <1>2, <1>3, <2>1
<1>5. Len(r) = (d + l) + z - y
  BY <1>1, <1>2
<1>6. ASSUME NEW i \in 1 .. z - y PROVE r[(d + l) + i] = Sent(s)[y + i]
  <2>1. l + i \in 1 .. z - x /\ d + (l + i) = (d + l) + i /\ x + (l + i) = y + i
    BY <1>1
  <2>2. r[d + (l + i)] = Sent(s)[x + (l + i)]
    BY <1>2, <2>1
  <2>3. QED
    BY <2>1, <2>2
<1>7. QED
  BY <1>4, <1>5, <1>6 DEF SentFrom, Holds, x, y, l, z

\* The first k bytes go.
LEMMA CutFront ==
  ASSUME NEW S, NEW r \in Seq(S), NEW k \in Nat, k <= Len(r)
  PROVE  /\ SubSeq(r, k + 1, Len(r)) \in Seq(S)
         /\ Len(SubSeq(r, k + 1, Len(r))) = Len(r) - k
         /\ \A i \in 1 .. Len(r) - k : SubSeq(r, k + 1, Len(r))[i] = r[k + i]
<1>1. Len(r) \in Nat /\ k + 1 \in Int /\ k + 1 <= Len(r) + 1
  OBVIOUS
<1>2. \A i \in k + 1 .. Len(r) : r[i] \in S
  BY <1>1
<1>3. /\ SubSeq(r, k + 1, Len(r)) \in Seq(S)
      /\ Len(SubSeq(r, k + 1, Len(r))) = IF k + 1 <= Len(r) THEN Len(r) - (k + 1) + 1 ELSE 0
      /\ \A i \in 1 .. Len(r) - (k + 1) + 1 :
           SubSeq(r, k + 1, Len(r))[i] = r[(k + 1) + i - 1]
  BY <1>1, <1>2, SubSeqProperties
<1>4. Len(SubSeq(r, k + 1, Len(r))) = Len(r) - k
  BY <1>1, <1>3
<1>5. \A i \in 1 .. Len(r) - k : i \in 1 .. Len(r) - (k + 1) + 1 /\ (k + 1) + i - 1 = k + i
  BY <1>1
<1>6. QED
  BY <1>3, <1>4, <1>5

\* What is left of r when its first k bytes go.
Gone(r, k, q) == Len(q) = Len(r) - k /\ \A i \in 1 .. Len(r) - k : q[i] = r[k + i]

\* A buffer and what is yet to be read, of which the buffer's first bytes go.
LEMMA CutBoth ==
  ASSUME NEW S, NEW b \in Seq(S), NEW w \in Seq(S), NEW k \in Nat, k <= Len(b)
  PROVE  Gone(b \o w, k, SubSeq(b, k + 1, Len(b)) \o w)
<1> DEFINE c == SubSeq(b, k + 1, Len(b))
<1>0. c \in Seq(S)
  BY CutFront
<1>1. /\ Len(c) = Len(b) - k /\ \A i \in 1 .. Len(b) - k : c[i] = b[k + i]
  BY CutFront
<1> HIDE DEF c
<1>2. /\ b \o w \in Seq(S) /\ Len(b \o w) = Len(b) + Len(w)
      /\ \A i \in 1 .. Len(b) : (b \o w)[i] = b[i]
      /\ \A i \in 1 .. Len(w) : (b \o w)[Len(b) + i] = w[i]
  BY JoinedIs
<1>3. /\ Len(c \o w) = Len(c) + Len(w)
      /\ \A i \in 1 .. Len(c) : (c \o w)[i] = c[i]
      /\ \A i \in 1 .. Len(w) : (c \o w)[Len(c) + i] = w[i]
  BY <1>0, JoinedIs
<1> DEFINE x == Len(b)
           y == Len(w)
           p == b \o w
           q == c \o w
<1>4. x \in Nat /\ y \in Nat
  OBVIOUS
<1> HIDE DEF x, y, p, q
<1>5. Len(c) = x - k /\ Len(q) = x - k + y /\ Len(p) = x + y
  BY <1>1, <1>2, <1>3, <1>4 DEF x, y, p, q
<1>6. ASSUME NEW i \in 1 .. x + y - k PROVE q[i] = p[k + i]
  <2>1. CASE i <= x - k
    <3>1. i \in 1 .. x - k /\ k + i \in 1 .. x
      BY <1>4, <2>1
    <3>2. q[i] = c[i] /\ c[i] = b[k + i]
      BY <1>1, <1>3, <1>5, <3>1 DEF x, q
    <3>3. p[k + i] = b[k + i]
      BY <1>2, <3>1 DEF x, p
    <3>4. QED
      BY <3>2, <3>3
  <2>2. CASE ~(i <= x - k)
    <3> DEFINE j == i - (x - k)
    <3>1. j \in 1 .. y /\ (x - k) + j = i /\ x + j = k + i
      BY <1>4, <2>2
    <3> HIDE DEF j
    <3>2. q[(x - k) + j] = w[j]
      BY <1>3, <1>5, <3>1 DEF y, q
    <3>3. p[x + j] = w[j]
      BY <1>2, <3>1 DEF x, y, p
    <3>4. QED
      BY <3>1, <3>2, <3>3
  <2>3. QED
    BY <2>1, <2>2
<1>7. Len(q) = Len(p) - k /\ \A i \in 1 .. Len(p) - k : q[i] = p[k + i]
  <2>1. Len(q) = Len(p) - k /\ Len(p) - k = x + y - k
    BY <1>4, <1>5
  <2>2. QED
    BY <1>6, <2>1
<1>8. QED
  BY <1>7 DEF c, p, q, Gone

\* To take bytes that are nothing leaves the frames.
LEMMA GoneIs ==
  ASSUME NEW s \in Scripts, NEW r, NEW d \in Nat, NEW n \in 1 .. Len(s.frames) + 1,
         SentFrom(s, r, d, n), NEW k \in 0 .. d, NEW q, Gone(r, k, q)
  PROVE  SentFrom(s, q, d - k, n)
<1> DEFINE x == Start(s, n)
           z == Len(Sent(s))
<1>1. x \in Nat /\ z \in Nat /\ x <= z /\ d - k \in Nat
  BY LengthsAre
<1>2. Len(r) = d + z - x /\ \A i \in 1 .. z - x : r[d + i] = Sent(s)[x + i]
  BY DEF SentFrom
<1> HIDE DEF x, z
<1>3. Len(q) = (d - k) + z - x
  BY <1>1, <1>2 DEF Gone
<1>4. ASSUME NEW i \in 1 .. z - x PROVE q[(d - k) + i] = Sent(s)[x + i]
  <2>1. (d - k) + i \in 1 .. Len(r) - k /\ k + ((d - k) + i) = d + i
    BY <1>1, <1>2
  <2>2. q[(d - k) + i] = r[k + ((d - k) + i)]
    BY <2>1 DEF Gone
  <2>3. QED
    BY <1>2, <2>1, <2>2
<1>5. QED
  BY <1>3, <1>4 DEF SentFrom, x, z

-----------------------------------------------------------------------------
(* The parser's turns.                                                     *)

\* To resynchronize gives up bytes that begin no header, but not beyond d when
\* a header follows them.
LEMMA ResyncIs ==
  ASSUME NEW S, NEW b \in Seq(S), b # <<>>, NEW d \in Nat, d >= 1,
         \A i \in 2 .. d : i <= Len(b) => b[i].t # "magic0",
         d + 1 <= Len(b) => b[d + 1].t = "magic0",
         d + 2 <= Len(b) => b[d + 2].t = "magic1"
  PROVE  \E k \in 1 .. d : k <= Len(b) /\ Resynced(b) = SubSeq(b, k + 1, Len(b))
<1> DEFINE magics == {p \in 2 .. Len(b) : MagicAt(b, p)}
           x == Len(b)
<1>1. x \in Nat /\ x >= 1
  OBVIOUS
<1>2. CASE magics # {}
  <2>1. Resynced(b) = SubSeq(b, Min(magics), Len(b))
    BY <1>2 DEF Resynced
  <2>2. magics \subseteq Nat
    BY <1>1
  <2> DEFINE p == Min(magics)
  <2>3. p \in magics /\ \A q \in magics : p <= q
    <3> HIDE DEF magics
    <3>1. \E q \in magics : \A y \in magics : q <= y
      BY <1>2, <2>2, Least
    <3>2. QED
      BY <3>1 DEF Min
  <2>3a. Resynced(b) = SubSeq(b, p, Len(b))
    BY <2>1
  <2> HIDE DEF p
  <2>4. p \in 2 .. x /\ p + 1 <= x /\ b[p].t = "magic0" /\ b[p + 1].t = "magic1"
    BY <2>3 DEF MagicAt
  <2>5. p >= d + 1
    <3>1. ~(p \in 2 .. d)
      BY <1>1, <2>4
    <3>2. QED
      BY <1>1, <2>4, <3>1
  <2>6. d + 2 <= x
    BY <1>1, <2>4, <2>5
  <2>7. d + 1 \in magics
    <3>1. d + 1 <= x /\ d + 1 \in 2 .. x /\ (d + 1) + 1 = d + 2
      BY <1>1, <2>6
    <3>2. b[d + 1].t = "magic0" /\ b[(d + 1) + 1].t = "magic1"
      BY <2>6, <3>1
    <3>3. QED
      BY <2>6, <3>1, <3>2 DEF MagicAt
  <2>8. p <= d + 1
    BY <2>3, <2>7
  <2>9. p = d + 1
    BY <1>1, <2>4, <2>5, <2>8
  <2>10. d \in 1 .. d /\ d <= Len(b) /\ Resynced(b) = SubSeq(b, d + 1, Len(b))
    BY <1>1, <2>3a, <2>6, <2>9
  <2>11. QED
    BY <2>10
<1>3. CASE magics = {}
  <2>1. ~(d + 2 <= x)
    <3>1. SUFFICES ASSUME d + 2 <= x PROVE FALSE
      OBVIOUS
    <3>2. d + 1 <= x /\ d + 1 \in 2 .. x /\ (d + 1) + 1 = d + 2
      BY <1>1, <3>1
    <3>3. b[d + 1].t = "magic0" /\ b[(d + 1) + 1].t = "magic1"
      BY <3>1, <3>2
    <3>4. d + 1 \in magics
      BY <3>1, <3>2, <3>3 DEF MagicAt
    <3>5. QED
      BY <1>3, <3>4
  <2>2. CASE x > 1 /\ b[x].t = "magic0"
    <3>1. Last(b) = b[x]
      BY DEF Last
    <3>2. Resynced(b) = <<b[x]>>
      BY <1>3, <2>2, <3>1 DEF Resynced
    <3>3. x >= d + 1
      <4>1. ~(x \in 2 .. d)
        BY <1>1, <2>2
      <4>2. QED
        BY <1>1, <2>2, <4>1
    <3>4. x = d + 1
      BY <1>1, <2>1, <3>3
    <3>5. SubSeq(b, x, x) = <<b[x]>>
      <4> DEFINE q == SubSeq(b, x, x)
      <4>1. x - 1 \in Nat /\ x - 1 <= Len(b) /\ (x - 1) + 1 = x /\ Len(b) - (x - 1) = 1
        BY <1>1
      <4>2. /\ q \in Seq(S) /\ Len(q) = 1 /\ \A i \in 1 .. 1 : q[i] = b[(x - 1) + i]
        BY <4>1, CutFront
      <4>3. q[1] = b[x]
        BY <4>1, <4>2
      <4> HIDE DEF q
      <4>4. q = <<b[x]>>
        BY <4>2, <4>3
      <4>5. QED
        BY <4>4 DEF q
    <3>6. d \in 1 .. d /\ d <= Len(b) /\ Resynced(b) = SubSeq(b, d + 1, Len(b))
      BY <1>1, <3>2, <3>4, <3>5
    <3>7. QED
      BY <3>6
  <2>3. CASE ~(x > 1 /\ b[x].t = "magic0")
    <3>1. Last(b) = b[x]
      BY DEF Last
    <3>2. Resynced(b) = <<>>
      BY <1>3, <2>3, <3>1 DEF Resynced
    <3>3. x <= d
      <4>1. d + 1 <= x => x = d + 1
        BY <1>1, <2>1
      <4>2. QED
        BY <1>1, <2>3, <4>1
    <3>4. SubSeq(b, x + 1, x) = <<>>
      BY <1>1
    <3>5. x \in 1 .. d /\ x <= Len(b) /\ Resynced(b) = SubSeq(b, x + 1, Len(b))
      BY <1>1, <3>2, <3>3, <3>4
    <3>6. QED
      BY <3>5
  <2>4. QED
    BY <2>2, <2>3
<1>4. QED
  BY <1>2, <1>3

\* What comes first of some bytes.
Begins(b, r) == Len(b) <= Len(r) /\ \A i \in 1 .. Len(b) : r[i] = b[i]

\* A header where frame n starts.
LEMMA StartIs ==
  ASSUME NEW s \in Scripts, NEW S, NEW b \in Seq(S), NEW r, NEW d \in Nat,
         NEW n \in 1 .. Len(s.frames) + 1,
         SentFrom(s, r, d, n), Begins(b, r)
  PROVE  /\ d < Len(b) => n \in 1 .. Len(s.frames)
         /\ d + 1 <= Len(b) => b[d + 1].t = "magic0"
         /\ d + 2 <= Len(b) => b[d + 2].t = "magic1"
         /\ d + 3 <= Len(b) => /\ HeaderAt(b, d + 1)
                               /\ b[d + 3].seq = (FirstSeq + n - 1) % Modulus
<1> DEFINE x == Len(b)
           N == Len(s.frames)
<1>1. x \in Nat /\ N \in Nat
  BY LengthsAre
<1>2. CASE n \in 1 .. N
  <2>1. Holds(s, r, d, n)
    BY <1>2, NextIs
  <2>2. /\ Framed(s, n)[1].t = "magic0" /\ Framed(s, n)[2].t = "magic1"
        /\ Framed(s, n)[3].t = "rest"
        /\ Framed(s, n)[3].seq = (FirstSeq + n - 1) % Modulus
    BY <1>2, HeaderSays
  <2>3. 1 \in 1 .. Len(Framed(s, n)) /\ 2 \in 1 .. Len(Framed(s, n))
        /\ 3 \in 1 .. Len(Framed(s, n))
    BY <1>2, LengthsAre
  <2>4. /\ r[d + 1].t = "magic0" /\ r[d + 2].t = "magic1" /\ r[d + 3].t = "rest"
        /\ r[d + 3].seq = (FirstSeq + n - 1) % Modulus
    BY <2>1, <2>2, <2>3 DEF Holds
  <2>5. \A k \in 1 .. 3 : d + k <= x => d + k \in 1 .. x
    BY <1>1
  <2>6. \A k \in 1 .. 3 : d + k <= x => r[d + k] = b[d + k]
    BY <2>5 DEF Begins
  <2>7. /\ d + 1 <= x => b[d + 1].t = "magic0"
        /\ d + 2 <= x => b[d + 2].t = "magic1"
        /\ d + 3 <= x => b[d + 3].t = "rest"
        /\ d + 3 <= x => b[d + 3].seq = (FirstSeq + n - 1) % Modulus
    BY <2>4, <2>6
  <2>8. ASSUME d + 3 <= x PROVE HeaderAt(b, d + 1)
    <3>1. d + 1 <= x /\ d + 2 <= x /\ (d + 1) + 1 = d + 2 /\ (d + 1) + 2 = d + 3
      BY <1>1, <2>8
    <3>2. QED
      BY <2>7, <2>8, <3>1 DEF HeaderAt, MagicAt
  <2>9. QED
    BY <1>2, <2>7, <2>8
<1>3. CASE n \notin 1 .. N
  <2>1. n = N + 1
    BY <1>1, <1>3
  <2>2. Len(r) = d
    <3>1. Start(s, n) = Len(Sent(s)) /\ Len(Sent(s)) \in Nat
      BY <2>1, Layout
    <3>2. Len(r) = d + Len(Sent(s)) - Len(Sent(s))
      BY <3>1 DEF SentFrom
    <3>3. QED
      BY <3>1, <3>2
  <2>3. x <= d
    BY <2>2 DEF Begins
  <2>4. ~(d < x) /\ ~(d + 1 <= x) /\ ~(d + 2 <= x) /\ ~(d + 3 <= x)
    BY <1>1, <2>3
  <2>5. QED
    BY <2>4
<1>4. QED
  BY <1>2, <1>3

\* How a stream goes on when nothing of a frame is lost before frame n.
Junk(s, r, d, n) ==
  /\ SentFrom(s, r, d, n)
  /\ \A i \in 2 .. d : r[i].t # "magic0"
  /\ d >= 1 => ~HeaderAt(r, 1)

\* To resynchronize in bytes that are nothing takes some of them, and no more.
LEMMA JunkResynced ==
  ASSUME NEW s \in Scripts, NEW S, NEW b \in Seq(S), NEW w \in Seq(S), b # <<>>,
         NEW d \in Nat, d >= 1, NEW n \in 1 .. Len(s.frames) + 1,
         SentFrom(s, b \o w, d, n), \A i \in 2 .. d : (b \o w)[i].t # "magic0"
  PROVE  \E k \in 1 .. d : Junk(s, Resynced(b) \o w, d - k, n)
<1> DEFINE r == b \o w
           x == Len(b)
<1>1. x \in Nat /\ 0 \in Nat /\ 0 <= x
  OBVIOUS
<1>2. /\ Len(r) = x + Len(w) /\ Len(w) \in Nat /\ \A i \in 1 .. x : r[i] = b[i]
  BY JoinedIs
<1>3. Begins(b, r)
  <2> HIDE DEF r
  <2>1. QED
    BY <1>1, <1>2 DEF Begins
<1>4. SentFrom(s, r, d, n) /\ \A i \in 2 .. d : r[i].t # "magic0"
  OBVIOUS
<1> HIDE DEF r
<1>5. \A i \in 2 .. d : i <= Len(b) => b[i].t # "magic0"
  <2>1. \A i \in 2 .. d : i <= x => i \in 1 .. x
    BY <1>1
  <2>2. QED
    BY <1>2, <1>4, <2>1
<1>6. /\ d + 1 <= Len(b) => b[d + 1].t = "magic0"
      /\ d + 2 <= Len(b) => b[d + 2].t = "magic1"
  BY <1>3, <1>4, StartIs
<1>7. PICK k \in 1 .. d : k <= Len(b) /\ Resynced(b) = SubSeq(b, k + 1, Len(b))
  BY <1>5, <1>6, ResyncIs
<1> DEFINE q == Resynced(b) \o w
<1>8. Gone(r, k, q)
  <2>1. k \in Nat /\ k <= Len(b)
    BY <1>7
  <2>2. Gone(b \o w, k, SubSeq(b, k + 1, Len(b)) \o w)
    BY <2>1, CutBoth
  <2>3. QED
    BY <1>7, <2>2, Zenon DEF r
<1> HIDE DEF q
<1>9. SentFrom(s, q, d - k, n)
  <2>1. k \in 0 .. d
    OBVIOUS
  <2>2. QED
    BY <1>4, <1>8, <2>1, GoneIs
<1>10. ASSUME NEW i \in 1 .. d - k PROVE q[i].t # "magic0"
  <2>1. d <= Len(r) /\ Len(r) \in Int
    <3> DEFINE y == Start(s, n)
               z == Len(Sent(s))
    <3>1. y \in Nat /\ z \in Nat /\ y <= z
      BY LengthsAre
    <3>2. Len(r) = d + z - y
      BY <1>4 DEF SentFrom
    <3> HIDE DEF y, z
    <3>3. QED
      BY <3>1, <3>2
  <2>2. k + i \in 2 .. d /\ i \in 1 .. Len(r) - k
    BY <2>1
  <2>3. q[i] = r[k + i]
    BY <1>8, <2>2 DEF Gone
  <2>4. QED
    BY <1>4, <2>2, <2>3
<1>11. d - k >= 1 => ~HeaderAt(q, 1)
  <2>1. SUFFICES ASSUME d - k >= 1 PROVE q[1].t # "magic0"
    BY DEF HeaderAt, MagicAt
  <2>2. 1 \in 1 .. d - k
    BY <2>1
  <2>3. QED
    BY <1>10, <2>2
<1>12. Junk(s, q, d - k, n)
  <2>1. \A i \in 2 .. d - k : i \in 1 .. d - k
    OBVIOUS
  <2>2. QED
    BY <1>9, <1>10, <1>11, <2>1 DEF Junk
<1>13. QED
  BY <1>12 DEF q

\* Sequences that agree everywhere are equal.
LEMMA SequencesEqual ==
  ASSUME NEW T, NEW p \in Seq(T), NEW q \in Seq(T), Len(p) = Len(q),
         \A i \in 1 .. Len(p) : p[i] = q[i]
  PROVE  p = q
  OBVIOUS

\* The kind a frame's header names.
KindOf(s, n) ==
  IF s.frames[n].kind \in {"LONG", "CHANCE"} THEN "PACKET" ELSE s.frames[n].kind

\* A frame's header at the head of the buffer.
LEMMA HeadRead ==
  ASSUME NEW s \in Scripts, NEW b, NEW n \in 1 .. Len(s.frames), Len(b) \in Nat, Len(b) >= 3,
         \A i \in 1 .. 3 : b[i] = Framed(s, n)[i]
  PROVE  /\ HeaderAt(b, 1) /\ End(b) = Len(Framed(s, n))
         /\ b[3].seq = (FirstSeq + n - 1) % Modulus /\ b[3].kind = KindOf(s, n)
<1> DEFINE l == Len(Payload(n, s.frames[n], s.heard))
<1>1. /\ b[1] = [t |-> "magic0", f |-> n] /\ b[2] = [t |-> "magic1", f |-> n]
      /\ b[3].t = "rest" /\ b[3].len = l
      /\ b[3].seq = (FirstSeq + n - 1) % Modulus /\ b[3].kind = KindOf(s, n)
      /\ l \in Nat /\ Len(Framed(s, n)) = 3 + l
  <2>1. /\ Framed(s, n)[1] = [t |-> "magic0", f |-> n]
        /\ Framed(s, n)[2] = [t |-> "magic1", f |-> n]
        /\ Framed(s, n)[3].t = "rest" /\ Framed(s, n)[3].len = l
        /\ Framed(s, n)[3].seq = (FirstSeq + n - 1) % Modulus
        /\ Framed(s, n)[3].kind = KindOf(s, n)
        /\ l \in Nat /\ Len(Framed(s, n)) = 3 + l
    BY HeaderIs DEF KindOf
  <2>2. b[1] = Framed(s, n)[1] /\ b[2] = Framed(s, n)[2] /\ b[3] = Framed(s, n)[3]
    OBVIOUS
  <2>3. QED
    BY <2>1, <2>2
<1>2. b[1].t = "magic0" /\ b[2].t = "magic1"
  BY <1>1
<1>3. HeaderAt(b, 1)
  BY <1>1, <1>2 DEF HeaderAt, MagicAt
<1>4. End(b) = Len(Framed(s, n))
  BY <1>1 DEF End, HEADER_LEN
<1>5. QED
  BY <1>1, <1>3, <1>4

\* The frame at the head of the buffer, when all of it is there.
LEMMA TakenIs ==
  ASSUME NEW s \in Scripts, NEW b \in Seq(TokensOf(Len(s.heard))), NEW r,
         NEW n \in 1 .. Len(s.frames), Holds(s, r, 0, n), Begins(b, r)
  PROVE  /\ Len(b) >= 3 => /\ HeaderAt(b, 1) /\ End(b) = Len(Framed(s, n))
                           /\ b[3].seq = (FirstSeq + n - 1) % Modulus
         /\ Len(b) >= Len(Framed(s, n)) =>
              /\ Whole(b) /\ HeadFrame(b).kind = KindOf(s, n)
              /\ HeadFrame(b).payload = Payload(n, s.frames[n], s.heard)
<1> DEFINE e == Len(Framed(s, n))
           x == Len(b)
           T == TokensOf(Len(s.heard))
<1>1. x \in Nat /\ e \in Nat /\ e >= 3
  BY LengthsAre
<1>2. \A i \in 1 .. e : i <= x => b[i] = Framed(s, n)[i]
  <2>1. \A i \in 1 .. e : 0 + i = i /\ r[0 + i] = Framed(s, n)[i]
    BY DEF Holds
  <2>2. \A i \in 1 .. e : i <= x => i \in 1 .. x
    BY <1>1
  <2>3. \A i \in 1 .. x : r[i] = b[i]
    BY DEF Begins
  <2> HIDE DEF e, x
  <2>4. QED
    BY <2>1, <2>2, <2>3
<1>3. ASSUME x >= 3
      PROVE  /\ HeaderAt(b, 1) /\ End(b) = e
             /\ b[3].seq = (FirstSeq + n - 1) % Modulus /\ b[3].kind = KindOf(s, n)
  <2>1. \A i \in 1 .. 3 : b[i] = Framed(s, n)[i]
    <3> HIDE DEF e, x
    <3>1. \A i \in 1 .. 3 : i \in 1 .. e /\ i <= x
      BY <1>1, <1>3
    <3>2. QED
      BY <1>2, <3>1
  <2>2. QED
    BY <1>1, <1>3, <2>1, HeadRead
<1>4. ASSUME x >= e
      PROVE  /\ Whole(b) /\ HeadFrame(b).kind = KindOf(s, n)
             /\ HeadFrame(b).payload = Payload(n, s.frames[n], s.heard)
  <2>1. x >= 3
    BY <1>1, <1>4
  <2>2. HeaderAt(b, 1) /\ End(b) = e /\ b[3].kind = KindOf(s, n)
    BY <1>3, <2>1
  <2>3. Whole(b)
    BY <1>4, <2>2 DEF Whole
  <2> DEFINE p == Payload(n, s.frames[n], s.heard)
             q == SubSeq(b, 4, e)
  <2>4. p \in Seq(T) /\ Len(p) \in Nat
    BY PayloadIs
  <2>5. e = 3 + Len(p) /\ \A i \in 1 .. Len(p) : Framed(s, n)[3 + i] = p[i]
    <3>1. e = 3 + Len(p)
      BY HeaderIs
    <3>2. \A i \in 1 .. Len(p) : Framed(s, n)[3 + i] = p[i]
      BY PayloadFollows
    <3>3. QED
      BY <3>1, <3>2
  <2>6. HeadFrame(b).kind = KindOf(s, n) /\ HeadFrame(b).payload = q
    <3> HIDE DEF e
    <3>1. HEADER_LEN + 1 = 4
      BY DEF HEADER_LEN
    <3>2. /\ HeadFrame(b).kind = b[3].kind
          /\ HeadFrame(b).payload = SubSeq(b, HEADER_LEN + 1, End(b))
      BY DEF HeadFrame
    <3>3. SubSeq(b, HEADER_LEN + 1, End(b)) = SubSeq(b, 4, e)
      BY <2>2, <3>1
    <3>4. QED
      BY <2>2, <3>2, <3>3
  <2> HIDE DEF p, e
  <2>7. q \in Seq(T) /\ Len(q) = Len(p) /\ \A i \in 1 .. Len(p) : q[i] = b[3 + i]
    <3>1. \A i \in 4 .. e : b[i] \in T
      BY <1>1, <1>4
    <3>2. 4 \in Int /\ e \in Int /\ 4 <= e + 1
      BY <1>1
    <3>3. /\ q \in Seq(T) /\ Len(q) = (IF 4 <= e THEN e - 4 + 1 ELSE 0)
          /\ \A i \in 1 .. e - 4 + 1 : q[i] = b[4 + i - 1]
      BY <3>1, <3>2, SubSeqProperties
    <3> HIDE DEF q
    <3>4. \A i \in 1 .. Len(p) : i \in 1 .. e - 4 + 1 /\ 4 + i - 1 = 3 + i
      BY <2>4, <2>5
    <3>5. Len(q) = Len(p)
      BY <1>1, <2>4, <2>5, <3>3
    <3>6. QED
      BY <3>3, <3>4, <3>5
  <2>8. \A i \in 1 .. Len(p) : q[i] = p[i]
    <3> HIDE DEF q
    <3>1. \A i \in 1 .. Len(p) : 3 + i \in 1 .. e /\ 3 + i <= x
      BY <1>1, <1>4, <2>4, <2>5
    <3>2. QED
      BY <1>2, <2>5, <2>7, <3>1
  <2>9. q = p
    <3> HIDE DEF q, T
    <3>1. QED
      BY <2>4, <2>7, <2>8, SequencesEqual
  <2>10. QED
    BY <2>3, <2>6, <2>9 DEF p
<1>5. QED
  BY <1>3, <1>4

\* The board falls silent only where a frame ends.
LEMMA EdgeIs ==
  ASSUME NEW s \in Scripts, NEW S, NEW b \in Seq(S), NEW w \in Seq(S),
         NEW n \in 1 .. Len(s.frames), Holds(s, b \o w, 0, n), b # <<>>,
         IF w = <<>> THEN TRUE ELSE Last(b).f # w[1].f
  PROVE  Len(b) >= Len(Framed(s, n))
<1> DEFINE e == Len(Framed(s, n))
           x == Len(b)
           y == Len(w)
           r == b \o w
<1>1. x \in Nat /\ x >= 1 /\ y \in Nat /\ e \in Nat
  BY LengthsAre
<1>2. /\ Len(r) = x + y /\ \A i \in 1 .. x : r[i] = b[i]
      /\ \A i \in 1 .. y : r[x + i] = w[i]
  BY JoinedIs
<1>3. e <= Len(r) /\ \A i \in 1 .. e : r[i] = Framed(s, n)[i]
  <2>1. 0 + e <= Len(r) /\ \A i \in 1 .. e : r[0 + i] = Framed(s, n)[i]
    BY DEF Holds
  <2>2. 0 + e = e /\ \A i \in 1 .. e : 0 + i = i
    BY <1>1
  <2> HIDE DEF e, r
  <2>3. QED
    BY <2>1, <2>2
<1>4. \A i \in 1 .. e : Framed(s, n)[i].f = n
  BY FrameSays
<1>5. y = 0 => w = <<>>
  OBVIOUS
<1>6. Last(b) = b[x]
  BY DEF Last
<1>7. w # <<>> => Last(b).f # w[1].f
  OBVIOUS
<1> HIDE DEF e, x, y, r
<1>8. SUFFICES ASSUME x < e PROVE FALSE
  BY <1>1 DEF e, x
<1>9. y >= 1 /\ w # <<>>
  <2>1. y >= 1
    BY <1>1, <1>2, <1>3, <1>8
  <2>2. w # <<>>
    BY <2>1 DEF y
  <2>3. QED
    BY <2>1, <2>2
<1>10. x \in 1 .. x /\ 1 \in 1 .. y /\ x \in 1 .. e /\ x + 1 \in 1 .. e
  BY <1>1, <1>8, <1>9
<1>11. b[x].f = n /\ w[1].f = n
  BY <1>2, <1>3, <1>4, <1>10
<1>12. QED
  BY <1>6, <1>7, <1>9, <1>11

\* The numbers of frames, as they wrap.
LEMMA NumbersApart ==
  ASSUME NEW a \in Nat, NEW c \in Nat
  PROVE  (((a + c) % Modulus) - (a % Modulus)) % Modulus = c % Modulus
  BY DEF Modulus

\* A frame with another after it does not look as if it had lost its tail.
LEMMA NotLostTail ==
  ASSUME NEW s \in Scripts, NEW b \in Seq(TokensOf(Len(s.heard))), NEW r,
         NEW n \in 1 .. Len(s.frames), SentFrom(s, r, 0, n), Begins(b, r)
  PROVE  ~LostTail(b)
<1> SUFFICES ASSUME LostTail(b) PROVE FALSE
  OBVIOUS
<1> DEFINE e == Len(Framed(s, n))
           x == Len(b)
<1>1. x \in Nat /\ e \in Nat /\ e >= 3 /\ n + 1 \in 1 .. Len(s.frames) + 1
  BY LengthsAre
<1>2. Holds(s, r, 0, n) /\ SentFrom(s, r, e, n + 1)
  <2>1. Holds(s, r, 0, n) /\ SentFrom(s, r, 0 + e, n + 1)
    BY NextIs
  <2>2. 0 + e = e
    BY <1>1
  <2>3. QED
    BY <2>1, <2>2
<1>3. /\ Len(b) >= End(b) + 3 /\ HeaderAt(b, 1)
      /\ ~Continues(b, End(b) + 1, b[3].seq, 1)
  BY DEF LostTail, HEADER_LEN, Whole
<1>4. x >= 3
  BY <1>1, <1>3 DEF HeaderAt
<1>5. End(b) = e /\ b[3].seq = (FirstSeq + n - 1) % Modulus
  BY <1>2, <1>4, TakenIs
<1>6. HeaderAt(b, e + 1) /\ b[e + 3].seq = (FirstSeq + (n + 1) - 1) % Modulus
  <2>1. e + 3 <= Len(b)
    BY <1>1, <1>3, <1>5
  <2> HIDE DEF e
  <2>2. QED
    BY <1>1, <1>2, <2>1, StartIs
<1>7. (b[(e + 1) + 2].seq - b[3].seq) % Modulus = 1
  <2> DEFINE a == FirstSeq + n - 1
  <2>1. a \in Nat /\ 1 \in Nat /\ FirstSeq + (n + 1) - 1 = a + 1 /\ (e + 1) + 2 = e + 3
    <3>1. n \in Nat /\ n >= 1
      BY LengthsAre
    <3> HIDE DEF e
    <3>2. QED
      BY <1>1, <3>1 DEF FirstSeq
  <2> HIDE DEF a, e
  <2>2. (((a + 1) % Modulus) - (a % Modulus)) % Modulus = 1 % Modulus
    BY <2>1, NumbersApart
  <2>3. 1 % Modulus = 1
    BY DEF Modulus
  <2>4. QED
    BY <1>5, <1>6, <2>1, <2>2, <2>3 DEF a
<1>8. Continues(b, e + 1, b[3].seq, 1)
  BY <1>6, <1>7 DEF Continues
<1>9. QED
  BY <1>3, <1>5, <1>8

-----------------------------------------------------------------------------
(* A run of bytes lost.                                                    *)

\* The i-th byte after the first m of frame a: neither a frame's first, nor the
\* one after them in a header.
Alien(s, a, m, i, byte) ==
  byte.t # "magic0" /\ (i = 1 /\ m \in {1, 2} => byte.t # Framed(s, a)[m + 1].t)

\* Frames n up to a are next, but of a only m bytes; then t bytes of another, and
\* what was sent after frame z.
Torn(s, r, n, a, m, t, z) ==
  LET d == Start(s, a) + m - Start(s, n)
  IN  /\ SentFrom(s, r, d + t, z + 1)
      /\ \A i \in 1 .. d : r[i] = Sent(s)[Start(s, n) + i]
      /\ \A i \in 1 .. t : Alien(s, a, m, i, r[d + i])

\* Frames before the torn one are whole.
LEMMA TornAhead ==
  ASSUME NEW s \in Scripts, NEW r, NEW n \in 1 .. Len(s.frames),
         NEW a \in 1 .. Len(s.frames), n < a, NEW z \in a .. Len(s.frames),
         NEW m \in 0 .. Len(Framed(s, a)) - 1, NEW t \in Nat,
         Torn(s, r, n, a, m, t, z)
  PROVE  /\ Holds(s, r, 0, n)
         /\ \A q : Gone(r, Len(Framed(s, n)), q) => Torn(s, q, n + 1, a, m, t, z)
<1> DEFINE e == Len(Framed(s, n))
           x == Start(s, n)
           y == Start(s, n + 1)
           u == Start(s, a)
           d == u + m - x
           d2 == u + m - y
<1>1. /\ e \in Nat /\ x \in Nat /\ y \in Nat /\ u \in Nat /\ y = x + e /\ y <= u /\ m \in Nat
      /\ z + 1 \in 1 .. Len(s.frames) + 1 /\ n + 1 \in 1 .. Len(s.frames) + 1
  <2>1. /\ e \in Nat /\ x \in Nat /\ y \in Nat /\ u \in Nat /\ y = x + e
        /\ n + 1 \in 1 .. Len(s.frames) + 1 /\ a \in 1 .. Len(s.frames) + 1
        /\ Len(s.frames) \in Nat
    BY LengthsAre
  <2>2. y + 3 * (a - (n + 1)) <= u
    BY <2>1, StartsInOrder, SMTT(30)
  <2> HIDE DEF e, x, y, u
  <2>3. y <= u
    BY <2>1, <2>2
  <2>4. z + 1 \in 1 .. Len(s.frames) + 1
    BY <2>1
  <2>5. QED
    BY <2>1, <2>3, <2>4
<1>2. /\ SentFrom(s, r, d + t, z + 1) /\ \A i \in 1 .. d : r[i] = Sent(s)[x + i]
      /\ \A i \in 1 .. t : Alien(s, a, m, i, r[d + i])
  BY DEF Torn
<1>3. \A i \in 1 .. e : Sent(s)[x + i] = Framed(s, n)[i]
  BY Layout
<1>4. d \in Nat /\ e <= d /\ d2 = d - e /\ d2 \in Nat
  <2> HIDE DEF e, x, y, u
  <2>1. QED
    BY <1>1
<1>5. d <= Len(r)
  <2> DEFINE v == Start(s, z + 1)
             l == Len(Sent(s))
  <2>1. v \in Nat /\ l \in Nat /\ v <= l
    BY <1>1, LengthsAre
  <2>2. Len(r) = (d + t) + l - v
    BY <1>2 DEF SentFrom
  <2> HIDE DEF d, v, l
  <2>3. QED
    BY <1>4, <2>1, <2>2
<1>6. Holds(s, r, 0, n)
  <2> HIDE DEF d, x
  <2>1. \A i \in 1 .. e : i \in 1 .. d /\ 0 + i = i
    BY <1>1, <1>4
  <2>2. \A i \in 1 .. e : r[0 + i] = Framed(s, n)[i]
    BY <1>2, <1>3, <2>1
  <2>3. 0 + e <= Len(r)
    <3>1. Len(r) \in Int
      <4>1. Len(r) = (d + t) + Len(Sent(s)) - Start(s, z + 1)
        BY <1>2 DEF SentFrom
      <4>2. Len(Sent(s)) \in Int /\ Start(s, z + 1) \in Int
        BY <1>1, LengthsAre
      <4>3. QED
        BY <1>4, <4>1, <4>2
    <3> HIDE DEF e
    <3>2. QED
      BY <1>1, <1>4, <1>5, <3>1
  <2>4. QED
    BY <2>2, <2>3 DEF Holds
<1>7. ASSUME NEW q, Gone(r, e, q) PROVE Torn(s, q, n + 1, a, m, t, z)
  <2> HIDE DEF d, d2
  <2>1. e \in 0 .. d + t /\ d + t \in Nat
    BY <1>1, <1>4
  <2>2. SentFrom(s, q, (d - e) + t, z + 1)
    <3> HIDE DEF e
    <3>1. SentFrom(s, q, (d + t) - e, z + 1)
      BY <1>1, <1>2, <1>7, <2>1, GoneIs
    <3>2. (d + t) - e = (d - e) + t
      BY <1>1, <1>4
    <3>3. QED
      BY <3>1, <3>2
  <2>3. ASSUME NEW i \in 1 .. d2 PROVE q[i] = Sent(s)[y + i]
    <3>1. Len(r) \in Int
      <4>1. Len(r) = (d + t) + Len(Sent(s)) - Start(s, z + 1)
        BY <1>2 DEF SentFrom
      <4>2. Len(Sent(s)) \in Int /\ Start(s, z + 1) \in Int
        BY <1>1, LengthsAre
      <4>3. QED
        BY <1>4, <4>1, <4>2
    <3>2. q[i] = r[e + i]
      <4> HIDE DEF e
      <4>1. i \in 1 .. Len(r) - e
        BY <1>1, <1>4, <1>5, <3>1
      <4>2. QED
        BY <1>7, <4>1 DEF Gone
    <3>3. e + i \in 1 .. d /\ x + (e + i) = y + i
      <4> HIDE DEF e, x, y
      <4>1. QED
        BY <1>1, <1>4
    <3>4. r[e + i] = Sent(s)[x + (e + i)]
      BY <1>2, <3>3
    <3>5. QED
      BY <3>2, <3>3, <3>4
  <2>4. ASSUME NEW i \in 1 .. t PROVE Alien(s, a, m, i, q[d2 + i])
    <3>1. Len(r) \in Int /\ d + t <= Len(r)
      <4> DEFINE v == Start(s, z + 1)
                 l == Len(Sent(s))
      <4>1. v \in Nat /\ l \in Nat /\ v <= l
        BY <1>1, LengthsAre
      <4>2. Len(r) = (d + t) + l - v
        BY <1>2 DEF SentFrom
      <4> HIDE DEF v, l
      <4>3. QED
        BY <1>4, <4>1, <4>2
    <3>2. q[d2 + i] = r[e + (d2 + i)]
      <4> DEFINE l == Len(r)
      <4>0. l \in Int /\ d + t <= l
        BY <3>1
      <4> HIDE DEF e, l
      <4>1. d2 + i \in 1 .. l - e
        BY <1>1, <1>4, <4>0
      <4>2. QED
        BY <1>7, <4>1 DEF Gone, l
    <3>3. e + (d2 + i) = d + i
      <4> HIDE DEF e
      <4>1. QED
        BY <1>1, <1>4
    <3>4. Alien(s, a, m, i, r[d + i])
      BY <1>2
    <3>5. QED
      BY <3>2, <3>3, <3>4
  <2>5. SentFrom(s, q, d2 + t, z + 1)
    BY <1>4, <2>2
  <2>6. QED
    BY <2>3, <2>4, <2>5 DEF Torn, d2
<1>8. QED
  BY <1>6, <1>7

\* Too little of the torn frame is left for a header.
LEMMA TornShort ==
  ASSUME NEW s \in Scripts, NEW S, NEW r \in Seq(S), NEW n \in 1 .. Len(s.frames),
         NEW z \in n .. Len(s.frames), NEW m \in 0 .. 2, NEW t \in Nat,
         Torn(s, r, n, n, m, t, z)
  PROVE  Junk(s, r, m + t, z + 1)
<1> DEFINE x == Start(s, n)
<1>1. /\ x \in Nat /\ z + 1 \in 1 .. Len(s.frames) + 1 /\ m \in Nat /\ x + m - x = m
      /\ m + t \in Nat
      /\ Len(Framed(s, n)) >= 3 /\ Len(Framed(s, n)) \in Nat
  <2>1. x \in Nat /\ Len(s.frames) \in Nat
    BY LengthsAre
  <2>2. Len(Framed(s, n)) >= 3 /\ Len(Framed(s, n)) \in Nat
    BY LengthsAre
  <2> HIDE DEF x
  <2>3. QED
    BY <2>1, <2>2
<1>2. /\ SentFrom(s, r, m + t, z + 1) /\ \A i \in 1 .. m : r[i] = Sent(s)[x + i]
      /\ \A i \in 1 .. t : Alien(s, n, m, i, r[m + i])
  BY <1>1 DEF Torn
<1>3. Begins(r, r)
  BY DEF Begins
<1>4. (m + t) + 1 <= Len(r) => r[(m + t) + 1].t = "magic0"
  BY <1>1, <1>2, <1>3, StartIs
<1>5. \A i \in 1 .. m : i \in 1 .. Len(Framed(s, n))
  BY <1>1
<1>6. \A i \in 1 .. m : r[i] = Framed(s, n)[i]
  BY <1>2, <1>5, Layout
<1>8. Framed(s, n)[2].t = "magic1" /\ Framed(s, n)[3].t = "rest"
  BY HeaderSays
<1>9. \A i \in 2 .. m + t : r[i].t # "magic0"
  <2> TAKE i \in 2 .. m + t
  <2>1. CASE i <= m
    <3>1. i = 2 /\ i \in 1 .. m
      BY <1>1, <2>1
    <3>2. QED
      BY <1>6, <1>8, <3>1
  <2>2. CASE i > m
    <3>1. i - m \in 1 .. t /\ m + (i - m) = i
      BY <1>1, <2>2
    <3>2. r[m + (i - m)].t # "magic0"
      BY <1>2, <3>1 DEF Alien
    <3>3. QED
      BY <3>1, <3>2
  <2>3. QED
    BY <1>1, <2>1, <2>2
<1>10. m + t >= 1 => ~HeaderAt(r, 1)
  <2>1. SUFFICES ASSUME m + t >= 1, HeaderAt(r, 1) PROVE FALSE
    OBVIOUS
  <2>2. 3 <= Len(r) /\ r[1].t = "magic0" /\ r[2].t = "magic1" /\ r[3].t = "rest"
    BY <2>1 DEF HeaderAt, MagicAt
  <2>3. CASE t = 0
    <3>1. (m + t) + 1 \in {2, 3} /\ (m + t) + 1 <= Len(r)
      BY <1>1, <2>1, <2>2, <2>3
    <3>2. QED
      BY <1>4, <2>2, <3>1
  <2>4. CASE t # 0
    <3>1. 1 \in 1 .. t
      BY <2>4
    <3>2. Alien(s, n, m, 1, r[m + 1])
      BY <1>2, <3>1
    <3>3. CASE m = 0
      BY <2>2, <3>2, <3>3 DEF Alien
    <3>4. CASE m = 1
      BY <1>8, <2>2, <3>2, <3>4 DEF Alien
    <3>5. CASE m = 2
      BY <1>8, <2>2, <3>2, <3>5 DEF Alien
    <3>6. QED
      BY <3>3, <3>4, <3>5
  <2>5. QED
    BY <2>3, <2>4
<1>11. QED
  BY <1>2, <1>9, <1>10 DEF Junk

\* A frame's header, and bytes that start no other before those sent after z.
CutShort(s, r, n, m, z) ==
  /\ SentFrom(s, r, m, z + 1)
  /\ \A i \in 1 .. 3 : r[i] = Framed(s, n)[i]
  /\ \A i \in 2 .. m : r[i].t # "magic0"

\* More is left of it: a frame that is too short by its own length.
LEMMA TornCut ==
  ASSUME NEW s \in Scripts, NoChance(s), NEW r, NEW n \in 1 .. Len(s.frames),
         NEW z \in n .. Len(s.frames), NEW m \in 3 .. Len(Framed(s, n)) - 1, NEW t \in Nat,
         Torn(s, r, n, n, m, t, z)
  PROVE  CutShort(s, r, n, m + t, z)
<1> DEFINE e == Len(Framed(s, n))
           x == Start(s, n)
<1>1. e \in Nat /\ x \in Nat
  BY LengthsAre
<1>2. m \in Nat /\ m >= 3 /\ m < e /\ x + m - x = m
  <2>1. m \in 3 .. e - 1
    OBVIOUS
  <2> HIDE DEF e, x
  <2>2. QED
    BY <1>1, <2>1
<1>3. /\ SentFrom(s, r, m + t, z + 1) /\ \A i \in 1 .. m : r[i] = Sent(s)[x + i]
      /\ \A i \in 1 .. t : Alien(s, n, m, i, r[m + i])
  BY <1>2 DEF Torn
<1>4. \A i \in 1 .. m : i \in 1 .. e
  <2> HIDE DEF e
  <2>1. QED
    BY <1>1, <1>2
<1>5. \A i \in 1 .. m : r[i] = Framed(s, n)[i]
  BY <1>3, <1>4, Layout
<1>6. \A i \in 1 .. 3 : r[i] = Framed(s, n)[i]
  <2>1. \A i \in 1 .. 3 : i \in 1 .. m
    BY <1>2
  <2>2. QED
    BY <1>5, <2>1
<1>7. ASSUME NEW i \in 2 .. m + t PROVE r[i].t # "magic0"
  <2>1. CASE i <= m
    <3>1. i \in 1 .. m /\ i \in 2 .. e
      <4> HIDE DEF e
      <4>1. QED
        BY <1>1, <1>2, <2>1
    <3>2. Framed(s, n)[i].t # "magic0"
      BY <3>1, FrameSays DEF NoChance
    <3>3. QED
      BY <1>5, <3>1, <3>2
  <2>2. CASE i > m
    <3>1. i - m \in 1 .. t /\ m + (i - m) = i
      BY <1>2, <2>2
    <3>2. r[m + (i - m)].t # "magic0"
      BY <1>3, <3>1 DEF Alien
    <3>3. QED
      BY <3>1, <3>2
  <2>3. QED
    BY <1>2, <2>1, <2>2
<1>8. QED
  BY <1>3, <1>6, <1>7 DEF CutShort

\* No header inside a frame that is whole.
LEMMA NothingInside ==
  ASSUME NEW s \in Scripts, NoChance(s), NEW b \in Seq(TokensOf(Len(s.heard))), NEW r,
         NEW n \in 1 .. Len(s.frames), Holds(s, r, 0, n), Begins(b, r), Whole(b)
  PROVE  InnerHeaders(b) = {}
<1> SUFFICES ASSUME NEW p \in InnerHeaders(b) PROVE FALSE
  OBVIOUS
<1> DEFINE e == Len(Framed(s, n))
<1>1. e \in Nat /\ Len(b) \in Nat
  BY LengthsAre
<1>2. 3 <= Len(b) /\ Len(b) >= End(b)
  BY DEF Whole, HeaderAt
<1>3. End(b) = e
  BY <1>2, TakenIs
<1>4. p \in 4 .. e /\ b[p].t = "magic0"
  BY <1>3 DEF InnerHeaders, HEADER_LEN, Continues, HeaderAt, MagicAt
<1>5. p \in 1 .. e /\ p \in 2 .. e /\ p \in 1 .. Len(b) /\ 0 + p = p
  <2> HIDE DEF e
  <2>1. QED
    BY <1>1, <1>2, <1>3, <1>4
<1>6. r[0 + p] = Framed(s, n)[p] /\ r[p] = b[p]
  BY <1>5 DEF Holds, Begins
<1>7. Framed(s, n)[p].t # "magic0"
  BY <1>5, FrameSays DEF NoChance
<1>8. QED
  BY <1>4, <1>5, <1>6, <1>7

\* Numbers a few apart are so when they wrap.
LEMMA FewApart ==
  ASSUME NEW a \in Nat, NEW c \in Nat, NEW k \in 1 .. 77, c = a + k
  PROVE  ((c % Modulus) - (a % Modulus)) % Modulus = k
<1>1. k \in Nat /\ k % 65536 = k
  OBVIOUS
<1>2. (((a + k) % 65536) - (a % 65536)) % 65536 = k % 65536
  BY <1>1
<1>3. k % Modulus = k
  BY <1>1 DEF Modulus
<1>4. QED
  BY <1>1, <1>2 DEF Modulus

\* A frame torn after its header: what follows it starts inside it, by its own
\* length.
LEMMA TornInside ==
  ASSUME NEW s \in Scripts, NoChance(s), NEW b \in Seq(TokensOf(Len(s.heard))), NEW r,
         NEW n \in 1 .. Len(s.frames), NEW z \in n .. Len(s.frames),
         z + 1 - n <= Window, NEW m \in 3 .. Len(Framed(s, n)) - 1,
         CutShort(s, r, n, m, z), Begins(b, r), Whole(b)
  PROVE  /\ SentFrom(s, r, m, z + 1) /\ m \in Nat
         /\ End(b) = Len(Framed(s, n)) /\ Len(b) >= Len(Framed(s, n))
         /\ b[3].seq = (FirstSeq + n - 1) % Modulus
         /\ m + 3 <= Len(b) => m + 1 \in InnerHeaders(b)
         /\ \A p \in InnerHeaders(b) : m + 1 <= p /\ m + 3 <= Len(b)
<1> DEFINE e == Len(Framed(s, n))
           x == Start(s, n)
           l == Len(b)
<1>1. /\ e \in Nat /\ e >= 3 /\ x \in Nat /\ l \in Nat /\ n \in Nat /\ z \in Nat
      /\ z + 1 \in 1 .. Len(s.frames) + 1 /\ n <= z
  <2>1. e \in Nat /\ e >= 3 /\ x \in Nat /\ Len(s.frames) \in Nat /\ l \in Nat
    BY LengthsAre
  <2> HIDE DEF e, x, l
  <2>2. QED
    BY <2>1
<1>2. m \in Nat /\ m >= 3 /\ m < e
  <2> HIDE DEF x
  <2>1. m \in 3 .. e - 1
    OBVIOUS
  <2> HIDE DEF e
  <2>2. QED
    BY <1>1, <2>1
<1>3. SentFrom(s, r, m, z + 1)
  BY DEF CutShort
<1>4. 3 <= l /\ HeaderAt(b, 1) /\ l >= End(b)
  BY DEF Whole, HeaderAt
<1>5. /\ \A i \in 1 .. 3 : b[i] = Framed(s, n)[i]
      /\ \A i \in 2 .. m : i <= l => b[i].t # "magic0"
  <2>1. \A i \in 1 .. l : r[i] = b[i]
    BY DEF Begins
  <2>2. \A i \in 1 .. 3 : i \in 1 .. l
    BY <1>1, <1>4
  <2>3. \A i \in 2 .. m : i <= l => i \in 1 .. l
    BY <1>1, <1>2
  <2> HIDE DEF l
  <2>4. QED
    BY <2>1, <2>2, <2>3 DEF CutShort
<1>6. End(b) = e /\ b[3].seq = (FirstSeq + n - 1) % Modulus
  <2>1. Len(b) \in Nat /\ Len(b) >= 3
    BY <1>4
  <2>2. QED
    BY <1>5, <2>1, HeadRead
<1>7. ASSUME NEW p \in InnerHeaders(b) PROVE m + 1 <= p /\ m + 3 <= l
  <2>1. p \in 4 .. e /\ b[p].t = "magic0" /\ p + 2 <= l
    BY <1>6 DEF InnerHeaders, HEADER_LEN, Continues, HeaderAt, MagicAt
  <2>2. p \in Nat /\ p >= 4 /\ p <= e
    <3> HIDE DEF e
    <3>1. QED
      BY <1>1, <2>1
  <2>3. ~(p <= m)
    <3>1. SUFFICES ASSUME p <= m PROVE FALSE
      OBVIOUS
    <3>2. p \in 2 .. m /\ p <= l
      <4> HIDE DEF e, l
      <4>1. QED
        BY <1>1, <1>2, <2>1, <2>2, <3>1
    <3>3. QED
      BY <1>5, <2>1, <3>2
  <2>4. m \in Nat /\ l \in Nat
    BY <1>1, <1>2
  <2> HIDE DEF e, l
  <2>5. m + 1 <= p
    BY <2>2, <2>3, <2>4
  <2>6. QED
    BY <2>1, <2>2, <2>4, <2>5
<1>8. ASSUME m + 3 <= l PROVE m + 1 \in InnerHeaders(b)
  <2>1. HeaderAt(b, m + 1) /\ b[m + 3].seq = (FirstSeq + (z + 1) - 1) % Modulus
    BY <1>1, <1>2, <1>3, <1>8, StartIs, SMTT(30)
  <2> DEFINE u == FirstSeq + n - 1
             k == z + 1 - n
  <2>2. u \in Nat /\ k \in 1 .. 64 /\ FirstSeq + (z + 1) - 1 = u + k
    <3>1. n >= 1
      OBVIOUS
    <3>2. z + 1 - n <= 64
      BY DEF Window
    <3>3. QED
      BY <1>1, <3>1, <3>2 DEF FirstSeq
  <2>2a. u + k \in Nat /\ k \in 1 .. 77
    BY <2>2
  <2>2b. FirstSeq + (z + 1) - 1 \in Nat /\ FirstSeq + n - 1 \in Nat
         /\ FirstSeq + (z + 1) - 1 = (FirstSeq + n - 1) + k
    BY <2>2, <2>2a DEF u
  <2> HIDE DEF u, k
  <2>3. (((FirstSeq + (z + 1) - 1) % Modulus) - ((FirstSeq + n - 1) % Modulus)) % Modulus = k
    BY <2>2a, <2>2b, FewApart, SMTT(30)
  <2>4. (b[m + 3].seq - b[3].seq) % Modulus = k
    BY <1>6, <2>1, <2>3
  <2>5. (m + 1) + 2 = m + 3
    BY <1>2
  <2>5a. (b[(m + 1) + 2].seq - b[3].seq) % Modulus \in 1 .. 64
    BY <2>2, <2>4, <2>5
  <2>6. Continues(b, m + 1, b[3].seq, Window)
    BY <2>1, <2>5a DEF Continues, Window
  <2>7. m + 1 \in 4 .. e
    <3> HIDE DEF e
    <3>1. QED
      BY <1>1, <1>2
  <2>8. QED
    BY <1>6, <2>6, <2>7 DEF InnerHeaders, HEADER_LEN
<1>9. QED
  BY <1>2, <1>3, <1>4, <1>6, <1>7, <1>8

\* What is read ends inside the header after z, with k bytes of it or more.
EndsAmid(s, k, z, w) ==
  LET read == Len(Sent(s)) - Start(s, z + 1) - Len(w)
  IN  k <= read /\ read < HEADER_LEN

\* So it is never delivered, but for a read that ends there.
LEMMA TornIsTold ==
  ASSUME NEW s \in Scripts, NoChance(s), NEW b \in Seq(TokensOf(Len(s.heard))),
         NEW w \in Seq(TokensOf(Len(s.heard))),
         NEW n \in 1 .. Len(s.frames), NEW z \in n .. Len(s.frames),
         z + 1 - n <= Window, NEW m \in 3 .. Len(Framed(s, n)) - 1,
         CutShort(s, b \o w, n, m, z), Delivers(b),
         ~EndsAmid(s, Len(Framed(s, n)) - m, z, w)
  PROVE  FALSE
<1> DEFINE e == Len(Framed(s, n))
           l == Len(b)
           y == Len(w)
           r == b \o w
           h == Start(s, z + 1)
           L == Len(Sent(s))
           N == Len(s.frames)
<1>1. /\ e \in Nat /\ e <= 36 /\ l \in Nat /\ y \in Nat /\ h \in Nat /\ L \in Nat /\ h <= L
      /\ N \in Nat /\ n \in Nat /\ n >= 1 /\ z \in Nat /\ n <= z /\ z + 1 \in 1 .. N + 1
  <2>1. e \in Nat /\ e <= 36 /\ N \in Nat /\ l \in Nat /\ y \in Nat /\ L \in Nat
    BY LengthsAre, SMTT(30)
  <2>2. n \in Nat /\ n >= 1 /\ z \in Nat /\ n <= z /\ z + 1 \in 1 .. N + 1
    <3> HIDE DEF e, l, y
    <3>1. N \in Nat /\ n \in 1 .. N /\ z \in n .. N
      BY <2>1
    <3> HIDE DEF N
    <3>2. QED
      BY <3>1
  <2>3. h \in Nat /\ h <= L
    BY <2>2, LengthsAre
  <2>4. QED
    BY <2>1, <2>2, <2>3
<1>2. /\ Len(r) = l + y /\ \A i \in 1 .. l : r[i] = b[i]
      /\ \A i \in 1 .. y : r[l + i] = w[i]
  BY JoinedIs
<1>3. Begins(b, r)
  <2> HIDE DEF r
  <2>1. QED
    BY <1>1, <1>2 DEF Begins
<1>4. Whole(b) /\ ~Undecided(b) /\ ~LostTail(b)
  BY DEF Delivers
<1>5. /\ SentFrom(s, r, m, z + 1) /\ m \in Nat
      /\ End(b) = e /\ l >= e /\ b[3].seq = (FirstSeq + n - 1) % Modulus
      /\ m + 3 <= l => m + 1 \in InnerHeaders(b)
  BY <1>3, <1>4, TornInside
<1>6. m < e
  <2>1. m \in 3 .. e - 1
    OBVIOUS
  <2> HIDE DEF e
  <2>2. QED
    BY <1>1, <2>1
<1> HIDE DEF e, l, y, r
<1>7. /\ m \in Nat /\ l \in Nat /\ y \in Nat /\ h \in Nat /\ L \in Nat /\ e \in Nat
      /\ l >= e /\ m < e /\ h <= L
  BY <1>1, <1>5, <1>6
\* The next frame's header is wholly there.
<1>9. m + 3 <= l
  <2>1. l + y = m + L - h
    BY <1>2, <1>5 DEF SentFrom, L, h
  <2>2. ~(e - m <= (L - h) - y /\ (L - h) - y < 3)
    BY DEF EndsAmid, HEADER_LEN, e, L, h, y
  <2> HIDE DEF L, h
  <2>3. (L - h) - y = l - m
    BY <1>7, <2>1
  <2>4. e - m <= l - m /\ (l - m < 3 \/ m + 3 <= l)
    BY <1>7
  <2>5. QED
    BY <2>2, <2>3, <2>4
\* What is where the frame says it ends would have to be the very next one.
<1>10. /\ e + 3 <= l /\ HeaderAt(b, e + 1)
       /\ (b[(e + 1) + 2].seq - b[3].seq) % Modulus \in 1 .. 1
  <2>1. InnerHeaders(b) # {}
    BY <1>5, <1>9
  <2>2. ~(l < e + 3)
    BY <1>4, <1>5, <2>1 DEF Undecided, HEADER_LEN, l
  <2>3. e + 3 <= l
    BY <1>1, <2>2
  <2>4. Continues(b, e + 1, b[3].seq, 1)
    BY <1>4, <1>5, <2>1, <2>3 DEF LostTail, HEADER_LEN, l
  <2>5. QED
    BY <2>3, <2>4 DEF Continues
<1>11. b[e + 1].t = "magic0" /\ e + 1 \in 1 .. l /\ e + 3 \in 1 .. l
  BY <1>1, <1>10 DEF HeaderAt, MagicAt
<1> DEFINE k == h + (e + 1 - m)
<1>12. Len(r) = m + L - h /\ \A i \in 1 .. L - h : r[m + i] = Sent(s)[h + i]
  BY <1>5 DEF SentFrom
<1>13. /\ e + 1 - m \in 1 .. L - h /\ e + 3 - m \in 1 .. L - h
       /\ m + (e + 1 - m) = e + 1 /\ m + (e + 3 - m) = e + 3
       /\ k \in 1 .. L /\ h + (e + 3 - m) = k + 2
  <2>1. l + y = m + L - h
    BY <1>2, <1>12
  <2>2. e + 3 <= l
    BY <1>10
  <2> HIDE DEF h, L
  <2>3. QED
    BY <1>7, <2>1, <2>2
<1>14. Sent(s)[k] = b[e + 1] /\ Sent(s)[k + 2] = b[e + 3]
  <2> HIDE DEF h, L
  <2>1. r[m + (e + 1 - m)] = Sent(s)[h + (e + 1 - m)]
        /\ r[m + (e + 3 - m)] = Sent(s)[h + (e + 3 - m)]
    BY <1>12, <1>13
  <2>2. r[e + 1] = b[e + 1] /\ r[e + 3] = b[e + 3]
    BY <1>2, <1>11
  <2>3. QED
    BY <1>13, <2>1, <2>2
<1>15. PICK g \in 1 .. N : k = Start(s, g) + 1
  <2>1. Sent(s)[k].t = "magic0" /\ k \in 1 .. Len(Sent(s))
    BY <1>11, <1>13, <1>14
  <2> HIDE DEF k
  <2>2. QED
    BY <2>1, MagicStarts
<1>16. b[e + 3].seq = (FirstSeq + g - 1) % Modulus
  <2>1. 3 \in 1 .. Len(Framed(s, g))
    BY LengthsAre
  <2>2. Sent(s)[Start(s, g) + 3] = Framed(s, g)[3]
    BY <2>1, Layout
  <2>3. k + 2 = Start(s, g) + 3
    <3> DEFINE t == Start(s, g)
    <3>1. t \in Nat
      BY LengthsAre
    <3> HIDE DEF t, k
    <3>2. k = t + 1
      BY <1>15 DEF t
    <3>3. k + 2 = t + 3
      BY <3>1, <3>2
    <3>4. QED
      BY <3>3 DEF t
  <2>4. QED
    BY <1>14, <2>2, <2>3, HeaderSays
<1>17. g \in Nat /\ g >= z + 2 /\ g <= z + 13
  <2> DEFINE t == Start(s, g)
  <2>1. g \in Nat /\ g >= 1 /\ g \in 1 .. N + 1 /\ t \in Nat
    BY LengthsAre, SMTT(30)
  <2>2. g <= z + 1 => t + 3 * (z + 1 - g) <= h
    BY <1>1, <2>1, StartsInOrder
  <2>3. z + 1 <= g => h + 3 * (g - (z + 1)) <= t
    BY <1>1, <2>1, StartsInOrder
  <2>4. t + 1 = h + (e + 1 - m)
    BY <1>15
  <2>4a. h \in Nat /\ e \in Nat /\ e <= 36 /\ m \in Nat /\ m < e /\ m >= 0 /\ t \in Nat
    BY <1>1, <1>5, <1>6, <2>1
  <2> HIDE DEF t, h, k, N, L
  <2>5. t = h + (e - m) /\ e - m >= 1 /\ e - m <= 36
    BY <2>4, <2>4a
  <2>6. ~(g <= z + 1)
    BY <1>1, <2>1, <2>2, <2>5
  <2>7. 3 * (g - (z + 1)) <= 36
    BY <1>1, <2>1, <2>3, <2>5, <2>6
  <2>8. QED
    BY <1>1, <2>1, <2>6, <2>7
<1>18. (((FirstSeq + g - 1) % Modulus) - ((FirstSeq + n - 1) % Modulus)) % Modulus = 1
  <2>1. (e + 1) + 2 = e + 3
    BY <1>1
  <2>2. (b[(e + 1) + 2].seq - b[3].seq) % Modulus = 1
    <3> DEFINE v == (b[(e + 1) + 2].seq - b[3].seq) % Modulus
    <3>1. v \in 1 .. 1
      BY <1>10
    <3> HIDE DEF v
    <3>2. v = 1
      BY <3>1
    <3>3. QED
      BY <3>2 DEF v
  <2>3. (b[e + 3].seq - b[3].seq) % Modulus = 1
    BY <2>1, <2>2
  <2>4. b[3].seq = (FirstSeq + n - 1) % Modulus
    BY <1>5
  <2>5. QED
    BY <1>16, <2>3, <2>4
<1> DEFINE j == g - n
<1>19. /\ FirstSeq + n - 1 \in Nat /\ FirstSeq + g - 1 \in Nat
       /\ j \in 2 .. 77 /\ FirstSeq + g - 1 = (FirstSeq + n - 1) + j
  <2>1. z + 1 - n <= 64
    BY DEF Window
  <2> HIDE DEF N, h, L, k
  <2>2. QED
    BY <1>1, <1>17, <2>1 DEF FirstSeq
<1> HIDE DEF j
<1>20. j \in 1 .. 77 /\ j # 1
  BY <1>19
<1>21. (((FirstSeq + g - 1) % Modulus) - ((FirstSeq + n - 1) % Modulus)) % Modulus = j
  BY <1>19, <1>20, FewApart
<1>22. QED
  BY <1>18, <1>20, <1>21

-----------------------------------------------------------------------------
(* The records of a frame that came whole.                                 *)

\* What is put together from at most one element each.
Gathered(q, ss, m) ==
  /\ \A k \in 1 .. Len(q) : \E i \in 1 .. m : ss[i] # <<>> /\ q[k] = ss[i][1]
  /\ \A k \in 2 .. Len(q) : \E i, j \in 1 .. m :
       i < j /\ ss[i] # <<>> /\ ss[j] # <<>> /\ q[k - 1] = ss[i][1] /\ q[k] = ss[j][1]
  /\ \A i \in 1 .. m : ss[i] # <<>> => \E k \in 1 .. Len(q) : q[k] = ss[i][1]

\* One more is put with what has been.
LEMMA GatheredOnwards ==
  ASSUME NEW S, NEW ss \in Seq(Seq(S)), NEW q \in Seq(S), NEW m \in Nat,
         m + 1 \in 1 .. Len(ss), Len(ss[m + 1]) <= 1, Gathered(q, ss, m)
  PROVE  Gathered(q \o ss[m + 1], ss, m + 1)
<1> DEFINE c == ss[m + 1]
           r == q \o c
<1>1. c \in Seq(S) /\ Len(c) \in Nat /\ Len(q) \in Nat
  OBVIOUS
<1>2. CASE Len(c) = 0
  <2>1. c = <<>> /\ r = q
    BY <1>1, <1>2
  <2>2. \A i \in 1 .. m + 1 : i \in 1 .. m \/ i = m + 1
    OBVIOUS
  <2>3. \A i \in 1 .. m : i \in 1 .. m + 1
    OBVIOUS
  <2>4. \A i \in 1 .. m + 1 : ss[i] # <<>> => i \in 1 .. m
    BY <2>1, <2>2
  <2>5. \A k \in 1 .. Len(q) : \E i \in 1 .. m + 1 : ss[i] # <<>> /\ q[k] = ss[i][1]
    BY <2>3 DEF Gathered
  <2>6. \A k \in 2 .. Len(q) : \E i, j \in 1 .. m + 1 :
          i < j /\ ss[i] # <<>> /\ ss[j] # <<>> /\ q[k - 1] = ss[i][1] /\ q[k] = ss[j][1]
    <3> TAKE k \in 2 .. Len(q)
    <3>1. PICK i \in 1 .. m, j \in 1 .. m :
            i < j /\ ss[i] # <<>> /\ ss[j] # <<>> /\ q[k - 1] = ss[i][1] /\ q[k] = ss[j][1]
      BY DEF Gathered
    <3>2. i \in 1 .. m + 1 /\ j \in 1 .. m + 1
      BY <2>3
    <3>3. QED
      BY <3>1, <3>2
  <2>7. \A i \in 1 .. m + 1 : ss[i] # <<>> => \E k \in 1 .. Len(q) : q[k] = ss[i][1]
    BY <2>4 DEF Gathered
  <2>8. Gathered(q, ss, m + 1)
    BY <2>5, <2>6, <2>7 DEF Gathered
  <2>9. QED
    BY <2>1, <2>8
<1>3. CASE Len(c) = 1
  <2> DEFINE x == c[1]
             l == Len(q)
  <2>0. Len(r) = l + Len(c) /\ \A k \in 1 .. l : r[k] = q[k]
    BY <1>1, JoinedIs
  <2>1. Len(r) = l + 1 /\ \A k \in 1 .. l : r[k] = q[k]
    BY <1>3, <2>0
  <2>2. r[l + 1] = x /\ c # <<>>
    <3>1. 1 \in 1 .. Len(c)
      BY <1>3
    <3>2. QED
      BY <1>1, <3>1, JoinedIs
  <2>3. l \in Nat
    BY <1>1
  <2>4. \A i \in 1 .. m : i \in 1 .. m + 1 /\ i < m + 1
    OBVIOUS
  <2>5. m + 1 \in 1 .. m + 1
    OBVIOUS
  <2>6. ss[m + 1] # <<>> /\ ss[m + 1][1] = x
    BY <2>2
  <2> HIDE DEF r, x, l, c
  <2>7. \A k \in 1 .. Len(r) : \E i \in 1 .. m + 1 : ss[i] # <<>> /\ r[k] = ss[i][1]
    <3> TAKE k \in 1 .. Len(r)
    <3>1. CASE k = l + 1
      BY <2>2, <2>5, <2>6, <3>1
    <3>2. CASE k # l + 1
      <4>1. k \in 1 .. l
        BY <2>1, <2>3, <3>2
      <4>2. PICK i \in 1 .. m : ss[i] # <<>> /\ q[k] = ss[i][1]
        BY <4>1 DEF Gathered, l
      <4>3. QED
        BY <2>1, <2>4, <4>1, <4>2
    <3>3. QED
      BY <3>1, <3>2
  <2>8. \A k \in 2 .. Len(r) : \E i, j \in 1 .. m + 1 :
          i < j /\ ss[i] # <<>> /\ ss[j] # <<>> /\ r[k - 1] = ss[i][1] /\ r[k] = ss[j][1]
    <3> TAKE k \in 2 .. Len(r)
    <3>1. CASE k = l + 1
      <4>1. l \in 1 .. l /\ k - 1 = l
        BY <2>1, <2>3, <3>1
      <4>2. PICK i \in 1 .. m : ss[i] # <<>> /\ q[l] = ss[i][1]
        BY <4>1 DEF Gathered, l
      <4>3. r[k - 1] = ss[i][1] /\ r[k] = ss[m + 1][1]
        BY <2>1, <2>2, <2>6, <3>1, <4>1, <4>2
      <4>4. QED
        BY <2>4, <2>5, <2>6, <4>2, <4>3
    <3>2. CASE k # l + 1
      <4>1. k \in 2 .. l /\ k \in 1 .. l /\ k - 1 \in 1 .. l
        BY <2>1, <2>3, <3>2
      <4>2. PICK i \in 1 .. m, j \in 1 .. m :
              i < j /\ ss[i] # <<>> /\ ss[j] # <<>> /\ q[k - 1] = ss[i][1] /\ q[k] = ss[j][1]
        BY <4>1 DEF Gathered, l
      <4>3. r[k - 1] = ss[i][1] /\ r[k] = ss[j][1]
        BY <2>1, <4>1, <4>2
      <4>4. QED
        BY <2>4, <4>2, <4>3
    <3>3. QED
      BY <3>1, <3>2
  <2>9. \A i \in 1 .. m + 1 : ss[i] # <<>> => \E k \in 1 .. Len(r) : r[k] = ss[i][1]
    <3> SUFFICES ASSUME NEW i \in 1 .. m + 1, ss[i] # <<>>
                 PROVE  \E k \in 1 .. Len(r) : r[k] = ss[i][1]
      OBVIOUS
    <3>1. CASE i = m + 1
      <4>1. l + 1 \in 1 .. Len(r)
        BY <2>1, <2>3
      <4>2. QED
        BY <2>2, <2>6, <3>1, <4>1
    <3>2. CASE i # m + 1
      <4>1. i \in 1 .. m
        BY <3>2
      <4>2. PICK k \in 1 .. l : q[k] = ss[i][1]
        BY <4>1 DEF Gathered, l
      <4>3. k \in 1 .. Len(r) /\ r[k] = q[k]
        BY <2>1, <2>3
      <4>4. QED
        BY <4>2, <4>3
    <3>3. QED
      BY <3>1, <3>2
  <2>10. Gathered(r, ss, m + 1)
    BY <2>7, <2>8, <2>9 DEF Gathered
  <2>11. QED
    BY <2>10 DEF r, c
<1>4. Len(c) = 0 \/ Len(c) = 1
  <2> DEFINE l == Len(ss[m + 1])
  <2>1. l \in Nat /\ l <= 1
    BY <1>1
  <2> HIDE DEF l
  <2>2. l = 0 \/ l = 1
    BY <2>1
  <2>3. QED
    BY <2>2 DEF l
<1>5. QED
  BY <1>2, <1>3, <1>4

\* What is put together of all of them.
LEMMA GatheredAll ==
  ASSUME NEW S, NEW ss \in Seq(Seq(S)), \A i \in 1 .. Len(ss) : Len(ss[i]) <= 1
  PROVE  FlattenSeq(ss) \in Seq(S) /\ Gathered(FlattenSeq(ss), ss, Len(ss))
<1> DEFINE n == Len(ss)
           g == FlatOf(ss)
<1>1. n \in Nat
  OBVIOUS
<1>2. FlattenSeq(ss) \in Seq(S)
  BY Flat
<1>3. CASE n = 0
  <2>1. FlattenSeq(ss) = <<>>
    BY <1>3 DEF FlattenSeq
  <2>2. Gathered(<<>>, ss, 0)
    BY DEF Gathered
  <2>3. QED
    BY <1>2, <1>3, <2>1, <2>2
<1>4. CASE n # 0
  <2>1. IsFlat(g, ss, n)
    <3>1. \E k : IsFlat(k, ss, n)
      BY <1>1, FlatExists
    <3>2. QED
      BY <3>1 DEF FlatOf
  <2>2. \A i \in 1 .. n : g[i] = IF i = 1 THEN ss[i] ELSE g[i - 1] \o ss[i]
    BY <2>1 DEF IsFlat
  <2> HIDE DEF g
  <2> DEFINE G == {k \in Nat : k \in 1 .. n => g[k] \in Seq(S) /\ Gathered(g[k], ss, k)}
  <2>3. 0 \in G
    OBVIOUS
  <2>4. ASSUME NEW k \in Nat, k \in G PROVE k + 1 \in G
    <3>1. SUFFICES ASSUME k + 1 \in 1 .. n
                   PROVE  g[k + 1] \in Seq(S) /\ Gathered(g[k + 1], ss, k + 1)
      OBVIOUS
    <3>2. ss[k + 1] \in Seq(S) /\ Len(ss[k + 1]) <= 1
      BY <3>1
    <3>3. CASE k = 0
      <4>1. g[k + 1] = ss[k + 1] /\ <<>> \o ss[k + 1] = ss[k + 1]
        BY <2>2, <3>1, <3>2, <3>3
      <4>2. Gathered(<<>>, ss, k) /\ <<>> \in Seq(S)
        BY <3>3 DEF Gathered
      <4>3. Gathered(<<>> \o ss[k + 1], ss, k + 1)
        BY <3>1, <3>2, <4>2, GatheredOnwards
      <4>4. QED
        BY <3>2, <4>1, <4>3
    <3>4. CASE k # 0
      <4>1. k \in 1 .. n /\ k + 1 # 1 /\ (k + 1) - 1 = k
        BY <3>1, <3>4
      <4>2. g[k] \in Seq(S) /\ Gathered(g[k], ss, k)
        BY <2>4, <4>1
      <4>3. g[k + 1] = g[k] \o ss[k + 1]
        BY <2>2, <3>1, <4>1
      <4>4. Gathered(g[k] \o ss[k + 1], ss, k + 1)
        BY <3>1, <3>2, <4>2, GatheredOnwards
      <4>5. g[k] \o ss[k + 1] \in Seq(S)
        BY <3>2, <4>2
      <4>6. QED
        BY <4>3, <4>4, <4>5
    <3>5. QED
      BY <3>3, <3>4
  <2>5. n \in G
    <3> HIDE DEF G, n
    <3>1. QED
      BY <1>1, <2>3, <2>4, Induction
  <2>6. n \in 1 .. n
    BY <1>1, <1>4
  <2>7. Gathered(g[n], ss, n)
    BY <2>5, <2>6
  <2>8. QED
    BY <1>2, <1>4, <2>7, FlattenIs DEF g
<1>5. QED
  BY <1>3, <1>4

\* A batch's times are those its packets were heard at.
LEMMA TimesTold ==
  ASSUME NEW s \in Scripts, NEW ps \in Seq(1 .. Len(s.heard)), ps # <<>>, NEW p,
         p[1].count = Len(ps), p[1].base = s.heard[ps[1]].at,
         \A i \in 1 .. Len(ps) : p[i + 1].dt = Dt(ps, i, s.heard)
  PROVE  \A i \in 1 .. Len(ps) : TimeOf(p, i) = s.heard[ps[i]].at
<1> DEFINE n == p[1].count
           at == CHOOSE g : IsTimes(g, p, n)
           At(i) == s.heard[ps[i]].at
<1>1. n \in Nat /\ n = Len(ps)
  OBVIOUS
<1>2. IsTimes(at, p, n)
  <2>1. \E g : IsTimes(g, p, n)
    BY <1>1, TimesExist
  <2>2. QED
    BY <2>1
<1>3. \A i : TimeOf(p, i) = at[i]
  BY DEF TimeOf, IsTimes
<1>4. \A k \in 0 .. n : at[k] = IF k = 0 THEN p[1].base ELSE at[k - 1] + p[k + 1].dt
  BY <1>2 DEF IsTimes
<1> HIDE DEF at
<1>5. \A i \in 1 .. n : At(i) \in Int
  <2>1. \A i \in 1 .. n : ps[i] \in 1 .. Len(s.heard)
    BY <1>1
  <2>2. QED
    BY <2>1, ScriptIs
<1>6. at[0] = At(1)
  BY <1>1, <1>4
<1> DEFINE G == {k \in Nat : k \in 1 .. n => at[k] = At(k)}
<1>7. 0 \in G
  OBVIOUS
<1>8. ASSUME NEW k \in Nat, k \in G PROVE k + 1 \in G
  <2>1. SUFFICES ASSUME k + 1 \in 1 .. n PROVE at[k + 1] = At(k + 1)
    OBVIOUS
  <2>2. k + 1 \in 0 .. n /\ k + 1 # 0 /\ (k + 1) - 1 = k /\ k + 1 \in 1 .. Len(ps)
    BY <1>1, <2>1
  <2>3. at[k + 1] = at[k] + p[(k + 1) + 1].dt
    BY <1>4, <2>2
  <2>4. p[(k + 1) + 1].dt = Dt(ps, k + 1, s.heard)
    BY <2>2
  <2>5. CASE k = 0
    <3>1. Dt(ps, k + 1, s.heard) = 0
      BY <2>5 DEF Dt
    <3>2. 1 \in 1 .. n
      BY <2>1, <2>5
    <3>3. At(1) \in Int
      BY <1>5, <3>2
    <3>4. QED
      BY <1>6, <2>3, <2>4, <2>5, <3>1, <3>3
  <2>6. CASE k # 0
    <3>1. k \in 1 .. n /\ k + 1 # 1
      BY <2>1, <2>6
    <3>2. Dt(ps, k + 1, s.heard) = At(k + 1) - At(k)
      BY <2>2, <3>1 DEF Dt
    <3>3. at[k] = At(k)
      BY <1>8, <3>1
    <3>4. At(k) \in Int /\ At(k + 1) \in Int
      BY <1>5, <2>1, <3>1
    <3> HIDE DEF At
    <3>5. QED
      BY <2>3, <2>4, <3>2, <3>3, <3>4
  <2>7. QED
    BY <2>5, <2>6
<1>9. \A k \in Nat : k \in G
  <2> HIDE DEF G
  <2>1. QED
    BY <1>7, <1>8, Induction
<1>10. ASSUME NEW i \in 1 .. n PROVE at[i] = At(i)
  <2>1. i \in Nat
    BY <1>1
  <2>2. QED
    BY <1>9, <2>1
<1>11. QED
  BY <1>1, <1>3, <1>10

\* A record of a packet that was heard, as it was heard.
Genuine(r) ==
  /\ r.pkt \in 1 .. Heard
  /\ r.at = script.heard[r.pkt].at /\ r.channel = script.heard[r.pkt].channel
  /\ script.radio = "wifi" => r.lost = script.heard[r.pkt].lost

PacketsOf(f) == Range(script.frames[f].ps)
Pkts(rs) == {rs[k].pkt : k \in 1 .. Len(rs)}
Ascending(rs) == \A k \in 2 .. Len(rs) : rs[k - 1].pkt < rs[k].pkt
Recordable(p) == script.heard[p].channel \in ChannelsOf(script.radio)

\* What records() makes of a frame that came whole.
Tells(n, rs) ==
  /\ \A k \in 1 .. Len(rs) : Genuine(rs[k]) /\ rs[k].pkt \in PacketsOf(n)
  /\ Ascending(rs)
  /\ \A p \in PacketsOf(n) : Recordable(p) => p \in Pkts(rs)

\* What it makes of one packet, p.
RecordFor(p, q) ==
  /\ Len(q) <= 1
  /\ q # <<>> => q[1].pkt = p /\ Genuine(q[1])
  /\ Recordable(p) => q # <<>>

\* The packets of a frame are the script's.
LEMMA PacketsAre ==
  ASSUME script \in Scripts, NEW n \in 1 .. Len(script.frames)
  PROVE  /\ script.frames[n].ps \in Seq(1 .. Heard) /\ Len(script.frames[n].ps) \in Nat
         /\ \A i \in 1 .. Len(script.frames[n].ps) :
              script.frames[n].ps[i] \in PacketsOf(n) /\ script.frames[n].ps[i] \in 1 .. Heard
         /\ \A p \in PacketsOf(n) :
              \E i \in 1 .. Len(script.frames[n].ps) : script.frames[n].ps[i] = p
         /\ PacketsOf(n) \subseteq 1 .. Heard
<1> DEFINE ps == script.frames[n].ps
<1>1. ps \in Seq(1 .. Heard)
  BY ScriptIs DEF Heard
<1> HIDE DEF ps
<1>2. Len(ps) \in Nat /\ DOMAIN ps = 1 .. Len(ps)
      /\ \A i \in 1 .. Len(ps) : ps[i] \in 1 .. Heard
  <2> DEFINE T == 1 .. Heard
  <2>1. ps \in Seq(T)
    BY <1>1
  <2> HIDE DEF T
  <2>2. Len(ps) \in Nat /\ DOMAIN ps = 1 .. Len(ps) /\ \A i \in 1 .. Len(ps) : ps[i] \in T
    BY <2>1
  <2>3. QED
    BY <2>2 DEF T
<1>3. \A i \in 1 .. Len(ps) : ps[i] \in Range(ps)
  BY <1>2 DEF Range
<1>4. \A p \in Range(ps) : \E i \in 1 .. Len(ps) : ps[i] = p
  BY <1>2 DEF Range
<1>5. Range(ps) \subseteq 1 .. Heard
  BY <1>2, <1>4
<1>6. QED
  BY <1>1, <1>2, <1>3, <1>4, <1>5 DEF PacketsOf, ps

\* Records put together from one at most for each packet tell the frame.
LEMMA FromPieces ==
  ASSUME script \in Scripts, NEW n \in 1 .. Len(script.frames),
         NEW S, NEW ss \in Seq(Seq(S)), Len(ss) = Len(script.frames[n].ps),
         \A i \in 1 .. Len(ss) : RecordFor(script.frames[n].ps[i], ss[i])
  PROVE  Tells(n, FlattenSeq(ss))
<1> DEFINE ps == script.frames[n].ps
           rs == FlattenSeq(ss)
           m == Len(ss)
<1>1. \A i \in 1 .. m : Len(ss[i]) <= 1
  BY DEF RecordFor
<1>2. rs \in Seq(S) /\ Gathered(rs, ss, m)
  BY <1>1, GatheredAll
<1>3. /\ \A i \in 1 .. m : ps[i] \in PacketsOf(n) /\ ps[i] \in 1 .. Heard
      /\ \A p \in PacketsOf(n) : \E i \in 1 .. m : ps[i] = p
  BY PacketsAre
<1>4. \A i \in 1 .. m : ss[i] # <<>> => ss[i][1].pkt = ps[i] /\ Genuine(ss[i][1])
  BY DEF RecordFor
<1>5. \A i \in 1 .. m : Recordable(ps[i]) => ss[i] # <<>>
  BY DEF RecordFor
<1>6. \A i, j \in 1 .. m : i < j => ps[i] < ps[j]
  BY OrderAssumption
<1> HIDE DEF rs, m, ps
<1>7. \A k \in 1 .. Len(rs) : Genuine(rs[k]) /\ rs[k].pkt \in PacketsOf(n)
  <2> TAKE k \in 1 .. Len(rs)
  <2>1. PICK i \in 1 .. m : ss[i] # <<>> /\ rs[k] = ss[i][1]
    BY <1>2 DEF Gathered
  <2>2. QED
    BY <1>3, <1>4, <2>1
<1>8. Ascending(rs)
  <2> SUFFICES ASSUME NEW k \in 2 .. Len(rs) PROVE rs[k - 1].pkt < rs[k].pkt
    BY DEF Ascending
  <2>1. PICK i \in 1 .. m, j \in 1 .. m :
          i < j /\ ss[i] # <<>> /\ ss[j] # <<>> /\ rs[k - 1] = ss[i][1] /\ rs[k] = ss[j][1]
    BY <1>2 DEF Gathered
  <2>2. rs[k - 1].pkt = ps[i] /\ rs[k].pkt = ps[j]
    BY <1>4, <2>1
  <2>3. QED
    BY <1>6, <2>1, <2>2
<1>9. \A p \in PacketsOf(n) : Recordable(p) => p \in Pkts(rs)
  <2> SUFFICES ASSUME NEW p \in PacketsOf(n), Recordable(p) PROVE p \in Pkts(rs)
    OBVIOUS
  <2>1. PICK i \in 1 .. m : ps[i] = p
    BY <1>3
  <2>2. ss[i] # <<>>
    BY <1>5, <2>1
  <2>3. PICK k \in 1 .. Len(rs) : rs[k] = ss[i][1]
    BY <1>2, <2>2 DEF Gathered
  <2>4. rs[k].pkt = p
    BY <1>4, <2>1, <2>2, <2>3
  <2>5. QED
    BY <2>4 DEF Pkts
<1>10. QED
  BY <1>7, <1>8, <1>9 DEF Tells, rs

\* One PACKET's payload.
LEMMA BuiltIs ==
  ASSUME script \in Scripts, NEW p, Len(p) \in Nat, Len(p) >= 2,
         NEW f, \A i \in 1 .. Len(p) : p[i].f = f,
         NEW h \in 1 .. Heard,
         p[1].t = "meta", p[1].at = script.heard[h].at,
         p[1].channel = script.heard[h].channel,
         p[2].t = "packet", p[2].pkt = h,
         script.radio = "wifi" => p[2].lost = script.heard[h].lost
  PROVE  RecordFor(h, BuildRecord(p))
<1> DEFINE r == BuildRecordInner(p)
<1>1. PktOf(p, p[2].pkt) = h
  <2>1. 1 \in 1 .. Len(p)
    OBVIOUS
  <2>2. \A i \in 1 .. Len(p) : p[i].f = p[1].f
    BY <2>1
  <2>3. QED
    BY <2>2 DEF PktOf
<1>2. /\ r.pkt = h /\ r.at = script.heard[h].at /\ r.channel = script.heard[h].channel
      /\ script.radio = "wifi" => r.lost = script.heard[h].lost
  <2> DEFINE lost == IF script.radio = "wifi" THEN p[2].lost ELSE 0
  <2>1. r = [pkt |-> h, at |-> script.heard[h].at, channel |-> script.heard[h].channel,
             lost |-> lost]
    BY <1>1 DEF BuildRecordInner
  <2>2. script.radio = "wifi" => lost = script.heard[h].lost
    OBVIOUS
  <2> HIDE DEF lost, r
  <2>3. QED
    BY <2>1, <2>2
<1>3. h # 0
  BY ScriptIs DEF Heard
<1>4. BuildRecord(p) = IF Recordable(h) THEN <<r>> ELSE <<>>
  <2> DEFINE c == r.channel
  <2>1. BuildRecord(p) = IF Len(p) >= 2 /\ (r.pkt = 0 \/ c \in ChannelsOf(script.radio))
                         THEN <<r>> ELSE <<>>
    BY DEF BuildRecord
  <2>2. c = script.heard[h].channel
    BY <1>2
  <2> HIDE DEF r, c
  <2>3. QED
    BY <1>2, <1>3, <2>1, <2>2 DEF Recordable
<1> HIDE DEF r
<1>5. Genuine(r)
  BY <1>2 DEF Genuine
<1>6. CASE Recordable(h)
  <2>1. BuildRecord(p) = <<r>>
    BY <1>4, <1>6
  <2>2. Len(<<r>>) = 1 /\ <<r>> # <<>> /\ <<r>>[1] = r
    OBVIOUS
  <2>3. QED
    BY <1>2, <1>5, <2>1, <2>2 DEF RecordFor
<1>7. CASE ~Recordable(h)
  <2>1. BuildRecord(p) = <<>>
    BY <1>4, <1>7
  <2>2. Len(<<>>) = 0
    OBVIOUS
  <2>3. QED
    BY <1>7, <2>1, <2>2 DEF RecordFor
<1>8. QED
  BY <1>6, <1>7

\* What a batch's entry would have been on its own.
LEMMA SingleSays ==
  ASSUME NEW e, NEW channel
  PROVE  LET p == Single(e, channel)
         IN  /\ Len(p) = 2 /\ \A i \in 1 .. Len(p) : p[i].f = e.f
             /\ p[1].t = "meta" /\ p[1].at = e.at /\ p[1].channel = channel
             /\ p[2].t = "packet" /\ p[2].pkt = e.pkt /\ p[2].lost = e.lost
<1> DEFINE x == [t |-> "meta", f |-> e.f, at |-> e.at, channel |-> channel]
           y == [t |-> "packet", f |-> e.f, pkt |-> e.pkt, lost |-> e.lost]
<1>1. Single(e, channel) = <<x, y>>
  BY DEF Single
<1>2. /\ x.f = e.f /\ y.f = e.f
      /\ x.t = "meta" /\ x.at = e.at /\ x.channel = channel
      /\ y.t = "packet" /\ y.pkt = e.pkt /\ y.lost = e.lost
  OBVIOUS
<1> HIDE DEF x, y
<1>3. Len(<<x, y>>) = 2 /\ <<x, y>>[1] = x /\ <<x, y>>[2] = y
  OBVIOUS
<1>4. \A i \in 1 .. 2 : <<x, y>>[i].f = e.f
  <2>1. \A i \in 1 .. 2 : i = 1 \/ i = 2
    OBVIOUS
  <2>2. QED
    BY <1>2, <1>3, <2>1
<1>5. QED
  BY <1>1, <1>2, <1>3, <1>4

\* A batch comes apart into its packets.
LEMMA ExpandedSays ==
  ASSUME script \in Scripts, NEW n \in 1 .. Len(script.frames),
         script.frames[n].kind = "PACKET_BATCH"
  PROVE  LET ps == script.frames[n].ps
             c == ExpandBatch(Payload(n, script.frames[n], script.heard))
         IN  /\ Len(c) = Len(ps)
             /\ \A i \in 1 .. Len(ps) : RecordFor(ps[i], BuildRecord(c[i]))
<1> DEFINE ps == script.frames[n].ps
           p == Payload(n, script.frames[n], script.heard)
           c == ExpandBatch(p)
           l == Len(ps)
           One(i) == Single(DecodePacketBatch(p)[i], p[1].channel)
<1>1. /\ ps \in Seq(1 .. Heard) /\ l \in Nat /\ n \in Nat
      /\ \A i \in 1 .. l : ps[i] \in 1 .. Heard
  BY PacketsAre, ScriptIs
<1>2. /\ ps # <<>> /\ l <= 32 /\ script.radio = "802154"
      /\ \A i \in 1 .. l : script.heard[ps[i]].channel = script.heard[ps[1]].channel
  <2>1. ps # <<>>
    BY ScriptIs
  <2>2. /\ l <= MAX_BATCH_ENTRIES /\ script.radio = "802154"
        /\ {script.heard[ps[i]].channel : i \in 1 .. l} = {script.heard[ps[1]].channel}
    BY FramesAssumption
  <2>3. QED
    BY <2>1, <2>2 DEF MAX_BATCH_ENTRIES
<1>3. p = EncodePacketBatch(n, ps, script.heard)
  BY DEF Payload
<1>4. /\ Len(p) = 1 + l /\ p[1].t = "batch" /\ p[1].base = script.heard[ps[1]].at
      /\ p[1].channel = script.heard[ps[1]].channel /\ p[1].count = l
      /\ \A i \in 1 .. l : /\ p[i + 1].t = "entry" /\ p[i + 1].f = n /\ p[i + 1].pkt = ps[i]
                           /\ p[i + 1].dt = Dt(ps, i, script.heard)
  <2> DEFINE b == EncodePacketBatch(n, ps, script.heard)
  <2>1. ps \in Seq(1 .. Len(script.heard))
    BY <1>1 DEF Heard
  <2>2. /\ Len(b) = 1 + Len(ps) /\ b[1].t = "batch" /\ b[1].base = script.heard[ps[1]].at
        /\ b[1].channel = script.heard[ps[1]].channel
        /\ b[1].count = Len(ps)
        /\ \A i \in 1 .. Len(ps) : /\ b[i + 1].t = "entry" /\ b[i + 1].f = n
                                   /\ b[i + 1].pkt = ps[i]
                                   /\ b[i + 1].dt = Dt(ps, i, script.heard)
    <3> HIDE DEF ps
    <3>1. QED
      BY <1>1, <2>1, BatchSays
  <2>3. p = b
    BY <1>3
  <2> HIDE DEF p, b, ps
  <2>4. QED
    BY <2>2, <2>3
<1>5. l >= 1
  <2>1. l # 0
    BY <1>1, <1>2
  <2> HIDE DEF l
  <2>2. QED
    BY <1>1, <2>1
<1>6. \A i \in 1 .. l : TimeOf(p, i) = script.heard[ps[i]].at
  BY <1>1, <1>2, <1>4, TimesTold DEF Heard
<1> HIDE DEF ps, p, l
<1>7. WellFormed(p, "batch", "entry")
  <2>1. \A k \in 2 .. Len(p) : k - 1 \in 1 .. l /\ (k - 1) + 1 = k
    <3>1. Len(p) = 1 + l /\ l \in Nat
      BY <1>1, <1>4
    <3>2. QED
      BY <3>1
  <2>2. \A k \in 2 .. Len(p) : p[k].t = "entry"
    BY <1>4, <2>1
  <2>3. Len(p) > 0 /\ p[1].count \in 1 .. MAX_BATCH_ENTRIES
    BY <1>1, <1>2, <1>4, <1>5 DEF MAX_BATCH_ENTRIES
  <2>4. QED
    BY <1>4, <2>2, <2>3 DEF WellFormed
<1>8. c = [i \in 1 .. l |-> One(i)]
  BY <1>4, <1>7 DEF ExpandBatch
<1>9. Len(c) = l /\ \A i \in 1 .. l : c[i] = One(i)
  <2> HIDE DEF c, One
  <2>1. QED
    BY <1>1, <1>8
<1>10. ASSUME NEW i \in 1 .. l PROVE RecordFor(ps[i], BuildRecord(One(i)))
  <2> DEFINE e == DecodePacketBatch(p)[i]
             q == Single(e, p[1].channel)
  <2>1. e = [at |-> TimeOf(p, i), f |-> p[i + 1].f, pkt |-> p[i + 1].pkt, lost |-> 0]
    BY <1>4 DEF DecodePacketBatch
  <2>2. e.at = script.heard[ps[i]].at /\ e.pkt = ps[i]
    BY <1>4, <1>6, <2>1
  <2> HIDE DEF e
  <2>3. /\ Len(q) = 2 /\ \A k \in 1 .. Len(q) : q[k].f = e.f
        /\ q[1].t = "meta" /\ q[1].at = e.at /\ q[1].channel = p[1].channel
        /\ q[2].t = "packet" /\ q[2].pkt = e.pkt
    BY SingleSays
  <2>4. p[1].channel = script.heard[ps[i]].channel
    BY <1>2, <1>4
  <2> HIDE DEF q
  <2>5. Len(q) \in Nat /\ Len(q) >= 2
    BY <2>3
  <2>6. script.radio # "wifi"
    BY <1>2
  <2>7. RecordFor(ps[i], BuildRecord(q))
    BY <1>1, <2>2, <2>3, <2>4, <2>5, <2>6, BuiltIs
  <2>8. QED
    BY <2>7 DEF q, e
<1> HIDE DEF One
<1>11. Len(c) = l /\ \A i \in 1 .. l : RecordFor(ps[i], BuildRecord(c[i]))
  BY <1>9, <1>10
<1>12. QED
  BY <1>11 DEF c, l, ps, p

\* So does a Bluetooth one.
LEMMA BleExpandedSays ==
  ASSUME script \in Scripts, NEW n \in 1 .. Len(script.frames),
         script.frames[n].kind = "BLE_BATCH"
  PROVE  LET ps == script.frames[n].ps
             c == ExpandBleBatch(Payload(n, script.frames[n], script.heard))
         IN  /\ Len(c) = Len(ps)
             /\ \A i \in 1 .. Len(ps) : RecordFor(ps[i], BuildRecord(c[i]))
<1> DEFINE ps == script.frames[n].ps
           p == Payload(n, script.frames[n], script.heard)
           c == ExpandBleBatch(p)
           l == Len(ps)
           One(i) == Single(DecodeBleBatch(p)[i], 0)
<1>1. /\ ps \in Seq(1 .. Heard) /\ l \in Nat /\ n \in Nat
      /\ \A i \in 1 .. l : ps[i] \in 1 .. Heard
  BY PacketsAre, ScriptIs
<1>2. /\ ps # <<>> /\ l <= 32 /\ script.radio = "ble"
      /\ \A i \in 1 .. l : script.heard[ps[i]].channel = 0
  <2>1. ps # <<>>
    BY ScriptIs
  <2>2. /\ l <= MAX_BATCH_ENTRIES /\ script.radio = "ble"
        /\ {script.heard[ps[i]].channel : i \in 1 .. l} = {0}
    BY FramesAssumption
  <2>3. QED
    BY <2>1, <2>2 DEF MAX_BATCH_ENTRIES
<1>3. p = EncodeBleBatch(n, ps, script.heard)
  BY DEF Payload
<1>4. /\ Len(p) = 1 + l /\ p[1].t = "bleBatch" /\ p[1].base = script.heard[ps[1]].at
      /\ p[1].count = l
      /\ \A i \in 1 .. l : /\ p[i + 1].t = "bleEntry" /\ p[i + 1].f = n
                           /\ p[i + 1].pkt = ps[i]
                           /\ p[i + 1].dt = Dt(ps, i, script.heard)
  <2> DEFINE b == EncodeBleBatch(n, ps, script.heard)
  <2>1. ps \in Seq(1 .. Len(script.heard))
    BY <1>1 DEF Heard
  <2>2. /\ Len(b) = 1 + Len(ps) /\ b[1].t = "bleBatch" /\ b[1].base = script.heard[ps[1]].at
        /\ b[1].count = Len(ps)
        /\ \A i \in 1 .. Len(ps) : /\ b[i + 1].t = "bleEntry" /\ b[i + 1].f = n
                                   /\ b[i + 1].pkt = ps[i]
                                   /\ b[i + 1].dt = Dt(ps, i, script.heard)
    <3> HIDE DEF ps
    <3>1. QED
      BY <1>1, <2>1, BleBatchSays
  <2>3. p = b
    BY <1>3
  <2> HIDE DEF p, b, ps
  <2>4. QED
    BY <2>2, <2>3
<1>5. l >= 1
  <2>1. l # 0
    BY <1>1, <1>2
  <2> HIDE DEF l
  <2>2. QED
    BY <1>1, <2>1
<1>6. \A i \in 1 .. l : TimeOf(p, i) = script.heard[ps[i]].at
  BY <1>1, <1>2, <1>4, TimesTold DEF Heard
<1> HIDE DEF ps, p, l
<1>7. WellFormed(p, "bleBatch", "bleEntry")
  <2>1. \A k \in 2 .. Len(p) : k - 1 \in 1 .. l /\ (k - 1) + 1 = k
    <3>1. Len(p) = 1 + l /\ l \in Nat
      BY <1>1, <1>4
    <3>2. QED
      BY <3>1
  <2>2. \A k \in 2 .. Len(p) : p[k].t = "bleEntry"
    BY <1>4, <2>1
  <2>3. Len(p) > 0 /\ p[1].count \in 1 .. MAX_BATCH_ENTRIES
    BY <1>1, <1>2, <1>4, <1>5 DEF MAX_BATCH_ENTRIES
  <2>4. QED
    BY <1>4, <2>2, <2>3 DEF WellFormed
<1>8. c = [i \in 1 .. l |-> One(i)]
  BY <1>4, <1>7 DEF ExpandBleBatch
<1>9. Len(c) = l /\ \A i \in 1 .. l : c[i] = One(i)
  <2> HIDE DEF c, One
  <2>1. QED
    BY <1>1, <1>8
<1>10. ASSUME NEW i \in 1 .. l PROVE RecordFor(ps[i], BuildRecord(One(i)))
  <2> DEFINE e == DecodeBleBatch(p)[i]
             q == Single(e, 0)
  <2>1. e = [at |-> TimeOf(p, i), f |-> p[i + 1].f, pkt |-> p[i + 1].pkt,
             lost |-> p[i + 1].lost]
    BY <1>4 DEF DecodeBleBatch
  <2>2. e.at = script.heard[ps[i]].at /\ e.pkt = ps[i]
    BY <1>4, <1>6, <2>1
  <2> HIDE DEF e
  <2>3. /\ Len(q) = 2 /\ \A k \in 1 .. Len(q) : q[k].f = e.f
        /\ q[1].t = "meta" /\ q[1].at = e.at /\ q[1].channel = 0
        /\ q[2].t = "packet" /\ q[2].pkt = e.pkt
    BY SingleSays
  <2>4. script.heard[ps[i]].channel = 0
    BY <1>2
  <2> HIDE DEF q
  <2>5. Len(q) \in Nat /\ Len(q) >= 2
    BY <2>3
  <2>6. script.radio # "wifi"
    BY <1>2
  <2>7. RecordFor(ps[i], BuildRecord(q))
    BY <1>1, <2>2, <2>3, <2>4, <2>5, <2>6, BuiltIs
  <2>8. QED
    BY <2>7 DEF q, e
<1> HIDE DEF One
<1>11. Len(c) = l /\ \A i \in 1 .. l : RecordFor(ps[i], BuildRecord(c[i]))
  BY <1>9, <1>10
<1>12. QED
  BY <1>11 DEF c, l, ps, p

\* The records of a frame that came whole tell it.
LEMMA RecordsAre ==
  ASSUME script \in Scripts, NEW n \in 1 .. Len(script.frames), NEW frame,
         frame.kind = KindOf(script, n),
         frame.payload = Payload(n, script.frames[n], script.heard)
  PROVE  Tells(n, RecordsOf(frame))
<1> DEFINE ps == script.frames[n].ps
           p == Payload(n, script.frames[n], script.heard)
           T == Seq(TokensOf(Heard))
           payloads == CASE frame.kind = "PACKET" -> <<frame.payload>>
                         [] frame.kind = "PACKET_BATCH" -> ExpandBatch(frame.payload)
                         [] frame.kind = "BLE_BATCH" -> ExpandBleBatch(frame.payload)
                         [] OTHER -> <<>>
           built == [i \in 1 .. Len(payloads) |-> BuildRecord(payloads[i])]
<1>1. RecordsOf(frame) = FlattenSeq(built)
  BY DEF RecordsOf
<1>2. p \in T /\ Heard \in Nat /\ script.frames[n].kind \in Kinds
  BY PayloadIs, ScriptIs DEF Heard
<1>3. frame.payload = p
  OBVIOUS
<1> HIDE DEF p, ps, T
<1>4. /\ payloads \in Seq(T) /\ Len(payloads) = Len(ps)
      /\ \A i \in 1 .. Len(ps) : RecordFor(ps[i], BuildRecord(payloads[i]))
  <2>1. CASE script.frames[n].kind \in {"PACKET", "LONG", "CHANCE"}
    <3>1. frame.kind = "PACKET"
      BY <2>1 DEF KindOf
    <3>2. payloads = <<p>>
      BY <1>3, <3>1
    <3>3. Len(ps) = 1
      BY <2>1, FramesAssumption DEF ps
    <3>4. ps[1] \in 1 .. Heard
      <4>1. \A i \in 1 .. Len(ps) : ps[i] \in 1 .. Heard
        BY PacketsAre DEF ps
      <4>2. 1 \in 1 .. Len(ps)
        BY <3>3
      <4>3. QED
        BY <4>1, <4>2
    <3>5. /\ Len(p) \in 2 .. 7
          /\ p[1].t = "meta" /\ p[1].at = script.heard[ps[1]].at
          /\ p[1].channel = script.heard[ps[1]].channel
          /\ p[2].t = "packet" /\ p[2].pkt = ps[1] /\ p[2].lost = script.heard[ps[1]].lost
          /\ \A i \in 1 .. Len(p) : p[i].f = n
      BY <2>1, PacketFrameIs DEF p, ps
    <3>6. Len(p) \in Nat /\ Len(p) >= 2
      BY <3>5
    <3>7. RecordFor(ps[1], BuildRecord(p))
      BY <3>4, <3>5, <3>6, BuiltIs
    <3> HIDE DEF payloads
    <3>8. payloads \in Seq(T) /\ Len(payloads) = 1 /\ payloads[1] = p
      BY <1>2, <3>2
    <3>9. \A i \in 1 .. Len(ps) : i = 1
      BY <3>3
    <3>10. QED
      BY <3>3, <3>7, <3>8, <3>9
  <2>2. CASE script.frames[n].kind = "PACKET_BATCH"
    <3>1. frame.kind = "PACKET_BATCH"
      BY <2>2 DEF KindOf
    <3>2. payloads = ExpandBatch(p)
      BY <1>3, <3>1
    <3> HIDE DEF payloads
    <3>3. ExpandBatch(p) \in Seq(T)
      BY <1>2, ExpandedIs DEF T
    <3>4. /\ Len(ExpandBatch(p)) = Len(ps)
          /\ \A i \in 1 .. Len(ps) : RecordFor(ps[i], BuildRecord(ExpandBatch(p)[i]))
      BY <2>2, ExpandedSays DEF p, ps
    <3>5. QED
      BY <3>2, <3>3, <3>4
  <2>3. CASE script.frames[n].kind = "BLE_BATCH"
    <3>1. frame.kind = "BLE_BATCH"
      BY <2>3 DEF KindOf
    <3>2. payloads = ExpandBleBatch(p)
      BY <1>3, <3>1
    <3> HIDE DEF payloads
    <3>3. ExpandBleBatch(p) \in Seq(T)
      BY <1>2, BleExpandedIs DEF T
    <3>4. /\ Len(ExpandBleBatch(p)) = Len(ps)
          /\ \A i \in 1 .. Len(ps) : RecordFor(ps[i], BuildRecord(ExpandBleBatch(p)[i]))
      BY <2>3, BleExpandedSays DEF p, ps
    <3>5. QED
      BY <3>2, <3>3, <3>4
  <2>4. CASE script.frames[n].kind = "STATS"
    <3>1. frame.kind = "STATS"
      BY <2>4 DEF KindOf
    <3>2. payloads = <<>>
      BY <3>1
    <3>3. ps = <<>>
      BY <2>4, FramesAssumption DEF ps
    <3> HIDE DEF payloads
    <3>4. payloads \in Seq(T) /\ Len(ps) = 0 /\ Len(payloads) = 0
      BY <3>2, <3>3
    <3>5. \A i \in 1 .. Len(ps) : FALSE
      BY <3>4
    <3>6. QED
      BY <3>4, <3>5
  <2>5. QED
    BY <1>2, <2>1, <2>2, <2>3, <2>4 DEF Kinds
<1> HIDE DEF payloads
<1>5. Len(payloads) \in Nat /\ \A i \in 1 .. Len(payloads) : payloads[i] \in T
  BY <1>4
<1>6. \A i \in 1 .. Len(payloads) : BuildRecord(payloads[i]) \in Seq(RecordsUpTo(Heard))
  BY <1>2, <1>5, RecordIs DEF T
<1>7. /\ built \in Seq(Seq(RecordsUpTo(Heard))) /\ Len(built) = Len(payloads)
      /\ \A i \in 1 .. Len(built) : built[i] = BuildRecord(payloads[i])
  BY <1>5, <1>6
<1> HIDE DEF built
<1>8. Len(built) = Len(ps) /\ \A i \in 1 .. Len(built) : RecordFor(ps[i], built[i])
  BY <1>4, <1>7
<1>9. Tells(n, FlattenSeq(built))
  BY <1>7, <1>8, FromPieces DEF ps
<1>10. QED
  BY <1>1, <1>9

-----------------------------------------------------------------------------
(* What each step leaves of what is still to be parsed.                    *)

\* The head of the buffer is frame n's, as it was sent.
HeadOf(s, b, n) ==
  HeadFrame(b).kind = KindOf(s, n)
    /\ HeadFrame(b).payload = Payload(n, s.frames[n], s.heard)

\* The buffer is where what is left to parse begins.
LEMMA BufferBegins ==
  ASSUME NEW S, NEW b \in Seq(S), NEW w \in Seq(S)
  PROVE  /\ Begins(b, b \o w) /\ Len(b) \in Nat
         /\ HeaderAt(b, 1) => HeaderAt(b \o w, 1)
         /\ Whole(b) => HeaderAt(b, 1) /\ Len(b) >= 3
         /\ ~Waits(b) => Len(b) >= 3 /\ b # <<>>
<1> DEFINE r == b \o w
           l == Len(b)
<1>1. l \in Nat /\ Len(w) \in Nat /\ Len(r) = l + Len(w) /\ \A i \in 1 .. l : r[i] = b[i]
  BY JoinedIs
<1> HIDE DEF r, l
<1>2. Len(r) \in Nat /\ l <= Len(r)
  BY <1>1
<1>3. Begins(b, r)
  BY <1>1, <1>2 DEF Begins, l
<1>4. HeaderAt(b, 1) => HeaderAt(r, 1)
  <2> SUFFICES ASSUME HeaderAt(b, 1) PROVE HeaderAt(r, 1)
    OBVIOUS
  <2>1. 3 <= l /\ b[1].t = "magic0" /\ b[2].t = "magic1" /\ b[3].t = "rest"
    BY DEF HeaderAt, MagicAt, l
  <2>2. r[1] = b[1] /\ r[2] = b[2] /\ r[3] = b[3] /\ 3 <= Len(r) /\ 2 <= Len(r)
    BY <1>1, <1>2, <2>1
  <2>3. QED
    BY <2>1, <2>2 DEF HeaderAt, MagicAt
<1>5. Whole(b) => HeaderAt(b, 1) /\ l >= 3
  BY <1>1 DEF Whole, HeaderAt, l
<1>6. ~Waits(b) => l >= 3 /\ b # <<>>
  <2> SUFFICES ASSUME ~Waits(b) PROVE l >= 3 /\ b # <<>>
    OBVIOUS
  <2>1. ~(l < 3)
    BY DEF Waits, HEADER_LEN, l
  <2>2. b = <<>> => l = 0
    BY DEF l
  <2>3. QED
    BY <1>1, <2>1, <2>2
<1>7. QED
  BY <1>1, <1>3, <1>4, <1>5, <1>6 DEF r, l

\* A frame next, wholly in the buffer once its end is.
LEMMA HeadWaits ==
  ASSUME NEW s \in Scripts, NEW b \in Seq(TokensOf(Len(s.heard))), NEW r,
         NEW n \in 1 .. Len(s.frames), Holds(s, r, 0, n), Begins(b, r)
  PROVE  /\ ~Waits(b) => Whole(b)
         /\ Whole(b) => HeadOf(s, b, n) /\ End(b) = Len(Framed(s, n))
                        /\ Len(b) >= Len(Framed(s, n))
<1>1. Len(b) >= 3 => HeaderAt(b, 1) /\ End(b) = Len(Framed(s, n))
  BY TakenIs
<1>2. Len(b) >= Len(Framed(s, n)) => HeadOf(s, b, n)
  BY TakenIs DEF HeadOf
<1>3. Len(Framed(s, n)) \in Nat /\ Len(b) \in Nat
  BY LengthsAre
<1>4. ASSUME ~Waits(b) PROVE Whole(b)
  <2>1. ~(Len(b) < 3) /\ ~(HeaderAt(b, 1) /\ Len(b) < End(b))
    BY <1>4 DEF Waits, HEADER_LEN
  <2>2. Len(b) >= 3
    BY <1>3, <2>1
  <2>3. HeaderAt(b, 1) /\ ~(Len(b) < End(b)) /\ End(b) \in Nat
    BY <1>1, <1>3, <2>1, <2>2
  <2>4. Len(b) >= End(b)
    BY <1>3, <2>3
  <2>5. QED
    BY <2>3, <2>4 DEF Whole
<1>5. ASSUME Whole(b)
      PROVE  HeadOf(s, b, n) /\ End(b) = Len(Framed(s, n)) /\ Len(b) >= Len(Framed(s, n))
  <2>1. Len(b) >= 3 /\ Len(b) >= End(b)
    BY <1>5 DEF Whole, HeaderAt
  <2>2. QED
    BY <1>1, <1>2, <2>1
<1>6. QED
  BY <1>4, <1>5

\* What is left when a frame is taken.
LEMMA RestIs ==
  ASSUME NEW S, NEW b \in Seq(S), NEW w \in Seq(S), NEW e \in Nat, End(b) = e, e <= Len(b)
  PROVE  Gone(b \o w, e, Rest(b) \o w)
  BY CutBoth DEF Rest

\* A frame is next, after bytes that are nothing.
LEMMA JunkTaken ==
  ASSUME NEW s \in Scripts, NEW b \in Seq(TokensOf(Len(s.heard))),
         NEW w \in Seq(TokensOf(Len(s.heard))),
         NEW n \in 1 .. Len(s.frames) + 1, NEW d \in Nat, Junk(s, b \o w, d, n), Whole(b)
  PROVE  n \in 1 .. Len(s.frames) /\ HeadOf(s, b, n) /\ Junk(s, Rest(b) \o w, 0, n + 1)
<1> DEFINE r == b \o w
           e == Len(Framed(s, n))
<1>1. Begins(b, r) /\ HeaderAt(r, 1) /\ Len(b) >= 3 /\ Len(b) \in Nat
  BY BufferBegins
<1>2. d = 0
  BY <1>1 DEF Junk
<1>3. SentFrom(s, r, 0, n)
  BY <1>2 DEF Junk
<1>4. n \in 1 .. Len(s.frames)
  <2>1. 0 < Len(b)
    BY <1>1
  <2>2. QED
    BY <1>1, <1>3, <2>1, StartIs
<1>5. Holds(s, r, 0, n) /\ SentFrom(s, r, 0 + e, n + 1)
  BY <1>3, <1>4, NextIs
<1>6. HeadOf(s, b, n) /\ End(b) = e /\ e <= Len(b) /\ e \in Nat
  <2>1. HeadOf(s, b, n) /\ End(b) = e /\ Len(b) >= e
    BY <1>1, <1>4, <1>5, HeadWaits
  <2>2. e \in Nat
    BY <1>4, LengthsAre
  <2> HIDE DEF e
  <2>3. QED
    BY <1>1, <2>1, <2>2
<1>7. Gone(r, e, Rest(b) \o w)
  BY <1>6, RestIs
<1> HIDE DEF r, e
<1>8. SentFrom(s, r, e, n + 1) /\ e \in 0 .. e /\ e - e = 0
      /\ n + 1 \in 1 .. Len(s.frames) + 1
  BY <1>4, <1>5, <1>6, LengthsAre
<1>9. SentFrom(s, Rest(b) \o w, 0, n + 1)
  <2>1. SentFrom(s, Rest(b) \o w, e - e, n + 1)
    BY <1>6, <1>7, <1>8, GoneIs
  <2>2. QED
    BY <1>8, <2>1
<1>10. QED
  BY <1>4, <1>6, <1>9 DEF Junk

\* What is skipped before a frame is nothing.
LEMMA JunkSkipped ==
  ASSUME NEW s \in Scripts, NEW b \in Seq(TokensOf(Len(s.heard))),
         NEW w \in Seq(TokensOf(Len(s.heard))),
         NEW n \in 1 .. Len(s.frames) + 1, NEW d \in Nat, Junk(s, b \o w, d, n),
         ~Waits(b), ~Delivers(b)
  PROVE  \E k \in Nat : Junk(s, Skipped(b) \o w, k, n)
<1> DEFINE r == b \o w
<1>1. Begins(b, r) /\ Len(b) >= 3 /\ Len(b) \in Nat /\ b # <<>>
      /\ (HeaderAt(b, 1) => HeaderAt(r, 1)) /\ (Whole(b) => HeaderAt(b, 1))
  BY BufferBegins
<1>2. CASE d = 0
  <2>1. SentFrom(s, r, 0, n)
    BY <1>2 DEF Junk
  <2>2. n \in 1 .. Len(s.frames)
    <3>1. 0 < Len(b)
      BY <1>1
    <3>2. QED
      BY <1>1, <2>1, <3>1, StartIs
  <2>3. Holds(s, r, 0, n)
    BY <2>1, <2>2, NextIs
  <2>4. Whole(b)
    BY <1>1, <2>2, <2>3, HeadWaits
  <2>5. ~LostTail(b)
    BY <1>1, <2>1, <2>2, NotLostTail
  <2>6. QED
    BY <2>4, <2>5 DEF Delivers, Waits
<1>3. CASE d # 0
  <2>1. d >= 1
    BY <1>3
  <2>2. /\ SentFrom(s, r, d, n) /\ \A i \in 2 .. d : r[i].t # "magic0"
        /\ ~HeaderAt(r, 1)
    BY <2>1 DEF Junk
  <2>3. ~LostTail(b)
    BY <1>1, <2>2 DEF LostTail
  <2>4. Skipped(b) = Resynced(b)
    BY <2>3 DEF Skipped
  <2>5. PICK k \in 1 .. d : Junk(s, Resynced(b) \o w, d - k, n)
    BY <1>1, <2>1, <2>2, JunkResynced
  <2>6. d - k \in Nat
    BY <2>1
  <2>7. QED
    BY <2>4, <2>5, <2>6
<1>4. QED
  BY <1>2, <1>3

\* When the link is silent, to give up what waits is to give up nothing.
LEMMA JunkSilent ==
  ASSUME NEW s \in Scripts, NEW b \in Seq(TokensOf(Len(s.heard))),
         NEW w \in Seq(TokensOf(Len(s.heard))),
         NEW n \in 1 .. Len(s.frames) + 1, NEW d \in Nat, Junk(s, b \o w, d, n),
         b # <<>>, IF w = <<>> THEN TRUE ELSE Last(b).f # w[1].f, ~Whole(b)
  PROVE  \E k \in Nat : Junk(s, Resynced(b) \o w, k, n)
<1> DEFINE r == b \o w
<1>1. Begins(b, r) /\ Len(b) \in Nat
  BY BufferBegins
<1>2. CASE d = 0
  <2>1. SentFrom(s, r, 0, n)
    BY <1>2 DEF Junk
  <2>2. n \in 1 .. Len(s.frames)
    <3>1. Len(b) # 0
      OBVIOUS
    <3>2. 0 < Len(b)
      BY <1>1, <3>1
    <3>3. QED
      BY <1>1, <2>1, <3>2, StartIs
  <2>3. Holds(s, r, 0, n)
    BY <2>1, <2>2, NextIs
  <2>4. Len(b) >= Len(Framed(s, n))
    BY <2>2, <2>3, EdgeIs
  <2>5. Whole(b)
    BY <1>1, <2>2, <2>3, <2>4, TakenIs
  <2>6. QED
    BY <2>5
<1>3. CASE d # 0
  <2>1. d >= 1
    BY <1>3
  <2>2. SentFrom(s, r, d, n) /\ \A i \in 2 .. d : r[i].t # "magic0"
    BY DEF Junk
  <2>3. PICK k \in 1 .. d : Junk(s, Resynced(b) \o w, d - k, n)
    BY <2>1, <2>2, JunkResynced
  <2>4. d - k \in Nat
    BY <2>1
  <2>5. QED
    BY <2>3, <2>4
<1>4. QED
  BY <1>2, <1>3

\* A whole frame next, before a torn one.
LEMMA AheadTaken ==
  ASSUME NEW s \in Scripts, NoChance(s), NEW b \in Seq(TokensOf(Len(s.heard))),
         NEW w \in Seq(TokensOf(Len(s.heard))),
         NEW n \in 1 .. Len(s.frames), NEW a \in 1 .. Len(s.frames), n < a,
         NEW z \in a .. Len(s.frames), NEW m \in 0 .. Len(Framed(s, a)) - 1, NEW t \in Nat,
         Torn(s, b \o w, n, a, m, t, z)
  PROVE  /\ ~Waits(b) => Delivers(b)
         /\ Whole(b) => HeadOf(s, b, n) /\ Torn(s, Rest(b) \o w, n + 1, a, m, t, z)
         /\ b # <<>> /\ (IF w = <<>> THEN TRUE ELSE Last(b).f # w[1].f) => Whole(b)
<1> DEFINE r == b \o w
           e == Len(Framed(s, n))
<1>1. Begins(b, r) /\ Len(b) \in Nat
  BY BufferBegins
<1>2. /\ Holds(s, r, 0, n)
      /\ \A q : Gone(r, e, q) => Torn(s, q, n + 1, a, m, t, z)
  BY TornAhead
<1>3. Whole(b) => InnerHeaders(b) = {}
  BY <1>1, <1>2, NothingInside
<1>4. ~Waits(b) => Delivers(b)
  <2>1. ~Waits(b) => Whole(b)
    BY <1>1, <1>2, HeadWaits
  <2>2. QED
    BY <1>3, <2>1 DEF Delivers, LostTail, Undecided
<1>5. ASSUME Whole(b) PROVE HeadOf(s, b, n) /\ Torn(s, Rest(b) \o w, n + 1, a, m, t, z)
  <2>1. HeadOf(s, b, n) /\ End(b) = e /\ Len(b) >= e
    BY <1>1, <1>2, <1>5, HeadWaits
  <2>2. e \in Nat
    BY LengthsAre
  <2> HIDE DEF e, r
  <2>3. e <= Len(b)
    BY <1>1, <2>1, <2>2
  <2>4. Gone(r, e, Rest(b) \o w)
    BY <2>1, <2>2, <2>3, RestIs DEF r
  <2>5. QED
    BY <1>2, <2>1, <2>4
<1>6. ASSUME b # <<>>, IF w = <<>> THEN TRUE ELSE Last(b).f # w[1].f PROVE Whole(b)
  <2>1. Len(b) >= Len(Framed(s, n))
    BY <1>2, <1>6, EdgeIs
  <2>2. QED
    BY <1>1, <1>2, <2>1, TakenIs
<1>7. QED
  BY <1>4, <1>5, <1>6

\* The torn frame next, its header whole: what is left of it is skipped when
\* the next frame's header shows inside it.
LEMMA TornSkipped ==
  ASSUME NEW s \in Scripts, NoChance(s), NEW b \in Seq(TokensOf(Len(s.heard))),
         NEW w \in Seq(TokensOf(Len(s.heard))),
         NEW n \in 1 .. Len(s.frames), NEW z \in n .. Len(s.frames),
         z + 1 - n <= Window, NEW m \in 3 .. Len(Framed(s, n)) - 1,
         CutShort(s, b \o w, n, m, z), ~Waits(b), ~Delivers(b)
  PROVE  Junk(s, Skipped(b) \o w, 0, z + 1)
<1> DEFINE r == b \o w
           e == Len(Framed(s, n))
<1>1. Begins(b, r) /\ Len(b) \in Nat /\ Len(b) >= 3
  BY BufferBegins
<1>2. /\ e \in Nat /\ m \in Nat /\ m >= 3 /\ m < e
      /\ z + 1 \in 1 .. Len(s.frames) + 1
  <2>1. e \in Nat /\ Len(s.frames) \in Nat
    BY LengthsAre
  <2>2. m \in 3 .. e - 1
    OBVIOUS
  <2> HIDE DEF e
  <2>3. QED
    BY <2>1, <2>2
<1>4. \A i \in 1 .. 3 : b[i] = Framed(s, n)[i]
  <2>1. \A i \in 1 .. 3 : i \in 1 .. Len(b)
    BY <1>1
  <2>2. \A i \in 1 .. Len(b) : r[i] = b[i]
    BY <1>1 DEF Begins
  <2>3. \A i \in 1 .. 3 : r[i] = Framed(s, n)[i]
    BY DEF CutShort
  <2> HIDE DEF r
  <2>4. QED
    BY <2>1, <2>2, <2>3
<1>5. HeaderAt(b, 1) /\ End(b) = e
  BY <1>1, <1>4, HeadRead
<1>6. Whole(b)
  <2>1. ~(Len(b) < End(b))
    BY <1>5 DEF Waits
  <2>2. End(b) \in Nat
    BY <1>2, <1>5
  <2>3. Len(b) >= End(b)
    BY <1>1, <2>1, <2>2
  <2>4. QED
    BY <1>5, <2>3 DEF Whole
<1>7. LostTail(b) /\ InnerHeaders(b) # {}
  <2>1. LostTail(b)
    BY <1>6 DEF Waits, Delivers
  <2>2. QED
    BY <2>1 DEF LostTail
<1>8. /\ SentFrom(s, r, m, z + 1) /\ Len(b) >= e
      /\ m + 3 <= Len(b) => m + 1 \in InnerHeaders(b)
      /\ \A p \in InnerHeaders(b) : m + 1 <= p /\ m + 3 <= Len(b)
  BY <1>1, <1>6, TornInside
<1>9. InnerHeaders(b) \subseteq Nat
  BY <1>2, <1>5 DEF InnerHeaders, HEADER_LEN
<1>10. Min(InnerHeaders(b)) = m + 1
  <2> DEFINE H == InnerHeaders(b)
  <2>1. m + 1 \in H
    BY <1>7, <1>8
  <2>2. \A p \in H : m + 1 <= p
    BY <1>8
  <2> HIDE DEF H
  <2>3. H \subseteq Nat
    BY <1>9 DEF H
  <2>4. Min(H) = CHOOSE p \in H : \A q \in H : p <= q
    BY DEF Min
  <2>5. \A p \in H : (\A q \in H : p <= q) => p = m + 1
    BY <2>1, <2>2, <2>3
  <2>6. Min(H) = m + 1
    BY <2>1, <2>2, <2>4, <2>5
  <2>7. QED
    BY <2>6 DEF H
<1>11. Skipped(b) = SubSeq(b, m + 1, Len(b))
  BY <1>7, <1>10 DEF Skipped
<1>12. m <= Len(b)
  <2> HIDE DEF e
  <2>1. QED
    BY <1>1, <1>2, <1>8
<1>13. Gone(r, m, Skipped(b) \o w)
  BY <1>2, <1>11, <1>12, CutBoth
<1> HIDE DEF r
<1>14. m \in 0 .. m /\ m - m = 0
  BY <1>2
<1>15. SentFrom(s, Skipped(b) \o w, 0, z + 1)
  <2>1. SentFrom(s, Skipped(b) \o w, m - m, z + 1)
    BY <1>2, <1>8, <1>13, <1>14, GoneIs
  <2>2. QED
    BY <1>14, <2>1
<1>16. QED
  BY <1>15 DEF Junk

\* And given up with the silence, when it has not all its bytes.
LEMMA TornSilent ==
  ASSUME NEW s \in Scripts, NEW b \in Seq(TokensOf(Len(s.heard))),
         NEW w \in Seq(TokensOf(Len(s.heard))), b # <<>>,
         NEW n \in 1 .. Len(s.frames), NEW z \in n .. Len(s.frames),
         NEW m \in 3 .. Len(Framed(s, n)) - 1, CutShort(s, b \o w, n, m, z)
  PROVE  \E k \in Nat : Junk(s, Resynced(b) \o w, k, z + 1)
<1> DEFINE e == Len(Framed(s, n))
<1>1. m \in Nat /\ m >= 3 /\ z + 1 \in 1 .. Len(s.frames) + 1
  <2>1. e \in Nat /\ Len(s.frames) \in Nat
    BY LengthsAre
  <2>2. m \in 3 .. e - 1
    OBVIOUS
  <2> HIDE DEF e
  <2>3. QED
    BY <2>1, <2>2
<1>2. SentFrom(s, b \o w, m, z + 1) /\ \A i \in 2 .. m : (b \o w)[i].t # "magic0"
  BY DEF CutShort
<1>3. PICK k \in 1 .. m : Junk(s, Resynced(b) \o w, m - k, z + 1)
  <2>1. m >= 1
    BY <1>1
  <2>2. QED
    BY <1>1, <1>2, <2>1, JunkResynced
<1>4. m - k \in Nat
  BY <1>1
<1>5. QED
  BY <1>3, <1>4

-----------------------------------------------------------------------------
(* The invariant: how far the parser has come.                             *)

Missing(a, z) == \A g \in a .. z : g \notin intact

\* What is left of frame a and comes before what follows it is short by what the
\* hole says.
Fills(a, m, t, z) ==
  m >= 3 =>
    /\ m + t <= Len(Framed(script, a)) - 1
    /\ hole.short = Len(Framed(script, a)) - (m + t)
    /\ hole.after = Len(Sent(script)) - Start(script, z + 1)

\* Frames n and on are still to be parsed, after bytes that are nothing; or
\* those up to one that is torn, and what came after it.
AheadOf(b, w, n) ==
  \/ \E d \in Nat : Junk(script, b \o w, d, n)
  \/ /\ script.loses = "run" /\ ~FilledByHeader(w) /\ NoChance(script)
     /\ \E a \in n .. Len(script.frames) :
          \E z \in a .. Len(script.frames), m \in 0 .. Len(Framed(script, a)) - 1, t \in Nat :
            Torn(script, b \o w, n, a, m, t, z) /\ Missing(a, z) /\ Fills(a, m, t, z)

\* The records, delivered and not yet, are of the frames before n.
Account(o, q, n) ==
  /\ \A k \in 1 .. Len(o) : Genuine(o[k])
  /\ \A k \in 1 .. Len(q) : Genuine(q[k])
  /\ \A p \in Pkts(o) \cup Pkts(q) :
       \E f \in 1 .. Len(script.frames) : f < n /\ p \in PacketsOf(f)
  /\ Ascending(o) /\ Ascending(q)
  /\ \A x \in Pkts(o), y \in Pkts(q) : x < y
  /\ \A f \in 1 .. Len(script.frames) : f \in intact /\ f < n =>
       \A p \in PacketsOf(f) : Recordable(p) => p \in Pkts(o) \cup Pkts(q)

SoFar ==
  Untold \/ \E n \in 1 .. Len(script.frames) + 1 :
              AheadOf(buf, wire, n) /\ Account(out, pend, n)

\* No more frames are missing in a row than the window allows.
LEMMA WithinWindow ==
  ASSUME script \in Scripts, ~BeyondWindow, NEW a \in 1 .. Len(script.frames),
         NEW z \in a .. Len(script.frames), Missing(a, z)
  PROVE  z + 1 - a <= Window
<1> DEFINE N == Len(script.frames)
<1>1. N \in Nat
  BY ScriptIs
<1>2. PICK g \in a .. a + Window : ~(g \in (1 .. N) \ intact)
  BY DEF BeyondWindow
<1> HIDE DEF N
<1>3. a \in Nat /\ a >= 1 /\ z \in Nat /\ a <= z /\ z <= N
  <2>1. a \in 1 .. N /\ z \in a .. N
    BY DEF N
  <2>2. QED
    BY <1>1, <2>1
<1>4. g \in Nat /\ a <= g /\ g <= a + 64
  <2>1. g \in a .. a + 64
    BY <1>2 DEF Window
  <2>2. QED
    BY <1>3, <2>1
<1>5. g \notin a .. z
  <2>1. SUFFICES ASSUME g \in a .. z PROVE FALSE
    OBVIOUS
  <2>2. g \notin intact
    BY <2>1 DEF Missing
  <2>3. g \in 1 .. N
    BY <1>1, <1>3, <2>1
  <2>4. QED
    BY <1>2, <2>2, <2>3
<1>6. z < g
  BY <1>3, <1>4, <1>5
<1>7. z + 1 - a <= 64
  BY <1>3, <1>4, <1>6
<1>8. QED
  BY <1>7 DEF Window

\* Frames no record can be asked of.
LEMMA AccountSkips ==
  ASSUME script \in Scripts, NEW o, NEW q, NEW n \in 1 .. Len(script.frames) + 1,
         NEW k \in n .. Len(script.frames) + 1, Missing(n, k - 1), Account(o, q, n)
  PROVE  Account(o, q, k)
<1> DEFINE N == Len(script.frames)
<1>1. N \in Nat
  BY ScriptIs
<1>2. \A f \in 1 .. N : f < n => f < k
  <2> HIDE DEF N
  <2>1. n \in Nat /\ k \in Nat /\ n <= k
    <3>1. n \in 1 .. N + 1 /\ k \in n .. N + 1
      BY DEF N
    <3>2. QED
      BY <1>1, <3>1
  <2>2. QED
    BY <1>1, <2>1
<1>3. \A f \in 1 .. N : f \in intact /\ f < k => f < n
  <2> SUFFICES ASSUME NEW f \in 1 .. N, f \in intact, f < k, ~(f < n) PROVE FALSE
    OBVIOUS
  <2>1. f \in n .. k - 1
    <3> HIDE DEF N
    <3>1. n \in 1 .. N + 1 /\ k \in n .. N + 1
      BY DEF N
    <3>2. QED
      BY <1>1, <3>1
  <2>2. QED
    BY <2>1 DEF Missing
<1> HIDE DEF N
<1>4. QED
  BY <1>2, <1>3 DEF Account, N

\* Those of the frame at the head come after all there are.
LEMMA AccountTaken ==
  ASSUME script \in Scripts, NEW o, NEW n \in 1 .. Len(script.frames), NEW rs,
         Account(o, <<>>, n), Tells(n, rs)
  PROVE  Account(o, rs, n + 1)
<1> DEFINE N == Len(script.frames)
<1>1. N \in Nat /\ n \in Nat
  BY ScriptIs
<1>2. Pkts(<<>>) = {}
  BY DEF Pkts
<1>3. /\ \A k \in 1 .. Len(o) : Genuine(o[k])
      /\ \A p \in Pkts(o) : \E f \in 1 .. N : f < n /\ p \in PacketsOf(f)
      /\ Ascending(o)
      /\ \A f \in 1 .. N : f \in intact /\ f < n =>
           \A p \in PacketsOf(f) : Recordable(p) => p \in Pkts(o)
  BY <1>2 DEF Account
<1>4. /\ \A k \in 1 .. Len(rs) : Genuine(rs[k]) /\ rs[k].pkt \in PacketsOf(n)
      /\ Ascending(rs)
      /\ \A p \in PacketsOf(n) : Recordable(p) => p \in Pkts(rs)
  BY DEF Tells
<1>5. \A p \in Pkts(rs) : p \in PacketsOf(n)
  BY <1>4 DEF Pkts
<1>6. \A f \in 1 .. N : f < n => \A x \in PacketsOf(f), y \in PacketsOf(n) : x < y
  <2> SUFFICES ASSUME NEW f \in 1 .. N, f < n, NEW x \in PacketsOf(f), NEW y \in PacketsOf(n)
               PROVE  x < y
    OBVIOUS
  <2>1. PICK i \in 1 .. Len(script.frames[f].ps) : script.frames[f].ps[i] = x
    BY PacketsAre
  <2>2. PICK j \in 1 .. Len(script.frames[n].ps) : script.frames[n].ps[j] = y
    BY PacketsAre
  <2>3. script.frames[f].ps[i] < script.frames[n].ps[j]
    BY OrderAssumption
  <2>4. QED
    BY <2>1, <2>2, <2>3
<1>7. \A x \in Pkts(o), y \in Pkts(rs) : x < y
  BY <1>3, <1>5, <1>6
<1>8. \A f \in 1 .. N : f < n + 1 => f < n \/ f = n
  BY <1>1
<1>9. n \in 1 .. N /\ \A f \in 1 .. N : f < n => f < n + 1
  BY <1>1
<1>10. n < n + 1
  BY <1>1
<1> HIDE DEF N
<1>11. \A p \in Pkts(o) \cup Pkts(rs) : \E f \in 1 .. N : f < n + 1 /\ p \in PacketsOf(f)
  BY <1>3, <1>5, <1>9, <1>10
<1>12. \A f \in 1 .. N : f \in intact /\ f < n + 1 =>
         \A p \in PacketsOf(f) : Recordable(p) => p \in Pkts(o) \cup Pkts(rs)
  BY <1>3, <1>4, <1>8
<1>13. QED
  BY <1>3, <1>4, <1>7, <1>11, <1>12 DEF Account, N

\* The first of those pending is delivered.
LEMMA AccountYields ==
  ASSUME NEW S, NEW o \in Seq(S), NEW T, NEW q \in Seq(T), q # <<>>,
         NEW n, NEW r \in S, r.pkt = q[1].pkt, r.at = q[1].at,
         r.channel = q[1].channel, r.lost = q[1].lost, Account(o, q, n)
  PROVE  Account(Append(o, r), Tail(q), n)
<1> DEFINE o2 == Append(o, r)
           q2 == Tail(q)
           l == Len(o)
           h == Len(q)
<1>1. /\ l \in Nat /\ Len(o2) = l + 1 /\ o2[l + 1] = r
      /\ \A k \in 1 .. l : o2[k] = o[k]
  OBVIOUS
<1>2. /\ h \in Nat /\ h >= 1 /\ Len(q2) = h - 1
      /\ \A k \in 1 .. h - 1 : q2[k] = q[k + 1]
  <2>1. Len(q) \in Nat /\ Len(q) # 0
    OBVIOUS
  <2>2. Len(Tail(q)) = Len(q) - 1 /\ \A k \in 1 .. Len(q) - 1 : Tail(q)[k] = q[k + 1]
    BY HeadTailProperties
  <2>3. QED
    BY <2>1, <2>2
<1> HIDE DEF o2, q2, l, h
<1>3. /\ \A k \in 1 .. l : Genuine(o[k])
      /\ \A k \in 1 .. h : Genuine(q[k])
      /\ Ascending(o) /\ Ascending(q)
      /\ \A x \in Pkts(o), y \in Pkts(q) : x < y
  BY DEF Account, l, h
<1>4. Pkts(o2) = Pkts(o) \cup {q[1].pkt}
  <2>1. \A k \in 1 .. l + 1 : k \in 1 .. l \/ k = l + 1
    BY <1>1
  <2>2. l + 1 \in 1 .. l + 1 /\ \A k \in 1 .. l : k \in 1 .. l + 1
    BY <1>1
  <2>3. Pkts(o) = {o[k].pkt : k \in 1 .. l} /\ Pkts(o2) = {o2[k].pkt : k \in 1 .. l + 1}
    BY <1>1 DEF Pkts, l
  <2>4. QED
    BY <1>1, <2>1, <2>2, <2>3
<1>5. Pkts(q) = Pkts(q2) \cup {q[1].pkt}
  <2>1. 1 \in 1 .. h /\ \A k \in 1 .. h : k = 1 \/ (k - 1 \in 1 .. h - 1 /\ (k - 1) + 1 = k)
    BY <1>2
  <2>2. \A k \in 1 .. h - 1 : k + 1 \in 1 .. h
    BY <1>2
  <2>3. Pkts(q) = {q[k].pkt : k \in 1 .. h} /\ Pkts(q2) = {q2[k].pkt : k \in 1 .. h - 1}
    BY <1>2 DEF Pkts, h
  <2>4. Pkts(q) \subseteq Pkts(q2) \cup {q[1].pkt}
    <3> SUFFICES ASSUME NEW k \in 1 .. h PROVE q[k].pkt \in Pkts(q2) \cup {q[1].pkt}
      BY <2>3
    <3>1. CASE k # 1
      <4>1. k - 1 \in 1 .. h - 1 /\ (k - 1) + 1 = k
        BY <2>1, <3>1
      <4>2. q2[k - 1] = q[k]
        BY <1>2, <4>1
      <4>3. QED
        BY <2>3, <4>1, <4>2
    <3>2. QED
      BY <3>1
  <2>5. Pkts(q2) \cup {q[1].pkt} \subseteq Pkts(q)
    BY <1>2, <2>1, <2>2, <2>3
  <2>6. QED
    BY <2>4, <2>5
<1>6. \A k \in 1 .. Len(o2) : Genuine(o2[k])
  <2>1. Genuine(r)
    <3>1. 1 \in 1 .. h
      BY <1>2
    <3>2. Genuine(q[1])
      BY <1>3, <3>1
    <3>3. QED
      BY <3>2 DEF Genuine
  <2>2. \A k \in 1 .. Len(o2) : k \in 1 .. l \/ k = l + 1
    BY <1>1
  <2>3. QED
    BY <1>1, <1>3, <2>1, <2>2
<1>7. \A k \in 1 .. Len(q2) : Genuine(q2[k])
  <2>1. \A k \in 1 .. h - 1 : k + 1 \in 1 .. h
    BY <1>2
  <2>2. QED
    BY <1>2, <1>3, <2>1
<1>8. \A k \in 2 .. h : q[k - 1].pkt < q[k].pkt
  BY <1>3 DEF Ascending, h
<1>9. Ascending(q2)
  <2> SUFFICES ASSUME NEW k \in 2 .. Len(q2) PROVE q2[k - 1].pkt < q2[k].pkt
    BY DEF Ascending
  <2>1. k - 1 \in 1 .. h - 1 /\ k \in 1 .. h - 1 /\ (k - 1) + 1 = k /\ (k + 1) - 1 = k
        /\ k + 1 \in 2 .. h
    BY <1>2
  <2>2. q2[k - 1] = q[k] /\ q2[k] = q[k + 1]
    BY <1>2, <2>1
  <2>3. q[(k + 1) - 1].pkt < q[k + 1].pkt
    BY <1>8, <2>1
  <2>4. QED
    BY <2>1, <2>2, <2>3
<1>10. Ascending(o2)
  <2> SUFFICES ASSUME NEW k \in 2 .. Len(o2) PROVE o2[k - 1].pkt < o2[k].pkt
    BY DEF Ascending
  <2>1. CASE k = l + 1
    <3>1. k - 1 = l /\ l \in 1 .. l
      BY <1>1, <2>1
    <3>2. o[l].pkt \in Pkts(o)
      BY <3>1 DEF Pkts, l
    <3>3. q[1].pkt \in Pkts(q)
      BY <1>5
    <3>4. o2[k - 1] = o[l] /\ o2[k] = r
      BY <1>1, <2>1, <3>1
    <3>5. QED
      BY <1>3, <3>2, <3>3, <3>4
  <2>2. CASE k # l + 1
    <3>1. k \in 2 .. l /\ k \in 1 .. l /\ k - 1 \in 1 .. l
      BY <1>1, <2>2
    <3>2. o[k - 1].pkt < o[k].pkt
      BY <1>3, <3>1 DEF Ascending, l
    <3>3. QED
      BY <1>1, <3>1, <3>2
  <2>3. QED
    BY <2>1, <2>2
\* What is pending ascends, so the rest of it comes after the first.
<1>11. \A y \in Pkts(q2) : q[1].pkt < y
  <2>1. \A k \in 1 .. h : q[k].pkt \in Int
    BY <1>3 DEF Genuine
  <2> DEFINE G == {k \in Nat : k + 2 <= h => q[1].pkt < q[k + 2].pkt}
  <2>2. 0 \in G
    <3> SUFFICES ASSUME 2 <= h PROVE q[1].pkt < q[2].pkt
      OBVIOUS
    <3>1. 2 \in 2 .. h
      BY <1>2
    <3>2. q[2 - 1].pkt < q[2].pkt
      BY <1>8, <3>1
    <3>3. QED
      BY <3>2
  <2>3. ASSUME NEW k \in Nat, k \in G PROVE k + 1 \in G
    <3>1. SUFFICES ASSUME (k + 1) + 2 <= h PROVE q[1].pkt < q[(k + 1) + 2].pkt
      OBVIOUS
    <3>2. k + 2 <= h /\ (k + 1) + 2 \in 2 .. h /\ ((k + 1) + 2) - 1 = k + 2
          /\ 1 \in 1 .. h /\ k + 2 \in 1 .. h /\ (k + 1) + 2 \in 1 .. h
      BY <1>2, <3>1
    <3>3. q[1].pkt < q[k + 2].pkt
      BY <2>3, <3>2
    <3>4. q[((k + 1) + 2) - 1].pkt < q[(k + 1) + 2].pkt
      BY <1>8, <3>2
    <3> DEFINE x == q[1].pkt
               y == q[k + 2].pkt
               u == q[(k + 1) + 2].pkt
    <3>5. x \in Int /\ y \in Int /\ u \in Int
      BY <2>1, <3>2
    <3>6. x < y /\ y < u
      BY <3>2, <3>3, <3>4
    <3> HIDE DEF x, y, u
    <3>7. x < u
      BY <3>5, <3>6
    <3>8. QED
      BY <3>7 DEF x, u
  <2>4. \A k \in Nat : k \in G
    <3> HIDE DEF G
    <3>1. QED
      BY <2>2, <2>3, Induction
  <2>5. \A k \in 1 .. h - 1 : q[1].pkt < q[k + 1].pkt
    <3> TAKE k \in 1 .. h - 1
    <3>1. k - 1 \in Nat /\ (k - 1) + 2 = k + 1 /\ (k - 1) + 2 <= h
      BY <1>2
    <3>2. QED
      BY <2>4, <3>1
  <2>6. \A k \in 1 .. h - 1 : q[1].pkt < q2[k].pkt
    BY <1>2, <2>5
  <2>7. QED
    BY <1>2, <2>6 DEF Pkts
<1>12. \A x \in Pkts(o2), y \in Pkts(q2) : x < y
  BY <1>3, <1>4, <1>5, <1>11
<1>13. Pkts(o2) \cup Pkts(q2) = Pkts(o) \cup Pkts(q)
  BY <1>4, <1>5
<1>14. /\ \A p \in Pkts(o2) \cup Pkts(q2) :
            \E f \in 1 .. Len(script.frames) : f < n /\ p \in PacketsOf(f)
       /\ \A f \in 1 .. Len(script.frames) : f \in intact /\ f < n =>
            \A p \in PacketsOf(f) : Recordable(p) => p \in Pkts(o2) \cup Pkts(q2)
  BY <1>13 DEF Account
<1>15. Account(o2, q2, n)
  BY <1>6, <1>7, <1>9, <1>10, <1>12, <1>14 DEF Account
<1>16. QED
  BY <1>15 DEF o2, q2

\* What is left to parse, after each of the parser's steps.
Tokens == Seq(TokensOf(Heard))

\* The torn frame next: bytes that are nothing, or a frame too short by its header.
LEMMA TornHere ==
  ASSUME script \in Scripts, NoChance(script), NEW r \in Tokens, NEW w,
         Len(w) \in Nat, NEW n \in 1 .. Len(script.frames),
         NEW z \in n .. Len(script.frames),
         NEW m \in 0 .. Len(Framed(script, n)) - 1, NEW t \in Nat,
         Torn(script, r, n, n, m, t, z), Fills(n, m, t, z), ~FilledByHeader(w)
  PROVE  \/ \E d \in Nat : Junk(script, r, d, z + 1)
         \/ \E q \in 3 .. Len(Framed(script, n)) - 1 :
              /\ CutShort(script, r, n, q, z)
              /\ ~EndsAmid(script, Len(Framed(script, n)) - q, z, w)
<1> DEFINE e == Len(Framed(script, n))
           v == Len(Sent(script)) - Start(script, z + 1)
<1>1. e \in Nat /\ m \in 0 .. e - 1
  BY LengthsAre
<1>2. CASE m >= 3
  <2>1. m + t <= e - 1 /\ hole.short = e - (m + t) /\ hole.after = v
    BY <1>2 DEF Fills
  <2>2. ~(0 < hole.short /\ hole.short <= hole.after - Len(w) /\ hole.after - Len(w) < 3)
    BY DEF FilledByHeader, HEADER_LEN
  <2> HIDE DEF e, v
  <2>3. m \in 3 .. e - 1 /\ m + t \in 3 .. e - 1 /\ 0 < e - (m + t)
    BY <1>1, <1>2, <2>1
  <2>4. ~(e - (m + t) <= v - Len(w) /\ v - Len(w) < 3)
    BY <2>1, <2>2, <2>3
  <2>5. CutShort(script, r, n, m + t, z)
    BY <2>3, TornCut DEF e
  <2>6. ~EndsAmid(script, Len(Framed(script, n)) - (m + t), z, w)
    BY <2>4 DEF EndsAmid, HEADER_LEN, e, v
  <2>7. QED
    BY <2>3, <2>5, <2>6 DEF e
<1>3. CASE ~(m >= 3)
  <2> HIDE DEF e
  <2>1. m \in 0 .. 2 /\ m + t \in Nat
    BY <1>1, <1>3
  <2>2. r \in Seq(TokensOf(Heard))
    BY DEF Tokens
  <2>3. Junk(script, r, m + t, z + 1)
    BY <2>1, <2>2, TornShort
  <2>4. QED
    BY <2>1, <2>3
<1>4. QED
  BY <1>2, <1>3

\* Skipped: bytes that are nothing, or a frame that is missing.
LEMMA AheadSkipped ==
  ASSUME script \in Scripts, ~BeyondWindow, NEW b \in Tokens, NEW w \in Tokens,
         NEW n \in 1 .. Len(script.frames) + 1, AheadOf(b, w, n),
         ~Waits(b), ~Delivers(b)
  PROVE  \E k \in n .. Len(script.frames) + 1 :
            Missing(n, k - 1) /\ AheadOf(Skipped(b), w, k)
<1> DEFINE N == Len(script.frames)
<1>0. /\ b \in Seq(TokensOf(Len(script.heard))) /\ w \in Seq(TokensOf(Len(script.heard)))
      /\ N \in Nat
  BY ScriptIs DEF Tokens, Heard
<1>1. CASE \E d \in Nat : Junk(script, b \o w, d, n)
  <2>1. \E k \in Nat : Junk(script, Skipped(b) \o w, k, n)
    BY <1>0, <1>1, JunkSkipped
  <2>2. AheadOf(Skipped(b), w, n)
    BY <2>1 DEF AheadOf
  <2>3. n \in n .. N + 1
    <3>1. n \in 1 .. N + 1
      OBVIOUS
    <3> HIDE DEF N
    <3>2. QED
      BY <1>0, <3>1
  <2>4. Missing(n, n - 1)
    <3>1. \A g \in n .. n - 1 : FALSE
      BY <2>3
    <3>2. QED
      BY <3>1 DEF Missing
  <2>5. QED
    BY <2>2, <2>3, <2>4
<1>2. CASE ~(\E d \in Nat : Junk(script, b \o w, d, n))
  <2>1. NoChance(script) /\ ~FilledByHeader(w)
    BY <1>2 DEF AheadOf
  <2>2. PICK a \in n .. N :
          \E z \in a .. N, m \in 0 .. Len(Framed(script, a)) - 1, t \in Nat :
            Torn(script, b \o w, n, a, m, t, z) /\ Missing(a, z) /\ Fills(a, m, t, z)
    BY <1>2 DEF AheadOf
  <2>3. PICK z \in a .. N, m \in 0 .. Len(Framed(script, a)) - 1, t \in Nat :
          Torn(script, b \o w, n, a, m, t, z) /\ Missing(a, z) /\ Fills(a, m, t, z)
    BY <2>2
  <2>4. /\ n \in 1 .. N /\ a \in 1 .. N /\ n <= a /\ a <= z /\ z \in 1 .. N
        /\ z + 1 \in n .. N + 1 /\ (z + 1) - 1 = z /\ z + 1 \in 1 .. N + 1 /\ z \in Int
    <3>1. n \in 1 .. N + 1
      OBVIOUS
    <3>2. a \in n .. N /\ z \in a .. N
      OBVIOUS
    <3> HIDE DEF N
    <3>3. QED
      BY <1>0, <3>1, <3>2
  <2>5. CASE n < a
    BY <1>0, <2>1, <2>3, <2>4, <2>5, AheadTaken
  <2>6. CASE n = a
    <3>1. z + 1 - n <= Window
      BY <2>3, <2>4, <2>6, WithinWindow
    <3>2. \E k \in Nat : Junk(script, Skipped(b) \o w, k, z + 1)
      <4>1. \/ \E d \in Nat : Junk(script, b \o w, d, z + 1)
            \/ \E q \in 3 .. Len(Framed(script, n)) - 1 : CutShort(script, b \o w, n, q, z)
        <5>1. b \o w \in Tokens /\ Len(w) \in Nat
          BY <1>0 DEF Tokens, Heard
        <5>2. QED
          BY <1>0, <2>1, <2>3, <2>4, <2>6, <5>1, TornHere
      <4>2. CASE \E d \in Nat : Junk(script, b \o w, d, z + 1)
        BY <1>0, <2>4, <4>2, JunkSkipped
      <4>3. CASE \E q \in 3 .. Len(Framed(script, n)) - 1 : CutShort(script, b \o w, n, q, z)
        BY <1>0, <2>1, <2>4, <2>6, <3>1, <4>3, TornSkipped
      <4>4. QED
        BY <4>1, <4>2, <4>3
    <3>3. AheadOf(Skipped(b), w, z + 1)
      BY <3>2 DEF AheadOf
    <3>4. QED
      BY <2>3, <2>4, <2>6, <3>3
  <2>7. QED
    BY <2>4, <2>5, <2>6
<1>3. QED
  BY <1>1, <1>2

\* Given up when the link is silent: the same.
LEMMA AheadSilent ==
  ASSUME script \in Scripts, ~BeyondWindow, NEW b \in Tokens, NEW w \in Tokens,
         NEW n \in 1 .. Len(script.frames) + 1, AheadOf(b, w, n),
         b # <<>>, IF w = <<>> THEN TRUE ELSE Last(b).f # w[1].f, ~Whole(b)
  PROVE  \E k \in n .. Len(script.frames) + 1 :
            Missing(n, k - 1) /\ AheadOf(Resynced(b), w, k)
<1> DEFINE N == Len(script.frames)
<1>0. /\ b \in Seq(TokensOf(Len(script.heard))) /\ w \in Seq(TokensOf(Len(script.heard)))
      /\ N \in Nat
  BY ScriptIs DEF Tokens, Heard
<1>1. CASE \E d \in Nat : Junk(script, b \o w, d, n)
  <2>1. \E k \in Nat : Junk(script, Resynced(b) \o w, k, n)
    BY <1>0, <1>1, JunkSilent
  <2>2. AheadOf(Resynced(b), w, n)
    BY <2>1 DEF AheadOf
  <2>3. n \in n .. N + 1
    <3>1. n \in 1 .. N + 1
      OBVIOUS
    <3> HIDE DEF N
    <3>2. QED
      BY <1>0, <3>1
  <2>4. Missing(n, n - 1)
    <3>1. \A g \in n .. n - 1 : FALSE
      BY <2>3
    <3>2. QED
      BY <3>1 DEF Missing
  <2>5. QED
    BY <2>2, <2>3, <2>4
<1>2. CASE ~(\E d \in Nat : Junk(script, b \o w, d, n))
  <2>1. NoChance(script) /\ ~FilledByHeader(w)
    BY <1>2 DEF AheadOf
  <2>2. PICK a \in n .. N :
          \E z \in a .. N, m \in 0 .. Len(Framed(script, a)) - 1, t \in Nat :
            Torn(script, b \o w, n, a, m, t, z) /\ Missing(a, z) /\ Fills(a, m, t, z)
    BY <1>2 DEF AheadOf
  <2>3. PICK z \in a .. N, m \in 0 .. Len(Framed(script, a)) - 1, t \in Nat :
          Torn(script, b \o w, n, a, m, t, z) /\ Missing(a, z) /\ Fills(a, m, t, z)
    BY <2>2
  <2>4. /\ n \in 1 .. N /\ a \in 1 .. N /\ n <= a /\ a <= z /\ z \in 1 .. N
        /\ z + 1 \in n .. N + 1 /\ (z + 1) - 1 = z /\ z + 1 \in 1 .. N + 1 /\ z \in Int
    <3>1. n \in 1 .. N + 1
      OBVIOUS
    <3>2. a \in n .. N /\ z \in a .. N
      OBVIOUS
    <3> HIDE DEF N
    <3>3. QED
      BY <1>0, <3>1, <3>2
  <2>5. CASE n < a
    BY <1>0, <2>1, <2>3, <2>4, <2>5, AheadTaken
  <2>6. CASE n = a
    <3>2. \E k \in Nat : Junk(script, Resynced(b) \o w, k, z + 1)
      <4>1. \/ \E d \in Nat : Junk(script, b \o w, d, z + 1)
            \/ \E q \in 3 .. Len(Framed(script, n)) - 1 : CutShort(script, b \o w, n, q, z)
        <5>1. b \o w \in Tokens /\ Len(w) \in Nat
          BY <1>0 DEF Tokens, Heard
        <5>2. QED
          BY <1>0, <2>1, <2>3, <2>4, <2>6, <5>1, TornHere
      <4>2. CASE \E d \in Nat : Junk(script, b \o w, d, z + 1)
        BY <1>0, <2>4, <4>2, JunkSilent
      <4>3. CASE \E q \in 3 .. Len(Framed(script, n)) - 1 : CutShort(script, b \o w, n, q, z)
        BY <1>0, <2>4, <2>6, <4>3, TornSilent
      <4>4. QED
        BY <4>1, <4>2, <4>3
    <3>3. AheadOf(Resynced(b), w, z + 1)
      BY <3>2 DEF AheadOf
    <3>4. QED
      BY <2>3, <2>4, <2>6, <3>3
  <2>7. QED
    BY <2>4, <2>5, <2>6
<1>3. QED
  BY <1>1, <1>2

\* A frame taken is the next, and the rest are still ahead.
LEMMA AheadOnwards ==
  ASSUME script \in Scripts, ~BeyondWindow, NEW b \in Tokens, NEW w \in Tokens,
         NEW n \in 1 .. Len(script.frames) + 1, AheadOf(b, w, n),
         Whole(b), Delivers(b) \/ script.loses # "run"
  PROVE  \E k \in n .. Len(script.frames) :
            /\ Missing(n, k - 1) /\ k \in 1 .. Len(script.frames)
            /\ k \in 1 .. Len(script.frames) + 1 /\ k + 1 \in 1 .. Len(script.frames) + 1
            /\ HeadOf(script, b, k) /\ AheadOf(Rest(b), w, k + 1)
<1> DEFINE N == Len(script.frames)
<1>0. /\ b \in Seq(TokensOf(Len(script.heard))) /\ w \in Seq(TokensOf(Len(script.heard)))
      /\ N \in Nat
  BY ScriptIs DEF Tokens, Heard
<1>1. \A k \in 1 .. N : k \in 1 .. N + 1 /\ k + 1 \in 1 .. N + 1
  <2> HIDE DEF N
  <2>1. QED
    BY <1>0
<1>1a. n \in 1 .. N => n \in n .. N
  <2> HIDE DEF N
  <2>1. QED
    BY <1>0
<1>1b. Missing(n, n - 1)
  <2>1. n \in 1 .. N + 1
    OBVIOUS
  <2> HIDE DEF N
  <2>2. \A g \in n .. n - 1 : FALSE
    BY <1>0, <2>1
  <2>3. QED
    BY <2>2 DEF Missing
<1>2. CASE \E d \in Nat : Junk(script, b \o w, d, n)
  <2>1. n \in 1 .. N /\ HeadOf(script, b, n) /\ Junk(script, Rest(b) \o w, 0, n + 1)
    BY <1>0, <1>2, JunkTaken
  <2>2. AheadOf(Rest(b), w, n + 1)
    BY <2>1 DEF AheadOf
  <2>3. QED
    BY <1>1, <1>1a, <1>1b, <2>1, <2>2
<1>3. CASE ~(\E d \in Nat : Junk(script, b \o w, d, n))
  <2>1. NoChance(script) /\ script.loses = "run" /\ ~FilledByHeader(w) /\ Delivers(b)
    BY <1>3 DEF AheadOf
  <2>2. PICK a \in n .. N :
          \E z \in a .. N, m \in 0 .. Len(Framed(script, a)) - 1, t \in Nat :
            Torn(script, b \o w, n, a, m, t, z) /\ Missing(a, z) /\ Fills(a, m, t, z)
    BY <1>3 DEF AheadOf
  <2>3. PICK z \in a .. N, m \in 0 .. Len(Framed(script, a)) - 1, t \in Nat :
          Torn(script, b \o w, n, a, m, t, z) /\ Missing(a, z) /\ Fills(a, m, t, z)
    BY <2>2
  <2>4. /\ n \in 1 .. N /\ a \in 1 .. N /\ n <= a /\ a <= z /\ z \in 1 .. N
        /\ z + 1 \in 1 .. N + 1 /\ n < a => a \in n + 1 .. N
    <3>1. n \in 1 .. N + 1
      OBVIOUS
    <3>2. a \in n .. N /\ z \in a .. N
      OBVIOUS
    <3> HIDE DEF N
    <3>3. QED
      BY <1>0, <3>1, <3>2
  <2>5. CASE n < a
    <3>1. HeadOf(script, b, n) /\ Torn(script, Rest(b) \o w, n + 1, a, m, t, z)
      BY <1>0, <2>1, <2>3, <2>4, <2>5, AheadTaken
    <3>2. a \in n + 1 .. N
      BY <2>4, <2>5
    <3>3. AheadOf(Rest(b), w, n + 1)
      BY <2>1, <2>3, <3>1, <3>2 DEF AheadOf
    <3>4. QED
      BY <1>1, <1>1a, <1>1b, <2>4, <3>1, <3>3
  <2>6. CASE n = a
    <3>1. z + 1 - n <= Window
      BY <2>3, <2>4, <2>6, WithinWindow
    <3>2. \/ \E d \in Nat : Junk(script, b \o w, d, z + 1)
          \/ \E q \in 3 .. Len(Framed(script, n)) - 1 :
               /\ CutShort(script, b \o w, n, q, z)
               /\ ~EndsAmid(script, Len(Framed(script, n)) - q, z, w)
      <4>1. b \o w \in Tokens /\ Len(w) \in Nat
        BY <1>0 DEF Tokens, Heard
      <4>2. QED
        BY <1>0, <2>1, <2>3, <2>4, <2>6, <4>1, TornHere
    <3>3. CASE \E q \in 3 .. Len(Framed(script, n)) - 1 :
                 /\ CutShort(script, b \o w, n, q, z)
                 /\ ~EndsAmid(script, Len(Framed(script, n)) - q, z, w)
      BY <1>0, <2>1, <2>4, <2>6, <3>1, <3>3, TornIsTold
    <3>4. CASE \E d \in Nat : Junk(script, b \o w, d, z + 1)
      <4>1. /\ z + 1 \in 1 .. N /\ HeadOf(script, b, z + 1)
            /\ Junk(script, Rest(b) \o w, 0, (z + 1) + 1)
        BY <1>0, <2>4, <3>4, JunkTaken
      <4>2. AheadOf(Rest(b), w, (z + 1) + 1)
        BY <4>1 DEF AheadOf
      <4>3. z + 1 \in n .. N /\ (z + 1) - 1 = z
        <5>1. n \in 1 .. N /\ z \in 1 .. N /\ n <= a /\ a <= z /\ a \in 1 .. N
          BY <2>4
        <5> HIDE DEF N
        <5>2. QED
          BY <1>0, <4>1, <5>1
      <4>4. QED
        BY <1>1, <2>3, <2>6, <4>1, <4>2, <4>3
    <3>5. QED
      BY <3>2, <3>3, <3>4
  <2>7. QED
    BY <2>4, <2>5, <2>6
<1>4. QED
  BY <1>2, <1>3

\* A read moves bytes from one side to the other.
LEMMA ReadJoins ==
  ASSUME NEW S, NEW b \in Seq(S), NEW w \in Seq(S), NEW n \in 1 .. Len(w)
  PROVE  (b \o SubSeq(w, 1, n)) \o SubSeq(w, n + 1, Len(w)) = b \o w
<1> DEFINE c == SubSeq(w, 1, n)
           t == SubSeq(w, n + 1, Len(w))
           l == Len(w)
           d == b \o c
<1>1. l \in Nat /\ n \in Nat /\ n >= 1 /\ n <= l
  OBVIOUS
<1>2. t \in Seq(S) /\ Len(t) = l - n /\ \A i \in 1 .. l - n : t[i] = w[n + i]
  BY <1>1, CutFront
<1>3. c \in Seq(S)
  <2>1. 1 \in 1 .. Len(w) + 1 /\ n \in 1 - 1 .. Len(w)
    BY <1>1
  <2>2. QED
    BY <2>1, CutIs
<1>4. Len(c) = n /\ \A i \in 1 .. n : c[i] = w[i]
  <2>1. \A i \in 1 .. n : w[i] \in S
    BY <1>1
  <2>2. 1 \in Int /\ n \in Int /\ 1 <= n + 1
    BY <1>1
  <2>3. /\ Len(SubSeq(w, 1, n)) = IF 1 <= n THEN n - 1 + 1 ELSE 0
        /\ \A i \in 1 .. n - 1 + 1 : SubSeq(w, 1, n)[i] = w[1 + i - 1]
    BY <2>1, <2>2, SubSeqProperties
  <2> HIDE DEF c
  <2>4. n - 1 + 1 = n /\ \A i \in 1 .. n : 1 + i - 1 = i
    BY <1>1
  <2>5. QED
    BY <1>1, <2>3, <2>4 DEF c
<1> HIDE DEF c, t
<1>5. /\ d \in Seq(S) /\ Len(d) = Len(b) + n
      /\ \A i \in 1 .. Len(b) : d[i] = b[i]
      /\ \A i \in 1 .. n : d[Len(b) + i] = c[i]
  <2>1. /\ d \in Seq(S) /\ Len(d) = Len(b) + Len(c)
        /\ \A i \in 1 .. Len(b) : d[i] = b[i]
        /\ \A i \in 1 .. Len(c) : d[Len(b) + i] = c[i]
    BY <1>3, JoinedIs
  <2>2. QED
    BY <1>4, <2>1
<1> HIDE DEF d
<1> DEFINE x == d \o t
           y == b \o w
           h == Len(b)
<1>6. /\ x \in Seq(S) /\ Len(x) = (h + n) + (l - n)
      /\ \A i \in 1 .. h + n : x[i] = d[i]
      /\ \A i \in 1 .. l - n : x[(h + n) + i] = t[i]
  <2>0. d \in Seq(S) /\ t \in Seq(S)
    BY <1>2, <1>5
  <2>1. /\ x \in Seq(S) /\ Len(x) = Len(d) + Len(t)
        /\ \A i \in 1 .. Len(d) : x[i] = d[i]
        /\ \A i \in 1 .. Len(t) : x[Len(d) + i] = t[i]
    BY <2>0, JoinedIs
  <2>2. QED
    BY <1>2, <1>5, <2>1
<1>7. /\ y \in Seq(S) /\ Len(y) = h + l
      /\ \A i \in 1 .. h : y[i] = b[i]
      /\ \A i \in 1 .. l : y[h + i] = w[i]
  BY JoinedIs
<1>8. h \in Nat
  OBVIOUS
<1> HIDE DEF x, y, h, l
<1>9. Len(x) = Len(y)
  BY <1>1, <1>6, <1>7, <1>8
<1>10. ASSUME NEW i \in 1 .. Len(x) PROVE x[i] = y[i]
  <2>0. i \in 1 .. h + l
    BY <1>7, <1>9
  <2>1. CASE i <= h
    <3>1. i \in 1 .. h /\ i \in 1 .. h + n
      BY <1>1, <1>8, <2>0, <2>1
    <3>2. QED
      BY <1>5, <1>6, <1>7, <3>1 DEF h
  <2>2. CASE i > h /\ i <= h + n
    <3>1. /\ i - h \in 1 .. n /\ i - h \in 1 .. l /\ i \in 1 .. h + n /\ h + (i - h) = i
      BY <1>1, <1>8, <2>0, <2>2
    <3>2. d[h + (i - h)] = c[i - h] /\ c[i - h] = w[i - h]
      BY <1>4, <1>5, <3>1 DEF h
    <3>3. y[h + (i - h)] = w[i - h]
      BY <1>7, <3>1
    <3>4. QED
      BY <1>6, <3>1, <3>2, <3>3
  <2>3. CASE i > h + n
    <3>1. /\ i - (h + n) \in 1 .. l - n /\ i - h \in 1 .. l
          /\ (h + n) + (i - (h + n)) = i /\ n + (i - (h + n)) = i - h /\ h + (i - h) = i
      BY <1>1, <1>8, <2>0, <2>3
    <3>2. x[(h + n) + (i - (h + n))] = t[i - (h + n)]
      BY <1>6, <3>1
    <3>3. t[i - (h + n)] = w[n + (i - (h + n))]
      BY <1>2, <3>1
    <3>4. y[h + (i - h)] = w[i - h]
      BY <1>7, <3>1
    <3>5. QED
      BY <3>1, <3>2, <3>3, <3>4
  <2>4. i <= h \/ (i > h /\ i <= h + n) \/ i > h + n
    BY <1>1, <1>8, <2>0
  <2>5. QED
    BY <2>1, <2>2, <2>3, <2>4
<1>11. x = y
  BY <1>6, <1>7, <1>9, <1>10, SequencesEqual
<1>12. QED
  BY <1>11 DEF x, y, d, c, t, l

\* Read: what is left to parse is the same.
LEMMA AheadRead ==
  ASSUME RecordTypes, Read, ~spliced', NEW n, AheadOf(buf, wire, n)
  PROVE  AheadOf(buf', wire', n)
<1>1. PICK k \in 1 .. Len(wire) :
        buf' = buf \o SubSeq(wire, 1, k) /\ wire' = SubSeq(wire, k + 1, Len(wire))
  BY DEF Read, Pieces
<1>2. buf \in Seq(TokensOf(Heard)) /\ wire \in Seq(TokensOf(Heard))
  BY DEF RecordTypes
<1>3. buf' \o wire' = buf \o wire
  BY <1>1, <1>2, ReadJoins
<1>4. ~FilledByHeader(wire')
  <2>1. spliced' = (spliced \/ FilledByHeader(wire'))
    BY DEF Read
  <2>2. QED
    BY <2>1, Zenon
<1>5. QED
  BY <1>3, <1>4 DEF AheadOf

\* The invariant, of the variables a step sets.
LEMMA SoFarIs ==
  ASSUME script' = script, intact' = intact, hole' = hole,
         NEW n \in 1 .. Len(script.frames) + 1,
         AheadOf(buf', wire', n), Account(out', pend', n)
  PROVE  SoFar'
<1>1. n \in 1 .. Len(script'.frames) + 1
  OBVIOUS
<1>2. AheadOf(buf, wire, n)'
  BY DEF AheadOf, Missing, Fills, FilledByHeader
<1>3. Account(out, pend, n)'
  BY DEF Account, Genuine, PacketsOf, Recordable, Heard, Pkts, Ascending
<1>4. QED
  BY <1>1, <1>2, <1>3 DEF SoFar

\* What cannot be told stays so.
LEMMA UntoldKept ==
  ASSUME script' = script, intact' = intact, Untold, spliced => spliced'
  PROVE  Untold'
  BY DEF Untold, BeyondWindow, ChanceAmidLoss

\* What the board sends, and what of it comes whole, is settled at the start.
LEMMA ScriptKept ==
  ASSUME [RecordsNext]_rvars
  PROVE  script' = script /\ intact' = intact /\ hole' = hole /\ (spliced => spliced')
<1>1. script' = script /\ intact' = intact /\ hole' = hole
  BY DEF RecordsNext, Loop, Read, Skip, Parse, Yield, ForceResync, Tick, rvars
<1>2. CASE Skip \/ Parse \/ Yield \/ Tick \/ UNCHANGED rvars
  <2>1. spliced' = spliced
    BY <1>2 DEF Skip, Parse, Yield, Tick, rvars
  <2>2. QED
    BY <1>1, <2>1
<1>3. CASE ForceResync
  <2>1. spliced' = (spliced \/ script.loses = "run") \/ spliced' = spliced
    BY <1>3 DEF ForceResync
  <2>2. spliced => spliced'
    BY <2>1, Zenon
  <2>3. QED
    BY <1>1, <2>2
<1>4. CASE Read
  <2>1. spliced' = (spliced \/ FilledByHeader(wire'))
    BY <1>4 DEF Read
  <2>2. spliced => spliced'
    BY <2>1, Zenon
  <2>3. QED
    BY <1>1, <2>2
<1>5. QED
  BY <1>2, <1>3, <1>4 DEF RecordsNext, Loop

\* Every step of the loop keeps the invariant.
LEMMA SoFarKept == TimeInv /\ SoFar /\ [RecordsNext]_rvars => SoFar'
<1> SUFFICES ASSUME TimeInv, SoFar, [RecordsNext]_rvars PROVE SoFar'
  OBVIOUS
<1>1. /\ RecordTypes /\ clock.last <= now + MaxSkew /\ script \in Scripts
      /\ buf \in Tokens /\ wire \in Tokens
      /\ pend \in Seq(RecordsUpTo(Heard)) /\ out \in Seq(Delivered(Heard))
  BY DEF TimeInv, InTime, RecordTypes, Tokens
<1>2. script' = script /\ intact' = intact /\ hole' = hole /\ (spliced => spliced')
  BY ScriptKept
<1>3. SUFFICES ASSUME ~Untold, ~Untold' PROVE SoFar'
  BY <1>2, UntoldKept DEF SoFar
<1>4. PICK n \in 1 .. Len(script.frames) + 1 :
        AheadOf(buf, wire, n) /\ Account(out, pend, n)
  BY <1>3 DEF SoFar
<1>5. ~BeyondWindow
  BY <1>3 DEF Untold
<1>6. ASSUME UNCHANGED <<buf, wire, out, pend>> PROVE SoFar'
  BY <1>2, <1>4, <1>6, SoFarIs
<1>7. CASE Read
  <2>1. UNCHANGED <<out, pend>>
    BY <1>7 DEF Read
  <2>2. AheadOf(buf', wire', n)
    <3>1. ~spliced'
      BY <1>3 DEF Untold
    <3>2. QED
      BY <1>1, <1>4, <1>7, <3>1, AheadRead
  <2>3. QED
    BY <1>2, <1>4, <2>1, <2>2, SoFarIs
<1>8. CASE Skip
  <2>1. /\ UNCHANGED <<wire, out, pend>> /\ buf' = Skipped(buf)
        /\ ~Waits(buf) /\ ~Delivers(buf)
    BY <1>8 DEF Skip
  <2>2. PICK k \in n .. Len(script.frames) + 1 :
          Missing(n, k - 1) /\ AheadOf(Skipped(buf), wire, k)
    BY <1>1, <1>4, <1>5, <2>1, AheadSkipped
  <2>3. Account(out, pend, k)
    BY <1>1, <1>4, <2>2, AccountSkips
  <2>4. k \in 1 .. Len(script.frames) + 1
    BY <1>1, ScriptIs
  <2>5. QED
    BY <1>2, <2>1, <2>2, <2>3, <2>4, SoFarIs
\* A frame taken: whichever it is, the rest follows.
<1>9. ASSUME Whole(buf), Delivers(buf) \/ script.loses # "run", pend = <<>>,
             buf' = Rest(buf), wire' = wire, out' = out,
             pend' = RecordsOf(HeadFrame(buf))
      PROVE  SoFar'
  <2>1. PICK k \in n .. Len(script.frames) :
          /\ Missing(n, k - 1) /\ k \in 1 .. Len(script.frames)
          /\ k \in 1 .. Len(script.frames) + 1 /\ k + 1 \in 1 .. Len(script.frames) + 1
          /\ HeadOf(script, buf, k) /\ AheadOf(Rest(buf), wire, k + 1)
    BY <1>1, <1>4, <1>5, <1>9, AheadOnwards
  <2>2. k \in n .. Len(script.frames) + 1
    <3> DEFINE N == Len(script.frames)
    <3>1. N \in Nat /\ n \in 1 .. N + 1 /\ k \in n .. N
      BY <1>1, ScriptIs
    <3> HIDE DEF N
    <3>2. k \in n .. N + 1
      BY <3>1
    <3>3. QED
      BY <3>2 DEF N
  <2>3. Account(out, <<>>, k)
    BY <1>1, <1>4, <1>9, <2>1, <2>2, AccountSkips
  <2>4. Tells(k, RecordsOf(HeadFrame(buf)))
    BY <1>1, <2>1, RecordsAre DEF HeadOf
  <2>5. Account(out, pend', k + 1)
    BY <1>1, <1>9, <2>1, <2>3, <2>4, AccountTaken
  <2>6. QED
    BY <1>2, <1>9, <2>1, <2>5, SoFarIs
<1>10. CASE Parse
  <2>1. /\ Whole(buf) /\ Delivers(buf) /\ pend = <<>>
        /\ buf' = Rest(buf) /\ wire' = wire /\ out' = out
        /\ pend' = RecordsOf(HeadFrame(buf))
    BY <1>10 DEF Parse, Delivers
  <2>2. QED
    BY <1>9, <2>1
<1>11. CASE Yield
  <2> DEFINE r == [pkt |-> pend[1].pkt, at |-> pend[1].at,
                   channel |-> pend[1].channel, lost |-> pend[1].lost,
                   stamp |-> clock'.last, now |-> now]
  <2>1. UNCHANGED <<wire, buf>> /\ pend # <<>> /\ pend' = Tail(pend)
    BY <1>11 DEF Yield
  <2>2. out' = Append(out, r) /\ r \in Delivered(Heard)
    <3>1. /\ pend[1] \in RecordsUpTo(Heard) /\ clock' \in Clock /\ out' = Append(out, r)
      BY <1>1, <1>11, YieldTypes
    <3>2. r \in Delivered(Heard)
      BY <1>1, <3>1 DEF RecordsUpTo, Clock, Delivered, RecordTypes
    <3>3. QED
      BY <3>1, <3>2
  <2>3. /\ r.pkt = pend[1].pkt /\ r.at = pend[1].at /\ r.channel = pend[1].channel
        /\ r.lost = pend[1].lost
    OBVIOUS
  <2> HIDE DEF r
  <2>4. Account(Append(out, r), Tail(pend), n)
    BY <1>1, <1>4, <2>1, <2>2, <2>3, AccountYields
  <2>5. QED
    BY <1>2, <1>4, <2>1, <2>2, <2>4, SoFarIs
<1>12. CASE ForceResync
  <2>1. /\ pend = <<>> /\ buf # <<>>
        /\ IF wire = <<>> THEN TRUE ELSE Last(buf).f # wire[1].f
        /\ wire' = wire /\ out' = out
    BY <1>12 DEF ForceResync, Silence
  <2>2. CASE Whole(buf)
    <3>1. /\ buf' = Rest(buf) /\ pend' = RecordsOf(HeadFrame(buf))
          /\ spliced' = (spliced \/ script.loses = "run")
      BY <1>12, <2>2 DEF ForceResync
    <3>2. script.loses # "run"
      BY <1>3, <3>1 DEF Untold
    <3>3. QED
      BY <1>9, <2>1, <2>2, <3>1, <3>2
  <2>3. CASE ~Whole(buf)
    <3>1. buf' = Resynced(buf) /\ pend' = pend
      BY <1>12, <2>3 DEF ForceResync
    <3>2. PICK k \in n .. Len(script.frames) + 1 :
            Missing(n, k - 1) /\ AheadOf(Resynced(buf), wire, k)
      BY <1>1, <1>4, <1>5, <2>1, <2>3, AheadSilent
    <3>3. Account(out, pend, k)
      BY <1>1, <1>4, <3>2, AccountSkips
    <3>4. k \in 1 .. Len(script.frames) + 1
      BY <1>1, ScriptIs
    <3>5. QED
      BY <1>2, <2>1, <3>1, <3>2, <3>3, <3>4, SoFarIs
  <2>4. QED
    BY <2>2, <2>3
<1>13. CASE Tick
  BY <1>6, <1>13 DEF Tick
<1>14. CASE UNCHANGED rvars
  BY <1>6, <1>14 DEF rvars
<1>15. QED
  BY <1>7, <1>8, <1>10, <1>11, <1>12, <1>13, <1>14 DEF RecordsNext, Loop

\* What is left of all that was sent, when bytes c to e are lost.
LEMMA LeftIs ==
  ASSUME NEW S, NEW t \in Seq(S), NEW c \in Nat, c >= 1, c <= Len(t) + 1,
         NEW e \in Nat, e <= Len(t)
  PROVE  LET r == SubSeq(t, 1, c - 1) \o SubSeq(t, e + 1, Len(t))
         IN  /\ Len(r) = (c - 1) + (Len(t) - e)
             /\ \A i \in 1 .. c - 1 : r[i] = t[i]
             /\ \A i \in 1 .. Len(t) - e : r[(c - 1) + i] = t[e + i]
<1> DEFINE x == SubSeq(t, 1, c - 1)
           y == SubSeq(t, e + 1, Len(t))
           l == Len(t)
           r == x \o y
<1>1. l \in Nat /\ c - 1 \in Nat /\ c - 1 <= l
  OBVIOUS
<1>2. y \in Seq(S) /\ Len(y) = l - e /\ \A i \in 1 .. l - e : y[i] = t[e + i]
  BY CutFront
<1>3. x \in Seq(S)
  <2>1. 1 \in 1 .. Len(t) + 1 /\ c - 1 \in 1 - 1 .. Len(t)
    BY <1>1
  <2>2. QED
    BY <2>1, CutIs
<1>4. Len(x) = c - 1 /\ \A i \in 1 .. c - 1 : x[i] = t[i]
  <2>1. \A i \in 1 .. c - 1 : t[i] \in S
    BY <1>1
  <2>2. 1 \in Int /\ c - 1 \in Int /\ 1 <= (c - 1) + 1
    BY <1>1
  <2> DEFINE k == c - 1
  <2>3. k \in Nat /\ \A i \in 1 .. k : t[i] \in S
    BY <1>1, <2>1
  <2> HIDE DEF k
  <2>4. 1 \in Int /\ k \in Int /\ 1 <= k + 1
    BY <2>3
  <2>5. /\ Len(SubSeq(t, 1, k)) = IF 1 <= k THEN k - 1 + 1 ELSE 0
        /\ \A i \in 1 .. k - 1 + 1 : SubSeq(t, 1, k)[i] = t[1 + i - 1]
    BY <2>3, <2>4, SubSeqProperties
  <2>6. k - 1 + 1 = k /\ \A i \in 1 .. k : 1 + i - 1 = i
    BY <2>3
  <2>7. (IF 1 <= k THEN k - 1 + 1 ELSE 0) = k
    BY <2>3
  <2>8. Len(SubSeq(t, 1, k)) = k /\ \A i \in 1 .. k : SubSeq(t, 1, k)[i] = t[i]
    BY <2>5, <2>6, <2>7
  <2>9. QED
    BY <2>8 DEF k
<1> HIDE DEF x, y
<1>5. /\ Len(r) = Len(x) + Len(y)
      /\ \A i \in 1 .. Len(x) : r[i] = x[i]
      /\ \A i \in 1 .. Len(y) : r[Len(x) + i] = y[i]
  <2>1. x \in Seq(S) /\ y \in Seq(S)
    BY <1>2, <1>3
  <2>2. QED
    BY <2>1, JoinedIs
<1> HIDE DEF r, l
<1>6. /\ Len(r) = (c - 1) + (l - e)
      /\ \A i \in 1 .. c - 1 : r[i] = t[i]
      /\ \A i \in 1 .. l - e : r[(c - 1) + i] = t[e + i]
  BY <1>2, <1>4, <1>5
<1>7. QED
  BY <1>6 DEF r, x, y, l

\* A byte that is lost is of a frame that is missing.
LEMMA LostFrames ==
  ASSUME NEW s \in Scripts, NEW c \in Nat, NEW e \in Nat, 1 <= c, e <= Len(Sent(s)),
         NEW a \in 1 .. Len(s.frames), NEW z \in 1 .. Len(s.frames),
         Start(s, a) < c, c <= Start(s, a + 1), Start(s, z) < e, e <= Start(s, z + 1),
         c <= e
  PROVE  /\ a <= z
         /\ \A g \in a .. z : \E k \in c .. e : Sent(s)[k].f = g
<1> DEFINE N == Len(s.frames)
           x == Start(s, a)
           y == Start(s, a + 1)
           u == Start(s, z)
           v == Start(s, z + 1)
<1>1. /\ N \in Nat /\ x \in Nat /\ y \in Nat /\ u \in Nat /\ v \in Nat
      /\ a + 1 \in 1 .. N + 1 /\ z + 1 \in 1 .. N + 1 /\ z \in 1 .. N + 1 /\ a \in 1 .. N + 1
  BY LengthsAre
<1>2. z + 1 <= a => v + 3 * (a - (z + 1)) <= x
  BY <1>1, StartsInOrder
<1>3. a <= z
  <2> HIDE DEF x, y, u, v, N
  <2>1. a \in Nat /\ z \in Nat
    BY <1>1
  <2>2. z + 1 <= a => v <= x
    BY <1>1, <1>2, <2>1
  <2>3. x < c /\ c <= e /\ e <= v
    BY DEF x, v
  <2>4. QED
    BY <1>1, <2>1, <2>2, <2>3
<1>4. ASSUME NEW g \in a .. z PROVE \E k \in c .. e : Sent(s)[k].f = g
  <2>1. CASE g = a
    <3>1. c \in Int
      OBVIOUS
    <3>2. Sent(s)[c].f = a
      BY <3>1, ByteIs
    <3>3. c \in c .. e
      OBVIOUS
    <3>4. QED
      BY <2>1, <3>2, <3>3
  <2>2. CASE g # a
    <3> DEFINE t == Start(s, g)
    <3>1. g \in 1 .. N /\ g \in 1 .. N + 1 /\ a + 1 <= g /\ g <= z /\ g \in Nat /\ a \in Nat
      <4>1. a \in 1 .. N /\ z \in 1 .. N
        OBVIOUS
      <4> HIDE DEF N
      <4>2. QED
        BY <1>1, <2>2, <4>1
    <3>2. t \in Nat /\ y + 3 * (g - (a + 1)) <= t
      BY <1>1, <3>1, StartsInOrder
    <3>3. t + 3 * (z - g) <= u
      BY <1>1, <3>1, StartsInOrder
    <3>4. Start(s, g + 1) = t + Len(Framed(s, g)) /\ Len(Framed(s, g)) \in Nat
          /\ Len(Framed(s, g)) >= 3
      BY <3>1, LengthsAre
    <3>5. c <= y /\ u < e
      BY DEF y, u
    <3>6. t + 1 \in c .. e /\ t + 1 \in Int /\ t < t + 1 /\ t + 1 <= Start(s, g + 1)
      <4> DEFINE l == Len(Framed(s, g))
      <4>1. l \in Nat /\ l >= 3 /\ Start(s, g + 1) = t + l /\ z \in Nat
        BY <3>4
      <4> HIDE DEF t, y, u, l
      <4>2. y <= t /\ t <= u
        BY <1>1, <3>1, <3>2, <3>3, <4>1
      <4>3. c <= t + 1 /\ t + 1 <= e
        BY <1>1, <3>2, <3>5, <4>2
      <4>4. t + 1 <= t + l
        BY <3>2, <4>1
      <4>5. QED
        BY <3>2, <4>1, <4>3, <4>4
    <3>7. Sent(s)[t + 1].f = g
      BY <3>1, <3>6, ByteIs
    <3>8. QED
      BY <3>6, <3>7
  <2>3. QED
    BY <2>1, <2>2
<1>5. QED
  BY <1>3, <1>4

\* Before the first record.
LEMMA NothingYet ==
  ASSUME NEW n, \A f \in 1 .. Len(script.frames) : f < n => f \notin intact
  PROVE  Account(<<>>, <<>>, n)
  BY DEF Account, Pkts, Ascending

\* What is left of frame g, and what was sent after it.
LEMMA TailIs ==
  ASSUME NEW s \in Scripts, NoChance(s), NEW e \in 1 .. Len(Sent(s)), NEW r,
         Len(r) = Len(Sent(s)) - e,
         \A i \in 1 .. Len(Sent(s)) - e : r[i] = Sent(s)[e + i],
         NEW g \in 1 .. Len(s.frames), Start(s, g) < e, e <= Start(s, g + 1)
  PROVE  /\ Start(s, g + 1) - e \in Nat /\ SentFrom(s, r, Start(s, g + 1) - e, g + 1)
         /\ \A i \in 1 .. Start(s, g + 1) - e : r[i].t # "magic0"
<1> DEFINE L == Len(Sent(s))
           x == Start(s, g)
           y == Start(s, g + 1)
           d == y - e
<1>1. L \in Nat /\ x \in Nat /\ y \in Nat /\ y <= L /\ e \in Nat
  BY LengthsAre
<1>2. x < e /\ e <= y
  OBVIOUS
<1>3. d \in Nat /\ Len(r) = d + L - y
  <2> HIDE DEF x, y, L
  <2>1. Len(r) = L - e
    BY DEF L
  <2>2. d \in Nat
    BY <1>1, <1>2
  <2>3. L - e = d + L - y
    BY <1>1, <1>2
  <2>4. QED
    BY <2>1, <2>2, <2>3
<1>4. \A i \in 1 .. L - y : r[d + i] = Sent(s)[y + i]
  <2> TAKE i \in 1 .. L - y
  <2>1. d + i \in 1 .. L - e /\ e + (d + i) = y + i
    <3> HIDE DEF x, y, L
    <3>1. QED
      BY <1>1, <1>2
  <2>2. r[d + i] = Sent(s)[e + (d + i)]
    BY <2>1
  <2>3. QED
    BY <2>1, <2>2
<1>5. SentFrom(s, r, d, g + 1)
  BY <1>3, <1>4 DEF SentFrom
<1>6. \A i \in 1 .. d : r[i].t # "magic0"
  <2> TAKE i \in 1 .. d
  <2>1. /\ i \in 1 .. L - e /\ e + i \in Int /\ x < e + i /\ e + i <= y
        /\ (e + i) - x \in Int /\ (e + i) - x >= 2
    <3> HIDE DEF x, y, L
    <3>1. QED
      BY <1>1, <1>2
  <2>2. r[i] = Sent(s)[e + i]
    BY <2>1
  <2>3. /\ (e + i) - x \in 1 .. Len(Framed(s, g))
        /\ Sent(s)[e + i] = Framed(s, g)[(e + i) - x]
    BY <2>1, ByteIs
  <2>4. (e + i) - x \in 2 .. Len(Framed(s, g))
    <3> DEFINE h == (e + i) - x
    <3> HIDE DEF h
    <3>1. h \in 1 .. Len(Framed(s, g)) /\ h >= 2
      BY <2>1, <2>3 DEF h
    <3>2. QED
      BY <3>1 DEF h
  <2>5. Framed(s, g)[(e + i) - x].t # "magic0"
    BY <2>4, FrameSays DEF NoChance
  <2>6. QED
    BY <2>2, <2>3, <2>5
<1>7. QED
  BY <1>3, <1>5, <1>6

\* The host comes in part way.
LEMMA StartsAmid ==
  ASSUME NEW s \in Scripts, NoChance(s), NEW e \in 1 .. Len(Sent(s)), NEW r,
         Len(r) = Len(Sent(s)) - e,
         \A i \in 1 .. Len(Sent(s)) - e : r[i] = Sent(s)[e + i],
         NEW g \in 1 .. Len(s.frames), Start(s, g) < e, e <= Start(s, g + 1)
  PROVE  Start(s, g + 1) - e \in Nat /\ Junk(s, r, Start(s, g + 1) - e, g + 1)
<1> DEFINE d == Start(s, g + 1) - e
<1>1. d \in Nat /\ SentFrom(s, r, d, g + 1) /\ \A i \in 1 .. d : r[i].t # "magic0"
  BY TailIs
<1> HIDE DEF d
<1>2. d >= 1 => 1 \in 1 .. d
  BY <1>1
<1>3. d >= 1 => ~HeaderAt(r, 1)
  BY <1>1, <1>2 DEF HeaderAt, MagicAt
<1>4. \A i \in 2 .. d : r[i].t # "magic0"
  BY <1>1
<1>5. QED
  BY <1>1, <1>3, <1>4 DEF Junk, d

\* So of what follows a run.
LEMMA AfterRun ==
  ASSUME NEW s \in Scripts, NoChance(s), NEW e \in 1 .. Len(Sent(s)), NEW r,
         r = SubSeq(Sent(s), e + 1, Len(Sent(s))),
         NEW g \in 1 .. Len(s.frames), Start(s, g) < e, e <= Start(s, g + 1)
  PROVE  /\ SentFrom(s, r, Start(s, g + 1) - e, g + 1)
         /\ \A i \in 1 .. Start(s, g + 1) - e : r[i].t # "magic0"
<1>1. Len(r) = Len(Sent(s)) - e /\ \A i \in 1 .. Len(Sent(s)) - e : r[i] = Sent(s)[e + i]
  BY SentIs, CutFront
<1>2. QED
  BY <1>1, TailIs

\* A run of bytes is lost: what is left is torn where it was.
LEMMA TornAmid ==
  ASSUME NEW s \in Scripts, NoChance(s), NEW c \in Nat, NEW e \in Nat, 1 <= c, c <= e,
         e <= Len(Sent(s)), NEW r,
         Len(r) = (c - 1) + (Len(Sent(s)) - e),
         \A i \in 1 .. c - 1 : r[i] = Sent(s)[i],
         \A i \in 1 .. Len(Sent(s)) - e : r[(c - 1) + i] = Sent(s)[e + i],
         Sent(s)[c].t \in {"magic1", "rest"} /\ e < Len(Sent(s))
           => Sent(s)[c].t # Sent(s)[e + 1].t,
         NEW a \in 1 .. Len(s.frames), Start(s, a) < c, c <= Start(s, a + 1),
         NEW z \in 1 .. Len(s.frames), Start(s, z) < e, e <= Start(s, z + 1)
  PROVE  /\ c - 1 - Start(s, a) \in 0 .. Len(Framed(s, a)) - 1
         /\ Start(s, z + 1) - e \in Nat
         /\ Torn(s, r, 1, a, c - 1 - Start(s, a), Start(s, z + 1) - e, z)
<1> DEFINE L == Len(Sent(s))
           x == Start(s, a)
           v == Start(s, z + 1)
           m == c - 1 - x
           t == v - e
           l == Len(Framed(s, a))
           d == x + m - Start(s, 1)
           q == SubSeq(Sent(s), e + 1, L)
<1>1. /\ L \in Nat /\ x \in Nat /\ l \in Nat /\ l >= 3 /\ Start(s, a + 1) = x + l
      /\ Start(s, 1) = 0 /\ v \in Nat /\ v <= L
  BY LengthsAre DEF Start
<1>2. x < c /\ c <= x + l /\ e <= v /\ e >= 1 /\ e <= L
  BY <1>1
<1>3. m \in 0 .. l - 1 /\ m \in Nat /\ d = c - 1 /\ t \in Nat /\ x + (m + 1) = c
  <2>1. x \in Nat /\ l \in Nat /\ v \in Nat /\ c \in Nat /\ e \in Nat /\ Start(s, 1) = 0
    BY <1>1
  <2> HIDE DEF x, l, v
  <2>2. m \in 0 .. l - 1 /\ m \in Nat /\ x + (m + 1) = c
    BY <1>2, <2>1
  <2>3. t \in Nat
    BY <1>2, <2>1
  <2>4. d = x + m
    BY <2>1, <2>2
  <2> HIDE DEF m, t, d
  <2>5. d = c - 1
    BY <2>1, <2>2, <2>4
  <2>6. QED
    BY <2>2, <2>3, <2>5
<1>4. Len(q) = L - e /\ \A i \in 1 .. L - e : q[i] = Sent(s)[e + i]
  BY SentIs, CutFront
<1>5. /\ SentFrom(s, q, t, z + 1) /\ \A i \in 1 .. t : q[i].t # "magic0"
  <2>1. e \in 1 .. Len(Sent(s))
    BY <1>1, <1>2
  <2>2. q = SubSeq(Sent(s), e + 1, Len(Sent(s)))
    OBVIOUS
  <2> HIDE DEF q, L, x, v, m, t, l, d
  <2>3. /\ SentFrom(s, q, Start(s, z + 1) - e, z + 1)
        /\ \A i \in 1 .. Start(s, z + 1) - e : q[i].t # "magic0"
    BY <2>1, <2>2, AfterRun
  <2>4. QED
    BY <2>3 DEF t, v
<1>6. Len(q) = t + L - v /\ \A i \in 1 .. L - v : q[t + i] = Sent(s)[v + i]
  BY <1>5 DEF SentFrom
<1>7. Len(r) = (c - 1) + (L - e) /\ \A i \in 1 .. L - e : r[(c - 1) + i] = q[i]
  BY <1>4
<1>8. L - e = t + L - v
  BY <1>4, <1>6
<1> HIDE DEF q, L, v, m, t, d
<1>9. \A i \in 1 .. t : i \in 1 .. L - e
  BY <1>1, <1>2, <1>3, <1>8
<1>10. SentFrom(s, r, d + t, z + 1)
  <2>1. Len(r) = (d + t) + L - v
    <3>1. L - e \in Nat /\ c - 1 = d /\ Len(r) = (c - 1) + (L - e)
      BY <1>1, <1>2, <1>3, <1>7
    <3>2. t \in Nat /\ v \in Nat /\ L \in Nat /\ L - e = t + L - v
      BY <1>1, <1>3, <1>8
    <3>2d. d \in Nat
      BY <1>3, <3>1
    <3>3. (c - 1) + (L - e) = (d + t) + L - v
      BY <3>1, <3>2, <3>2d
    <3>4. QED
      BY <3>1, <3>3
  <2>2. ASSUME NEW i \in 1 .. L - v PROVE r[(d + t) + i] = Sent(s)[v + i]
    <3>1. t + i \in 1 .. L - e /\ (c - 1) + (t + i) = (d + t) + i
      BY <1>1, <1>2, <1>3, <1>8
    <3>2. r[(c - 1) + (t + i)] = q[t + i]
      BY <1>7, <3>1
    <3>3. QED
      BY <1>6, <3>1, <3>2
  <2>3. QED
    BY <2>1, <2>2 DEF SentFrom, L, v
<1>11. \A i \in 1 .. d : r[i] = Sent(s)[Start(s, 1) + i]
  <2>1. \A i \in 1 .. d : Start(s, 1) + i = i /\ i \in 1 .. c - 1
    BY <1>1, <1>3
  <2>2. QED
    BY <2>1
<1>12. ASSUME NEW i \in 1 .. t PROVE Alien(s, a, m, i, r[d + i])
  <2>1. r[d + i] = q[i] /\ q[i] = Sent(s)[e + i] /\ q[i].t # "magic0"
    BY <1>3, <1>4, <1>5, <1>7, <1>9 DEF L, q, t, v
  <2>2. ASSUME i = 1, m \in {1, 2} PROVE r[d + i].t # Framed(s, a)[m + 1].t
    <3>1. Sent(s)[c] = Framed(s, a)[m + 1]
      <4>1. m + 1 \in 1 .. l
        BY <1>1, <1>3
      <4>2. Sent(s)[x + (m + 1)] = Framed(s, a)[m + 1]
        BY <4>1, Layout
      <4>3. QED
        BY <1>3, <4>2
    <3>2. Framed(s, a)[m + 1].t \in {"magic1", "rest"}
      <4>1. m + 1 = 2 \/ m + 1 = 3
        BY <2>2
      <4>2. Framed(s, a)[2].t = "magic1" /\ Framed(s, a)[3].t = "rest"
        BY HeaderSays
      <4>3. QED
        BY <4>1, <4>2
    <3>3. e < Len(Sent(s))
      <4>1. e \in Nat /\ 1 \in 1 .. L - e
        BY <1>9, <2>2
      <4>2. 1 <= L - e /\ L \in Nat
        BY <1>1, <4>1
      <4>3. e < L
        BY <4>1, <4>2
      <4>4. QED
        BY <4>3 DEF L
    <3>4. Sent(s)[c].t # Sent(s)[e + 1].t
      BY <3>1, <3>2, <3>3
    <3>5. QED
      BY <2>1, <2>2, <3>1, <3>4
  <2>3. QED
    BY <2>1, <2>2 DEF Alien
<1>13. Torn(s, r, 1, a, m, t, z)
  BY <1>10, <1>11, <1>12 DEF Torn, d
<1>14. QED
  BY <1>3, <1>13 DEF m, t, v

\* The place of a frame's last byte.
LEMMA LastIs ==
  ASSUME NEW s \in Scripts, NEW k \in 1 .. Len(Sent(s)), NEW g \in 1 .. Len(s.frames),
         Start(s, g) < k, k <= Start(s, g + 1)
  PROVE  LastOf(Sent(s), k) = Start(s, g + 1)
<1> DEFINE S == {j \in 1 .. Len(Sent(s)) : Sent(s)[j].f = Sent(s)[k].f}
           v == Start(s, g + 1)
<1>1. Len(Sent(s)) \in Nat /\ v \in Nat /\ Start(s, g) \in Nat
  BY LengthsAre
<1>2. Sent(s)[k].f = g
  BY <1>1, ByteIs
<1>3. v \in S
  <2>1. Start(s, g) < v
    BY <1>1
  <2>2. v \in 1 .. Len(Sent(s)) /\ Sent(s)[v].f = g
    BY <1>1, <2>1, ByteIs
  <2>3. QED
    BY <1>2, <2>2
<1>4. ASSUME NEW j \in S PROVE j <= v
  <2>1. PICK h \in 1 .. Len(s.frames) : Start(s, h) < j /\ j <= Start(s, h + 1)
    BY Within
  <2>2. Sent(s)[j].f = h
    BY <1>1, <2>1, ByteIs
  <2>3. h = g
    BY <1>2, <2>2
  <2>4. QED
    BY <2>1, <2>3
<1>5. S \subseteq Nat
  BY <1>1
<1> HIDE DEF S, v
<1>6. Max(S) = CHOOSE i \in S : \A j \in S : i >= j
  BY DEF Max
<1>7. \A i \in S : (\A j \in S : i >= j) => i = v
  BY <1>1, <1>3, <1>4, <1>5
<1>8. \A j \in S : v >= j
  BY <1>1, <1>4, <1>5
<1>9. Max(S) = v
  BY <1>3, <1>6, <1>7, <1>8
<1>10. QED
  BY <1>9 DEF LastOf, S, v

\* It holds at the start, whatever was lost.
LEMMA SoFarStart == RecordsInit(Scripts) => SoFar
<1> SUFFICES ASSUME RecordsInit(Scripts) PROVE SoFar
  OBVIOUS
<1> DEFINE sent == Sent(script)
           L == Len(sent)
           N == Len(script.frames)
<1>1. script \in Scripts /\ N \in Nat /\ L \in Nat /\ buf = <<>> /\ pend = <<>> /\ out = <<>>
  <2>1. script \in Scripts
    BY DEF RecordsInit
  <2>2. QED
    BY <2>1, LengthsAre DEF RecordsInit
<1>2. PICK cut \in Lost(sent, script.loses) \cup {<<1, 0>>} :
        /\ wire = SubSeq(sent, 1, cut[1] - 1) \o SubSeq(sent, cut[2] + 1, Len(sent))
        /\ intact = (1 .. N) \ {sent[k].f : k \in cut[1] .. cut[2]}
        /\ hole = Hole(sent, cut)
  BY DEF RecordsInit
<1>3. wire \in Tokens /\ sent \in Tokens
  BY <1>1, RecordsStart, SentIs DEF RecordTypes, Tokens, Heard
<1>4. buf \o wire = wire
  BY <1>1, <1>3 DEF Tokens
<1> DEFINE c == cut[1]
           e == cut[2]
<1>5. CASE cut = <<1, 0>>
  <2>1. c = 1 /\ e = 0
    BY <1>5
  <2>2. /\ Len(wire) = (c - 1) + (L - e)
        /\ \A i \in 1 .. L - e : wire[(c - 1) + i] = sent[e + i]
    <3>1. c \in Nat /\ c >= 1 /\ c <= L + 1 /\ e \in Nat /\ e <= L
      BY <1>1, <2>1
    <3> HIDE DEF sent, c, e
    <3>2. QED
      BY <1>2, <1>3, <3>1, LeftIs DEF c, e, Tokens
  <2>3. SentFrom(script, wire, 0, 1)
    <3>1. Start(script, 1) = 0
      BY DEF Start
    <3>2. Len(wire) = L /\ \A i \in 1 .. L : wire[i] = sent[i]
      <4> HIDE DEF sent, c, e, L
      <4>1. (c - 1) + (L - e) = L /\ L - e = L
            /\ \A i \in 1 .. L : (c - 1) + i = i /\ e + i = i
        BY <1>1, <2>1
      <4>2. QED
        BY <2>2, <4>1
    <3>3. 0 + L - 0 = L /\ L - 0 = L /\ \A i \in 1 .. L : 0 + i = i
      BY <1>1
    <3>4. QED
      BY <3>1, <3>2, <3>3 DEF SentFrom
  <2>4. Junk(script, wire, 0, 1)
    BY <2>3 DEF Junk
  <2>5. AheadOf(buf, wire, 1)
    BY <1>4, <2>4 DEF AheadOf
  <2>6. Account(out, pend, 1)
    <3>1. \A f \in 1 .. N : ~(f < 1)
      OBVIOUS
    <3>2. QED
      BY <1>1, <3>1, NothingYet
  <2>7. QED
    BY <1>1, <2>5, <2>6 DEF SoFar
<1>6. CASE cut # <<1, 0>>
  <2>1. /\ cut \in (1 .. L) \X (1 .. L) /\ script.loses \in {"run", "start"}
        /\ script.loses = "run" =>
             /\ c <= e
             /\ sent[c].t \in {"magic1", "rest"} /\ e < L => sent[c].t # sent[e + 1].t
        /\ script.loses = "start" => c = 1
    BY <1>2, <1>6 DEF Lost
  <2>2. c \in 1 .. L /\ e \in 1 .. L /\ c <= e
    <3>1. c \in 1 .. L /\ e \in 1 .. L
      BY <2>1
    <3> HIDE DEF c, e, L
    <3>2. QED
      BY <1>1, <2>1, <3>1
  <2>3. c \in Nat /\ c >= 1 /\ c <= L /\ c <= L + 1 /\ e \in Nat /\ e >= 1 /\ e <= L
    <3> HIDE DEF c, e, L
    <3>1. QED
      BY <1>1, <2>2
  <2>4. /\ Len(wire) = (c - 1) + (L - e)
        /\ \A i \in 1 .. c - 1 : wire[i] = sent[i]
        /\ \A i \in 1 .. L - e : wire[(c - 1) + i] = sent[e + i]
    <3> HIDE DEF sent, c, e
    <3>1. QED
      BY <1>2, <1>3, <2>3, LeftIs DEF c, e, Tokens
  <2> DEFINE s == script
  <2>5. PICK a \in 1 .. N : Start(s, a) < c /\ c <= Start(s, a + 1)
    BY <1>1, <2>2, Within
  <2>6. PICK z \in 1 .. N : Start(s, z) < e /\ e <= Start(s, z + 1)
    BY <1>1, <2>2, Within
  <2>7. a <= z /\ \A g \in a .. z : \E k \in c .. e : sent[k].f = g
    <3>1. /\ a \in 1 .. Len(script.frames) /\ z \in 1 .. Len(script.frames)
          /\ 1 <= c /\ e <= Len(Sent(script))
      BY <2>3
    <3>2. /\ Start(script, a) < c /\ c <= Start(script, a + 1)
          /\ Start(script, z) < e /\ e <= Start(script, z + 1)
      BY <2>5, <2>6
    <3>3. script \in Scripts /\ c \in Nat /\ e \in Nat /\ c <= e
      BY <1>1, <2>2, <2>3
    <3> HIDE DEF c, e, N, L, sent
    <3>4. /\ a <= z
          /\ \A g \in a .. z : \E k \in c .. e : Sent(script)[k].f = g
      BY <3>1, <3>2, <3>3, LostFrames, ZenonT(60)
    <3>5. QED
      BY <3>4 DEF sent
  <2>8. Missing(a, z)
    BY <1>2, <2>7 DEF Missing
  <2>9. z \in a .. N /\ a \in a .. z /\ z + 1 \in 1 .. N + 1 /\ a \in Nat /\ z \in Nat
    <3> HIDE DEF N, c, e
    <3>1. QED
      BY <1>1, <2>7
  <2>10. CASE ~NoChance(script)
    <3>1. a \notin intact
      BY <2>8, <2>9 DEF Missing
    <3>2. intact # 1 .. N
      BY <2>5, <3>1
    <3>3. ChanceAmidLoss
      BY <2>10, <3>2 DEF ChanceAmidLoss, NoChance
    <3>4. QED
      BY <3>3 DEF SoFar, Untold
  <2>11. CASE NoChance(script) /\ script.loses = "start"
    <3>1. c = 1
      BY <2>1, <2>11
    <3> DEFINE d == Start(s, z + 1) - e
    <3>2. Len(wire) = L - e /\ \A i \in 1 .. L - e : wire[i] = sent[e + i]
      <4> HIDE DEF sent, c, e, L
      <4>1. (c - 1) + (L - e) = L - e /\ \A i \in 1 .. L - e : (c - 1) + i = i
        BY <1>1, <2>3, <3>1
      <4>2. QED
        BY <2>4, <4>1
    <3>3. d \in Nat /\ Junk(s, wire, d, z + 1)
      BY <1>1, <2>2, <2>6, <2>11, <3>2, StartsAmid
    <3>4. AheadOf(buf, wire, z + 1)
      <4> HIDE DEF d
      <4>1. QED
        BY <1>4, <3>3 DEF AheadOf
    <3>5. Account(out, pend, z + 1)
      <4>1. ASSUME NEW f \in 1 .. N, f < z + 1 PROVE f \notin intact
\* The first byte lost is of the first frame.
        <5>1. a = 1
          <6>1. Start(s, 1) = 0
            BY DEF Start
          <6>2. a # 1 => Start(s, 1) + 3 * (a - 1) <= Start(s, a)
            <7>1. 1 \in 1 .. N + 1 /\ a \in 1 .. N + 1 /\ 1 <= a
              BY <1>1, <2>9
            <7>2. QED
              BY <1>1, <7>1, StartsInOrder
          <6>3. Start(s, a) < 1
            BY <2>5, <3>1
          <6>4. Start(s, a) \in Nat
            BY <1>1, LengthsAre
          <6> DEFINE x == Start(s, a)
          <6>5. a # 1 => 3 * (a - 1) <= x
            BY <6>1, <6>2, <2>9
          <6>6. x \in Nat /\ x < 1
            BY <6>3, <6>4
          <6> HIDE DEF x
          <6>7. a >= 1
            OBVIOUS
          <6>8. QED
            BY <2>9, <6>5, <6>6, <6>7
        <5>2. f \in a .. z
          <6> HIDE DEF N
          <6>1. QED
            BY <1>1, <2>9, <4>1, <5>1
        <5>3. QED
          BY <2>8, <5>2 DEF Missing
      <4>2. QED
        BY <1>1, <4>1, NothingYet
    <3>6. QED
      BY <2>9, <3>4, <3>5 DEF SoFar
  <2>12. CASE NoChance(script) /\ script.loses = "run"
    <3> DEFINE m == c - 1 - Start(s, a)
               t == Start(s, z + 1) - e
               l == Len(Framed(s, a))
               v == Start(s, z + 1)
    <3>1. /\ m \in 0 .. Len(Framed(s, a)) - 1 /\ t \in Nat
          /\ Torn(s, wire, 1, a, m, t, z)
      <4>1. sent[c].t \in {"magic1", "rest"} /\ e < L => sent[c].t # sent[e + 1].t
        BY <2>1, <2>12
      <4> HIDE DEF c, e
      <4>2. QED
        BY <1>1, <2>2, <2>3, <2>4, <2>5, <2>6, <2>12, <4>1, TornAmid
    <3>2. /\ l \in Nat /\ Start(s, a) \in Nat /\ Start(s, a + 1) = Start(s, a) + l
          /\ v \in Nat /\ v <= L
      BY <1>1, <2>9, LengthsAre
    <3>3. LastOf(sent, c) = Start(s, a + 1) /\ LastOf(sent, e) = v
      BY <1>1, <2>2, <2>5, <2>6, LastIs
    <3>4. \/ hole = NoHole /\ ~LeavesHeader(sent, c)
          \/ /\ hole.short = (LastOf(sent, c) - c + 1) - (LastOf(sent, e) - e)
             /\ hole.after = L - LastOf(sent, e)
      <4>1. ~(c > e)
        BY <2>2, <2>3
      <4>2. hole = IF c > e \/ ~LeavesHeader(sent, c) THEN NoHole
                   ELSE [short |-> (LastOf(sent, c) - c + 1) - (LastOf(sent, e) - e),
                         after |-> L - LastOf(sent, e)]
        BY <1>2 DEF Hole
      <4>3. QED
        BY <4>1, <4>2
    <3>5. m >= 3 => LeavesHeader(sent, c)
      <4> SUFFICES ASSUME m >= 3 PROVE LeavesHeader(sent, c)
        OBVIOUS
      <4>1. /\ c > 3 /\ c - 3 \in Int /\ Start(s, a) < c - 3 /\ c - 3 <= Start(s, a + 1)
            /\ c \in Int
        <5> HIDE DEF c, e, l
        <5>1. QED
          BY <2>3, <2>5, <3>2
      <4>2. sent[c - 3].f = a /\ sent[c].f = a
        BY <1>1, <2>5, <4>1, ByteIs
      <4>3. QED
        BY <4>1, <4>2 DEF LeavesHeader, HEADER_LEN
    <3>6. CASE hole.short <= 0
      <4>1. spliced
        BY <3>6 DEF RecordsInit
      <4>2. QED
        BY <4>1 DEF SoFar, Untold
    <3>7. CASE ~(hole.short <= 0)
      <4>1. e <= v /\ c >= 1
        BY <2>3, <2>6
      <4>2. Len(wire) = (c - 1) + (L - e)
        BY <2>4
      <4>3. Fills(a, m, t, z)
        <5> SUFFICES ASSUME m >= 3
                     PROVE  m + t <= l - 1 /\ hole.short = l - (m + t) /\ hole.after = L - v
          BY DEF Fills
        <5>1. /\ hole.short = (LastOf(sent, c) - c + 1) - (LastOf(sent, e) - e)
              /\ hole.after = L - LastOf(sent, e)
          BY <3>4, <3>5
        <5>2. /\ hole.short = ((Start(s, a) + l) - c + 1) - (v - e)
              /\ hole.after = L - v
          BY <3>2, <3>3, <5>1
        <5>3. l \in Nat /\ Start(s, a) \in Nat /\ v \in Nat /\ c \in Nat /\ e \in Nat
          BY <2>3, <3>2
        <5> HIDE DEF c, e, l, L, v
        <5>4. m = c - 1 - Start(s, a) /\ t = v - e
          BY DEF v
        <5> HIDE DEF m, t
        <5>5. hole.short = l - (m + t) /\ m \in Int /\ t \in Int
          BY <5>2, <5>3, <5>4
        <5>6. m + t <= l - 1
          BY <3>7, <5>3, <5>5
        <5>7. QED
          BY <5>2, <5>5, <5>6
      <4>4. ~FilledByHeader(wire)
        <5> SUFFICES ASSUME 0 < hole.short, hole.short <= hole.after - Len(wire) PROVE FALSE
          BY DEF FilledByHeader
        <5>1. CASE hole = NoHole
          <6>1. hole.short = 3 /\ hole.after = 0
            BY <5>1 DEF NoHole, HEADER_LEN
          <6> HIDE DEF c, e, L
          <6>2. QED
            BY <1>1, <2>3, <4>2, <6>1
        <5>2. CASE /\ hole.short = (LastOf(sent, c) - c + 1) - (LastOf(sent, e) - e)
                   /\ hole.after = L - LastOf(sent, e)
          <6>1. hole.after = L - v
            BY <3>3, <5>2
          <6>2. hole.short = ((Start(s, a) + l) - c + 1) - (v - e)
            BY <3>2, <3>3, <5>2
          <6> HIDE DEF c, e, L, l, v
          <6>3. QED
            BY <1>1, <2>3, <3>2, <4>1, <4>2, <6>1, <6>2
        <5>3. QED
          BY <3>4, <5>1, <5>2
      <4> HIDE DEF m, t
      <4>5. AheadOf(buf, wire, 1)
        BY <1>4, <2>8, <2>9, <2>12, <3>1, <4>3, <4>4 DEF AheadOf
      <4>6. Account(out, pend, 1)
        <5>1. \A f \in 1 .. N : ~(f < 1)
          OBVIOUS
        <5>2. QED
          BY <1>1, <5>1, NothingYet
      <4>7. 1 \in 1 .. N + 1
        BY <1>1
      <4>8. QED
        BY <4>5, <4>6, <4>7 DEF SoFar
    <3>8. QED
      BY <3>6, <3>7
  <2>13. QED
    BY <2>1, <2>10, <2>11, <2>12
<1>7. QED
  BY <1>5, <1>6

(* No record is of anything but a packet the board heard, with the time,   *)
(* the channel and, on Wi-Fi, the length lost that it had, and none comes  *)
(* twice or out of order, whatever run of bytes is lost and wherever a     *)
(* read ends, a frame's middle and its header included, but for what the   *)
(* parser cannot tell, which Untold names (spliced, BeyondWindow and       *)
(* ChanceAmidLoss): _try_one, force_resync and _records_from.              *)
THEOREM OnlyHeardIsRecorded == RecordsSpec => []OnlyWhatWasHeard
<1> DEFINE Inv == TimeInv /\ SoFar
<1>1. RecordsInit(Scripts) => Inv
  BY TimeStart, SoFarStart
<1>2. Inv /\ [RecordsNext]_rvars => Inv'
  BY TypesKept, InTimeKept, SoFarKept DEF TimeInv
<1>3. Inv => OnlyWhatWasHeard
  <2> SUFFICES ASSUME SoFar, ~Untold PROVE OnlyWhatWasHeard
    BY DEF OnlyWhatWasHeard
  <2>1. PICK n : Account(out, pend, n)
    BY DEF SoFar
  <2>2. /\ \A k \in 1 .. Len(out) : Genuine(out[k])
        /\ \A k \in 2 .. Len(out) : out[k - 1].pkt < out[k].pkt
    BY <2>1 DEF Account, Ascending
  <2>3. \A k \in 1 .. Len(out) :
          /\ out[k].pkt # 0
          /\ out[k].at = script.heard[out[k].pkt].at
          /\ out[k].channel = script.heard[out[k].pkt].channel
          /\ script.radio = "wifi" => out[k].lost = script.heard[out[k].pkt].lost
    BY <2>2 DEF Genuine
  <2>4. \A k \in 1 .. Len(out) : \A field \in {"at", "channel"} :
          out[k][field] = script.heard[out[k].pkt][field]
    BY <2>3
  <2>5. QED
    BY <2>2, <2>3, <2>4 DEF OnlyWhatWasHeard
<1> HIDE DEF Inv
<1>4. QED
  BY <1>1, <1>2, <1>3, PTL DEF RecordsSpec

\* When nothing is left to read, every frame is behind, or is missing.
LEMMA NothingAhead ==
  ASSUME NEW n \in 1 .. Len(script.frames) + 1, script \in Scripts, AheadOf(<<>>, <<>>, n),
         NEW f \in 1 .. Len(script.frames), f \in intact
  PROVE  f < n
<1> DEFINE N == Len(script.frames)
           L == Len(Sent(script))
           x == Start(script, n)
           r == <<>> \o <<>>
<1>1. /\ N \in Nat /\ L \in Nat /\ x \in Nat /\ Start(script, N + 1) = L
      /\ N + 1 \in 1 .. N + 1 /\ n \in Nat /\ f \in Nat
  BY LengthsAre, Layout
<1>2. Len(r) = 0
  OBVIOUS
<1>3. n <= N + 1 /\ f <= N
  OBVIOUS
<1> HIDE DEF r
<1>4. CASE \E d \in Nat : Junk(script, r, d, n)
  <2>1. PICK d \in Nat : Junk(script, r, d, n)
    BY <1>4
  <2>2. 0 = d + L - x
    BY <1>2, <2>1 DEF Junk, SentFrom
  <2>3. x + 3 * (N + 1 - n) <= L
    BY <1>1, <1>3, StartsInOrder, SMTT(30)
  <2> HIDE DEF x, L, N
  <2>4. QED
    BY <1>1, <1>3, <2>2, <2>3
<1>5. CASE \E a \in n .. N : \E z \in a .. N, m \in 0 .. Len(Framed(script, a)) - 1, t \in Nat :
             Torn(script, r, n, a, m, t, z) /\ Missing(a, z)
  <2>1. PICK a \in n .. N : \E z \in a .. N, m \in 0 .. Len(Framed(script, a)) - 1, t \in Nat :
               Torn(script, r, n, a, m, t, z) /\ Missing(a, z)
    BY <1>5
  <2>2. PICK z \in a .. N, m \in 0 .. Len(Framed(script, a)) - 1, t \in Nat :
               Torn(script, r, n, a, m, t, z) /\ Missing(a, z)
    BY <2>1
  <2> DEFINE u == Start(script, a)
             v == Start(script, z + 1)
             d == u + m - x
  <2>3. /\ a \in Nat /\ z \in Nat /\ n <= a /\ a <= z /\ z <= N
        /\ a \in 1 .. N + 1 /\ z + 1 \in 1 .. N + 1 /\ a \in 1 .. N
    <3> HIDE DEF N
    <3>1. QED
      BY <1>1, <1>3
  <2>4. u \in Nat /\ v \in Nat /\ m \in Nat
    <3>1. u \in Nat /\ v \in Nat
      BY <1>1, <2>3, LengthsAre
    <3>2. Len(Framed(script, a)) \in Nat
      BY <2>3, LengthsAre
    <3>3. QED
      BY <3>1, <3>2
  <2>5. 0 = (d + t) + L - v
    <3>1. SentFrom(script, r, d + t, z + 1)
      BY <2>2 DEF Torn
    <3> HIDE DEF d
    <3>2. QED
      BY <1>2, <3>1 DEF SentFrom
  <2>6. x + 3 * (a - n) <= u
    BY <1>1, <2>3, StartsInOrder
  <2>7. v + 3 * (N + 1 - (z + 1)) <= L
    <3>1. z + 1 <= N + 1
      <4> HIDE DEF N
      <4>1. QED
        BY <1>1, <2>3
    <3> DEFINE g == N + 1
               h == z + 1
    <3>2. g \in 1 .. N + 1 /\ h \in 1 .. N + 1 /\ h <= g
      BY <1>1, <2>3, <3>1
    <3> HIDE DEF g, h
    <3>3. Start(script, h) + 3 * (g - h) <= Start(script, g)
      BY <3>2, StartsInOrder
    <3>4. Start(script, g) = L
      BY <1>1 DEF g
    <3>5. Start(script, h) = v
      BY DEF h
    <3> HIDE DEF v, L, N
    <3>6. g - h = N + 1 - (z + 1)
      BY <1>1, <2>3 DEF g, h
    <3>7. QED
      BY <3>3, <3>4, <3>5, <3>6
  <2>8. a = n /\ z = N
    <3>1. 0 = (u + m - x + t) + L - v
      BY <2>5
    <3> HIDE DEF u, v, x, L, N, d
    <3>2. QED
      BY <1>1, <2>3, <2>4, <2>6, <2>7, <3>1
  <2>9. SUFFICES ASSUME n <= f PROVE FALSE
    BY <1>1
  <2>10. f \in a .. z
    BY <1>1, <1>3, <2>8, <2>9
  <2>11. QED
    BY <2>2, <2>10 DEF Missing
<1>6. QED
  BY <1>4, <1>5 DEF AheadOf, r

\* When the link is silent and the parser empty, all that came whole is there.
NoneSwallowed == wire = <<>> /\ buf = <<>> /\ pend = <<>> => Untold \/ WholeFrames

(* Nothing that arrives whole is lost between the link and the capture:    *)
(* when nothing is left on the link, in the parser or waiting to be        *)
(* delivered, every packet of a frame that came whole has its record,      *)
(* whatever run of bytes was lost before it and wherever the reads ended,  *)
(* but for the same Untold: feed, the resyncs and records.                 *)
THEOREM NothingIsSwallowed == RecordsSpec => []NoneSwallowed
<1> DEFINE IntactIs == intact \subseteq 1 .. Len(script.frames)
           Inv == TimeInv /\ SoFar /\ IntactIs
<1>1. RecordsInit(Scripts) => Inv
  <2>1. RecordsInit(Scripts) => IntactIs
    BY DEF RecordsInit
  <2>2. QED
    BY <2>1, TimeStart, SoFarStart
<1>2. Inv /\ [RecordsNext]_rvars => Inv'
  <2>1. IntactIs /\ [RecordsNext]_rvars => IntactIs'
    BY ScriptKept
  <2>2. QED
    BY <2>1, TypesKept, InTimeKept, SoFarKept DEF TimeInv
<1>3. Inv => NoneSwallowed
  <2> SUFFICES ASSUME TimeInv, SoFar, IntactIs, wire = <<>>, buf = <<>>, pend = <<>>, ~Untold,
                      NEW f \in intact, NEW k \in 1 .. Len(script.frames[f].ps),
                      script.heard[script.frames[f].ps[k]].channel
                        \in ChannelsOf(script.radio)
               PROVE  script.frames[f].ps[k] \in {out[j].pkt : j \in 1 .. Len(out)}
    BY DEF NoneSwallowed, WholeFrames
  <2>1. script \in Scripts /\ f \in 1 .. Len(script.frames)
    BY DEF TimeInv, InTime, RecordTypes
  <2>2. PICK n \in 1 .. Len(script.frames) + 1 : AheadOf(<<>>, <<>>, n) /\ Account(out, <<>>, n)
    BY DEF SoFar
  <2>3. f < n
    BY <2>1, <2>2, NothingAhead
  <2> DEFINE p == script.frames[f].ps[k]
  <2>4. Recordable(p) /\ p \in PacketsOf(f)
    BY DEF Recordable, PacketsOf, Range
  <2>5. p \in Pkts(out) \cup Pkts(<<>>)
    BY <2>1, <2>2, <2>3, <2>4 DEF Account
  <2>6. Pkts(<<>>) = {}
    BY DEF Pkts
  <2>7. QED
    BY <2>5, <2>6 DEF Pkts
<1> HIDE DEF Inv
<1>4. QED
  BY <1>1, <1>2, <1>3, PTL DEF RecordsSpec
=============================================================================
