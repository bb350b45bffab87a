-------------------------- MODULE CertPartsProofs --------------------------
(***************************************************************************)
(* What getCert and getPrivateKey cut from a file, for files of any length *)
(* and any keys and certificates.                                          *)
(***************************************************************************)
EXTENDS CertParts, TLAPS

\* The number of blocks gone through.
Done == Len(file) - Len(data)

\* data is the rest of the file.
RestIsAhead ==
    /\ Len(data) <= Len(file)
    /\ \A j \in 1..Len(data) : data[j] = file[Done + j]

\* der holds the last block so far that is no certificate.
LastOther(n) ==
    \/ der = << >> /\ \A i \in 1..n : IsCert(file[i])
    \/ \E i \in 1..n : /\ der = <<file[i]>> /\ ~IsCert(file[i])
                       /\ \A j \in (i + 1)..n : IsCert(file[j])

\* What getCertPart returns for a key, once the loop is over.
KeyResult ==
    key = "tls.key" /\ result # << >> =>
        /\ data = << >>
        /\ result = IF der # << >> /\ Head(der).kind = "pkcs8 other"
                    THEN [err |-> TRUE, value |-> << >>]
                    ELSE [err |-> FALSE,
                          value |-> KeyBlock(IF der = << >> THEN << >> ELSE Marshal(Head(der)))]

CPInv ==
    /\ TypeOK
    /\ RestIsAhead
    /\ key = "tls.crt" => CertsOf(certs, Done)
    /\ key = "tls.crt" /\ result # << >> =>
            data = << >> /\ result = [err |-> FALSE, value |-> certs]
    /\ key = "tls.key" => LastOther(Done)
    /\ KeyResult

-----------------------------------------------------------------------------

\* A file is a sequence of at most MaxBlocks blocks, and every such sequence is one.
LEMMA FileIsSeq ==
    /\ \A f \in File : f \in Seq(Block) /\ Len(f) <= MaxBlocks
    /\ \A f \in Seq(Block) : Len(f) <= MaxBlocks => f \in File
<1>1. ASSUME NEW f \in File PROVE f \in Seq(Block) /\ Len(f) <= MaxBlocks
  <2>1. PICK n \in 0..MaxBlocks : f \in [1..n -> Block]
    BY <1>1 DEF File
  <2>2. n \in Nat /\ n <= MaxBlocks
    BY MaxBlocksType
  <2>3. f \in Seq(Block) /\ Len(f) = n
    BY <2>1, <2>2
  <2> QED
    BY <2>2, <2>3
<1>2. ASSUME NEW f \in Seq(Block), Len(f) <= MaxBlocks PROVE f \in File
  <2>1. Len(f) \in 0..MaxBlocks /\ f \in [1..Len(f) -> Block]
    BY <1>2, MaxBlocksType
  <2> QED
    BY <2>1 DEF File
<1> QED
  BY <1>1, <1>2

\* A round of either loop: the next block of the file is the one looked at.
LEMMA NextBlock ==
    ASSUME file \in File, data \in File, RestIsAhead, data # << >>,
           data' = Tail(data), UNCHANGED file
    PROVE  /\ data' \in File /\ RestIsAhead' /\ Done' = Done + 1
           /\ Done \in Nat /\ Done + 1 \in 1..Len(file)
           /\ Head(data) = file[Done + 1] /\ Head(data) \in Block
<1>1. /\ file \in Seq(Block) /\ data \in Seq(Block)
      /\ Len(file) \in Nat /\ Len(data) \in Nat
      /\ Len(data) <= Len(file) /\ Len(data) <= MaxBlocks /\ MaxBlocks \in Nat
  BY FileIsSeq, MaxBlocksType DEF RestIsAhead
<1>2. /\ Len(data) > 0 /\ data' \in Seq(Block) /\ Len(data') = Len(data) - 1
      /\ Head(data) = data[1] /\ Head(data) \in Block
      /\ \A j \in 1..Len(data') : data'[j] = data[j + 1]
  BY <1>1
<1>3. data' \in File
  <2>1. Len(data') <= MaxBlocks
    BY <1>1, <1>2
  <2> QED
    BY <1>2, <2>1, FileIsSeq, Zenon
<1>4. Done' = Done + 1 /\ Done \in Nat /\ Done + 1 \in 1..Len(file)
  BY <1>1, <1>2 DEF Done
<1>5. Head(data) = file[Done + 1]
  BY <1>1, <1>2 DEF RestIsAhead
<1>6. \A j \in 1..Len(data') : data'[j] = file'[Done' + j]
  <2> TAKE j \in 1..Len(data')
  <2>1. j + 1 \in 1..Len(data) /\ Done' + j = Done + (j + 1)
    BY <1>1, <1>2, <1>4
  <2>2. data[j + 1] = file[Done + (j + 1)]
    BY <2>1 DEF RestIsAhead
  <2> QED
    BY <1>2, <2>1, <2>2
<1> QED
  BY <1>1, <1>2, <1>3, <1>4, <1>5, <1>6 DEF RestIsAhead

\* One more block: a certificate is appended, another block is passed over.
LEMMA OneMoreCert ==
    ASSUME NEW s \in Seq(Block), NEW n \in Nat, CertsOf(s, n)
    PROVE  /\ IsCert(file[n + 1]) => CertsOf(Append(s, file[n + 1]), n + 1)
           /\ ~IsCert(file[n + 1]) => CertsOf(s, n + 1)
<1>0. PICK at \in [DOMAIN s -> 1..n] :
         /\ \A k \in DOMAIN s : s[k] = file[at[k]]
         /\ \A k, l \in DOMAIN s : k < l => at[k] < at[l]
         /\ {at[k] : k \in DOMAIN s} = {i \in 1..n : IsCert(file[i])}
  BY DEF CertsOf
<1>1. ASSUME ~IsCert(file[n + 1]) PROVE CertsOf(s, n + 1)
  <2>1. at \in [DOMAIN s -> 1..(n + 1)]
    BY <1>0
  <2>2. {i \in 1..(n + 1) : IsCert(file[i])} = {i \in 1..n : IsCert(file[i])}
    BY <1>1
  <2> QED
    BY <1>0, <2>1, <2>2, ZenonT(60) DEF CertsOf
<1>2. ASSUME IsCert(file[n + 1]) PROVE CertsOf(Append(s, file[n + 1]), n + 1)
  <2> DEFINE L == Len(s)
             t == Append(s, file[n + 1])
             to == [k \in 1..(L + 1) |-> IF k = L + 1 THEN n + 1 ELSE at[k]]
  <2>1. /\ L \in Nat /\ DOMAIN s = 1..L /\ DOMAIN t = 1..(L + 1)
        /\ t[L + 1] = file[n + 1] /\ \A k \in 1..L : t[k] = s[k]
    OBVIOUS
  <2>2. /\ \A k \in 1..L : to[k] = at[k] /\ at[k] \in 1..n
        /\ to[L + 1] = n + 1
    BY <1>0, <2>1
  <2> HIDE DEF t, to, L
  <2>3. \A k \in 1..(L + 1) : k = L + 1 \/ k \in 1..L
    BY <2>1
  <2>4. to \in [DOMAIN t -> 1..(n + 1)]
    <3>1. \A k \in 1..(L + 1) : to[k] \in 1..(n + 1)
      BY <2>1, <2>2, <2>3
    <3> QED
      BY <2>1, <3>1 DEF to
  <2>5. \A k \in DOMAIN t : t[k] = file[to[k]]
    BY <1>0, <2>1, <2>2, <2>3
  <2>6. \A k, l \in DOMAIN t : k < l => to[k] < to[l]
    <3> SUFFICES ASSUME NEW k \in 1..(L + 1), NEW l \in 1..(L + 1), k < l PROVE to[k] < to[l]
      BY <2>1
    <3>1. k \in 1..L
      BY <2>1
    <3>2. CASE l \in 1..L
      BY <1>0, <2>1, <2>2, <3>1, <3>2, ZenonT(60)
    <3>3. CASE l = L + 1
      BY <2>2, <3>1, <3>3
    <3> QED
      BY <2>3, <3>2, <3>3
  <2>7. {to[k] : k \in DOMAIN t} = {i \in 1..(n + 1) : IsCert(file[i])}
    <3>1. ASSUME NEW k \in 1..(L + 1) PROVE to[k] \in 1..(n + 1) /\ IsCert(file[to[k]])
      <4>1. \A j \in 1..L : at[j] \in {i \in 1..n : IsCert(file[i])}
        BY <1>0, <2>1, Zenon
      <4>2. CASE k \in 1..L
        BY <2>2, <4>1, <4>2
      <4>3. CASE k = L + 1
        BY <1>2, <2>2, <4>3
      <4> QED
        BY <2>3, <4>2, <4>3
    <3>2. ASSUME NEW i \in 1..(n + 1), IsCert(file[i]) PROVE \E k \in 1..(L + 1) : to[k] = i
      <4>1. CASE i = n + 1
        BY <2>1, <2>2, <4>1
      <4>2. CASE i \in 1..n
        <5>1. PICK k \in 1..L : at[k] = i
          BY <1>0, <2>1, <3>2, <4>2, SMTT(30)
        <5>2. k \in 1..(L + 1) /\ to[k] = at[k]
          BY <2>1, <2>2, <5>1
        <5> QED
          BY <5>1, <5>2, ZenonT(60)
      <4> QED
        BY <4>1, <4>2
    <3>3. {to[k] : k \in DOMAIN t} = {to[k] : k \in 1..(L + 1)}
      BY <2>1, ZenonT(60)
    <3> QED
      BY <3>1, <3>2, <3>3, ZenonT(60)
  <2> QED
    BY <2>4, <2>5, <2>6, <2>7, ZenonT(60) DEF CertsOf, t
<1> QED
  BY <1>1, <1>2

\* One more block: a certificate leaves der alone, another block replaces it.
LEMMA OneMoreOther ==
    ASSUME NEW n \in Nat, LastOther(n), UNCHANGED file,
           der' = IF IsCert(file[n + 1]) THEN der ELSE <<file[n + 1]>>
    PROVE  LastOther(n + 1)'
<1>0. \A i \in 1..(n + 1) : i \in 1..n \/ i = n + 1
  OBVIOUS
<1>1. CASE ~IsCert(file[n + 1])
  <2>1. n + 1 \in 1..(n + 1) /\ (n + 1 + 1)..(n + 1) = {}
    OBVIOUS
  <2> QED
    BY <1>1, <2>1 DEF LastOther, IsCert
<1>2. CASE IsCert(file[n + 1])
  <2>1. CASE der = << >> /\ \A i \in 1..n : IsCert(file[i])
    BY <1>0, <1>2, <2>1 DEF LastOther, IsCert
  <2>2. ASSUME NEW i \in 1..n, der = <<file[i]>>, ~IsCert(file[i]),
               \A j \in (i + 1)..n : IsCert(file[j])
        PROVE  LastOther(n + 1)'
    <3>1. i \in 1..(n + 1) /\ \A j \in (i + 1)..(n + 1) : IsCert(file[j])
      BY <1>2, <2>2
    <3> QED
      BY <1>2, <2>2, <3>1 DEF LastOther, IsCert
  <2> QED
    BY <2>1, <2>2 DEF LastOther
<1> QED
  BY <1>1, <1>2

LEMMA InitCPInv == Init => CPInv
<1> SUFFICES ASSUME Init PROVE CPInv
  OBVIOUS
<1>1. /\ file \in File /\ key \in Key /\ data = file
      /\ certs = << >> /\ der = << >> /\ result = << >>
  BY DEF Init
<1>2. file \in Seq(Block) /\ Len(file) \in Nat /\ Done = 0
  BY <1>1, FileIsSeq DEF Done
<1>3. TypeOK
  BY <1>1 DEF TypeOK
<1>4. RestIsAhead
  BY <1>1, <1>2 DEF RestIsAhead
<1>5. CertsOf(certs, 0)
  <2>1. /\ DOMAIN certs = {} /\ 1..0 = {} /\ [k \in {} |-> 1] \in [DOMAIN certs -> 1..0]
    BY <1>1
  <2> QED
    BY <2>1, ZenonT(60) DEF CertsOf
<1>6. LastOther(0)
  BY <1>1 DEF LastOther
<1> QED
  BY <1>1, <1>2, <1>3, <1>4, <1>5, <1>6 DEF CPInv, KeyResult

LEMMA getCertInv == CPInv /\ getCert => CPInv'
<1> SUFFICES ASSUME CPInv, getCert PROVE CPInv'
  OBVIOUS
<1>1. /\ key = "tls.crt" /\ data # << >> /\ data' = Tail(data)
      /\ certs' = IF IsCert(Head(data)) THEN Append(certs, Head(data)) ELSE certs
      /\ UNCHANGED file /\ UNCHANGED key /\ UNCHANGED der /\ UNCHANGED result
  BY DEF getCert
<1>2. /\ file \in File /\ key \in Key /\ data \in File
      /\ certs \in Seq(Block) /\ der \in Seq(Block) /\ Len(der) <= 1
      /\ RestIsAhead /\ CertsOf(certs, Done) /\ result = << >>
  BY <1>1 DEF CPInv, TypeOK
<1>3. /\ data' \in File /\ RestIsAhead' /\ Done' = Done + 1 /\ Done \in Nat
      /\ Head(data) = file[Done + 1] /\ Head(data) \in Block
  BY <1>1, <1>2, NextBlock
<1>4. certs' \in Seq(Block)
  BY <1>1, <1>2, <1>3
<1>5. CertsOf(certs', Done + 1)
  <2>1. /\ IsCert(file[Done + 1]) => CertsOf(Append(certs, file[Done + 1]), Done + 1)
        /\ ~IsCert(file[Done + 1]) => CertsOf(certs, Done + 1)
    BY <1>2, <1>3, OneMoreCert, Zenon
  <2> QED
    BY <1>1, <1>3, <2>1
<1>6. CertsOf(certs, Done)'
  BY <1>1, <1>3, <1>5 DEF CertsOf, IsCert
<1>7. TypeOK'
  BY <1>1, <1>2, <1>3, <1>4 DEF TypeOK
<1> QED
  BY <1>1, <1>2, <1>3, <1>6, <1>7 DEF CPInv, KeyResult

LEMMA getPrivateKeyInv == CPInv /\ getPrivateKey => CPInv'
<1> SUFFICES ASSUME CPInv, getPrivateKey PROVE CPInv'
  OBVIOUS
<1>1. /\ key = "tls.key" /\ data # << >> /\ data' = Tail(data)
      /\ der' = IF IsCert(Head(data)) THEN der ELSE <<Head(data)>>
      /\ UNCHANGED file /\ UNCHANGED key /\ UNCHANGED certs /\ UNCHANGED result
  BY DEF getPrivateKey
<1>2. /\ file \in File /\ key \in Key /\ data \in File
      /\ certs \in Seq(Block) /\ der \in Seq(Block) /\ Len(der) <= 1
      /\ RestIsAhead /\ LastOther(Done) /\ result = << >>
  BY <1>1, ZenonT(60) DEF CPInv, TypeOK, KeyResult
<1>3. /\ data' \in File /\ RestIsAhead' /\ Done' = Done + 1 /\ Done \in Nat
      /\ Head(data) = file[Done + 1] /\ Head(data) \in Block
  BY <1>1, <1>2, NextBlock
<1>4. der' \in Seq(Block) /\ Len(der') <= 1
  BY <1>1, <1>2, <1>3
<1>5. LastOther(Done)'
  <2>1. ASSUME NEW n \in Nat, n = Done PROVE LastOther(n + 1)'
    BY <1>1, <1>2, <1>3, <2>1, OneMoreOther, Zenon
  <2>2. PICK n \in Nat : n = Done
    BY <1>3
  <2> QED
    BY <1>3, <2>1, <2>2 DEF LastOther
<1>6. TypeOK'
  BY <1>1, <1>2, <1>3, <1>4 DEF TypeOK
<1> QED
  BY <1>1, <1>2, <1>3, <1>5, <1>6 DEF CPInv, KeyResult

LEMMA getCertPartInv == CPInv /\ getCertPart => CPInv'
<1> SUFFICES ASSUME CPInv, getCertPart PROVE CPInv'
  OBVIOUS
<1>1. /\ result = << >>
      /\ UNCHANGED file /\ UNCHANGED key /\ UNCHANGED data /\ UNCHANGED certs /\ UNCHANGED der
      /\ \/ key = "another" /\ result' = [err |-> TRUE, value |-> << >>]
         \/ key = "tls.crt" /\ data = << >> /\ result' = [err |-> FALSE, value |-> certs]
         \/ /\ key = "tls.key" /\ data = << >>
            /\ result' = IF der # << >> /\ Head(der).kind = "pkcs8 other"
                         THEN [err |-> TRUE, value |-> << >>]
                         ELSE [err |-> FALSE,
                               value |-> KeyBlock(IF der = << >> THEN << >> ELSE Marshal(Head(der)))]
  BY Zenon DEF getCertPart, Return
<1>2. result'.err \in BOOLEAN /\ (result'.err => result'.value = << >>)
  <2>1. \/ result' = [err |-> TRUE, value |-> << >>]
        \/ \E v : result' = [err |-> FALSE, value |-> v]
    BY <1>1, Zenon
  <2>2. CASE result' = [err |-> TRUE, value |-> << >>]
    BY <2>2, Zenon
  <2>3. ASSUME NEW v, result' = [err |-> FALSE, value |-> v] PROVE result'.err = FALSE
    BY <2>3, Zenon
  <2> QED
    BY <2>1, <2>2, <2>3, Zenon
<1>3. TypeOK'
  BY <1>1, <1>2, ZenonT(60) DEF CPInv, TypeOK
<1>4. RestIsAhead' /\ Done' = Done
  BY <1>1, ZenonT(60) DEF CPInv, RestIsAhead, Done
<1>5. key' = "tls.crt" => CertsOf(certs, Done)'
  BY <1>1, <1>4 DEF CPInv, CertsOf
<1>6. key' = "tls.key" => LastOther(Done)'
  BY <1>1, <1>4, ZenonT(60) DEF CPInv, LastOther
<1>7. key' = "tls.crt" /\ result' # << >> =>
            data' = << >> /\ result' = [err |-> FALSE, value |-> certs']
  BY <1>1
<1>8. KeyResult'
  BY <1>1, ZenonT(60) DEF KeyResult, KeyBlock, Marshal, IsRSA, IsEC
<1> QED
  BY <1>3, <1>4, <1>5, <1>6, <1>7, <1>8, Zenon DEF CPInv

LEMMA NextCPInv == CPInv /\ [Next]_vars => CPInv'
<1>1. CPInv /\ UNCHANGED vars => CPInv'
  <2> SUFFICES ASSUME CPInv, UNCHANGED vars PROVE CPInv'
    OBVIOUS
  <2>1. /\ UNCHANGED file /\ UNCHANGED key /\ UNCHANGED data
        /\ UNCHANGED certs /\ UNCHANGED der /\ UNCHANGED result
    BY DEF vars
  <2>2. TypeOK' /\ RestIsAhead' /\ Done' = Done /\ KeyResult'
    BY <2>1, ZenonT(60) DEF CPInv, TypeOK, RestIsAhead, Done, KeyResult, KeyBlock, Marshal,
       IsRSA, IsEC
  <2>3. /\ key' = "tls.crt" => CertsOf(certs, Done)'
        /\ key' = "tls.key" => LastOther(Done)'
    BY <2>1, <2>2 DEF CPInv, CertsOf, LastOther
  <2>4. key' = "tls.crt" /\ result' # << >> =>
            data' = << >> /\ result' = [err |-> FALSE, value |-> certs']
    BY <2>1, Zenon DEF CPInv
  <2> QED
    BY <2>2, <2>3, <2>4, Zenon DEF CPInv
<1> QED
  BY <1>1, getCertInv, getPrivateKeyInv, getCertPartInv DEF Next

\* getCert, getPrivateKey and getCertPart keep the state well typed: at most one
\* block is remembered for the key, and an error comes without a value.
THEOREM CertPartsTypes == Spec => []TypeOK
<1>1. CPInv => TypeOK
  BY DEF CPInv
<1> QED
  BY <1>1, InitCPInv, NextCPInv, PTL DEF Spec

\* The certificates that getCert returns are those of the file, each once and in
\* their order, for a file of any length with any blocks between them.
THEOREM ChainsAreWhole == Spec => []ChainIsWhole
<1>1. CPInv => ChainIsWhole
  <2> SUFFICES ASSUME CPInv, key = "tls.crt"
               PROVE  /\ CertsOf(certs, Done)
                      /\ result # << >> => ~result.err /\ CertsOf(result.value, Len(file))
    BY DEF ChainIsWhole, Done
  <2>1. CertsOf(certs, Done)
    BY DEF CPInv
  <2>2. ASSUME result # << >> PROVE ~result.err /\ CertsOf(result.value, Len(file))
    <3>1. data = << >> /\ result = [err |-> FALSE, value |-> certs]
      BY <2>2 DEF CPInv
    <3>2. Done = Len(file)
      <4>1. file \in Seq(Block)
        BY FileIsSeq DEF CPInv, TypeOK
      <4> QED
        BY <3>1, <4>1 DEF Done
    <3> QED
      BY <2>1, <3>1, <3>2
  <2> QED
    BY <2>1, <2>2
<1> QED
  BY <1>1, InitCPInv, NextCPInv, PTL DEF Spec

\* getPrivateKey writes the key that only certificates follow, wherever in a file
\* of any length it stands and whichever of the four encodings it has there, and
\* writes no other block as a key.
THEOREM LastKeysAreFound == Spec => []LastKeyIsFound
<1>1. CPInv => LastKeyIsFound
  <2> DEFINE last == {i \in DOMAIN file :
                        ~IsCert(file[i]) /\ \A j \in (i + 1)..Len(file) : IsCert(file[j])}
             written(b) == [form |-> IF IsRSA(b) THEN "pkcs1" ELSE "sec1", id |-> b.id]
             found(i) == result = [err |-> FALSE, value |-> <<[type |-> "RSA PRIVATE KEY",
                                                               der |-> <<written(file[i])>>]>>]
             nothing == result.err \/ result.value = <<[type |-> "RSA PRIVATE KEY", der |-> << >>]>>
  <2> SUFFICES ASSUME CPInv, key = "tls.key", result # << >>
               PROVE  /\ \A i \in last : IsKey(file[i]) => found(i)
                      /\ (\A i \in last : ~IsKey(file[i])) => nothing
    BY Zenon DEF LastKeyIsFound
  <2>1. /\ file \in Seq(Block) /\ Len(file) \in Nat /\ DOMAIN file = 1..Len(file)
        /\ data = << >> /\ Done = Len(file)
    <3>1. file \in Seq(Block) /\ data = << >>
      BY FileIsSeq, ZenonT(60) DEF CPInv, TypeOK, KeyResult
    <3> QED
      BY <3>1 DEF Done
  <2>2. LastOther(Len(file))
    BY <2>1 DEF CPInv
  <2>3. \A i, j \in last : i = j
    <3> SUFFICES ASSUME NEW i \in last, NEW j \in last, i < j PROVE FALSE
      BY <2>1
    <3> QED
      BY <2>1
  <2> HIDE DEF found, nothing
  <2>4. CASE der = << >> /\ \A i \in 1..Len(file) : IsCert(file[i])
    <3>1. last = {}
      BY <2>1, <2>4
    <3>2. nothing
      <4>1. KeyResult
        BY DEF CPInv
      <4>2. result = [err |-> FALSE, value |-> KeyBlock(<< >>)]
        BY <2>4, <4>1, ZenonT(60) DEF KeyResult
      <4>3. result.value = KeyBlock(<< >>)
        BY <4>2, ZenonT(60)
      <4> QED
        BY <4>3, ZenonT(60) DEF KeyBlock, nothing
    <3> QED
      BY <3>1, <3>2, Zenon
  <2>5. ASSUME NEW i \in 1..Len(file), der = <<file[i]>>, ~IsCert(file[i]),
               \A j \in (i + 1)..Len(file) : IsCert(file[j])
        PROVE  /\ \A k \in last : IsKey(file[k]) => found(k)
               /\ (\A k \in last : ~IsKey(file[k])) => nothing
    <3>1. i \in last /\ \A k \in last : k = i
      BY <2>1, <2>3, <2>5
    <3>2. der # << >> /\ Head(der) = file[i]
      BY <2>5
    <3>3. result = IF file[i].kind = "pkcs8 other"
                   THEN [err |-> TRUE, value |-> << >>]
                   ELSE [err |-> FALSE, value |-> KeyBlock(Marshal(file[i]))]
      BY <3>2, ZenonT(60) DEF CPInv, KeyResult
    <3>4. ASSUME IsKey(file[i]) PROVE found(i)
      <4>1. file[i].kind # "pkcs8 other"
        BY <3>4, ZenonT(60) DEF IsKey, IsRSA, IsEC
      <4>2. Marshal(file[i]) = <<written(file[i])>>
        BY <3>4, ZenonT(60) DEF Marshal, IsKey
      <4> QED
        BY <3>3, <4>1, <4>2, ZenonT(60) DEF KeyBlock, found
    <3>5. ASSUME ~IsKey(file[i]) PROVE nothing
      <4>1. Marshal(file[i]) = << >>
        BY <3>5, ZenonT(60) DEF Marshal, IsKey
      <4> QED
        BY <3>3, <4>1, ZenonT(60) DEF KeyBlock, nothing
    <3> QED
      BY <3>1, <3>4, <3>5, ZenonT(60)
  <2> QED
    BY <2>2, <2>4, <2>5, ZenonT(60) DEF LastOther
<1> QED
  BY <1>1, InitCPInv, NextCPInv, PTL DEF Spec
=============================================================================
