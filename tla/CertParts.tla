----------------------------- MODULE CertParts -----------------------------
(***************************************************************************)
(* The certificate and the private key of a TLS Secret are cut from one    *)
(* mounted PEM file (getCertPart, getCert and getPrivateKey in             *)
(* controllers/utils.go).  A file is the sequence of blocks that           *)
(* pem.Decode finds in it; a block is what its type and the x509 parsers   *)
(* make of it.                                                             *)
(***************************************************************************)
EXTENDS Naturals, Sequences

CONSTANTS
    Id,           \* tells keys and certificates apart
    MaxBlocks     \* bound: blocks in a file

ASSUME IdNonempty == Id # {}
ASSUME MaxBlocksType == MaxBlocks \in Nat

\* "other": a block of another type that is no key, like EC PARAMETERS.
\* "pkcs8 other": a PKCS#8 key that is neither RSA nor ECDSA.  "ec": SEC 1.
Kind == {"cert", "pkcs1", "pkcs8 rsa", "pkcs8 ec", "pkcs8 other", "ec", "other"}
Block == [kind : Kind, id : Id]
File == UNION {[1..n -> Block] : n \in 0..MaxBlocks}

\* The key in the Secret's data that the file is for.
Key == {"tls.crt", "tls.key", "another"}

VARIABLES
    file, key,    \* the arguments
    data,         \* the blocks not decoded yet
    certs, der,   \* locals: the certificates, and the last other block or none
    result        \* [err, value], the PEM blocks written, or << >> while the loop runs

vars == <<file, key, data, certs, der, result>>

IsCert(b) == b.kind = "cert"
IsRSA(b) == b.kind \in {"pkcs1", "pkcs8 rsa"}
IsEC(b) == b.kind \in {"ec", "pkcs8 ec"}
IsKey(b) == IsRSA(b) \/ IsEC(b)

\* The state is well typed; der holds one block at most, and an error comes
\* without a value.
TypeOK ==
    /\ file \in File /\ key \in Key /\ data \in File
    /\ certs \in Seq(Block) /\ der \in Seq(Block) /\ Len(der) <= 1
    /\ result # << >> => result.err \in BOOLEAN /\ (result.err => result.value = << >>)

Init ==
    /\ file \in File /\ key \in Key
    /\ data = file
    /\ certs = << >> /\ der = << >> /\ result = << >>

\* Mutant: the loop ends at the first block of another type.
getCertStops ==
    /\ key = "tls.crt" /\ data # << >>
    /\ IF IsCert(Head(data))
       THEN certs' = Append(certs, Head(data)) /\ data' = Tail(data)
       ELSE certs' = certs /\ data' = << >>
    /\ UNCHANGED <<file, key, der, result>>

\* One round of the loop in getCert.
getCert ==
    /\ key = "tls.crt" /\ data # << >>
    /\ certs' = IF IsCert(Head(data)) THEN Append(certs, Head(data)) ELSE certs
    /\ data' = Tail(data)
    /\ UNCHANGED <<file, key, der, result>>

\* Mutant: any block may overwrite der.
getPrivateKeyAny ==
    /\ key = "tls.key" /\ data # << >>
    /\ der' = <<Head(data)>>
    /\ data' = Tail(data)
    /\ UNCHANGED <<file, key, certs, result>>

\* Mutant: the blocks are collected.
getPrivateKeyCollects ==
    /\ key = "tls.key" /\ data # << >>
    /\ der' = IF IsCert(Head(data)) THEN der ELSE Append(der, Head(data))
    /\ data' = Tail(data)
    /\ UNCHANGED <<file, key, certs, result>>

\* One round of the loop in getPrivateKey.
getPrivateKey ==
    /\ key = "tls.key" /\ data # << >>
    /\ der' = IF IsCert(Head(data)) THEN der ELSE <<Head(data)>>
    /\ data' = Tail(data)
    /\ UNCHANGED <<file, key, certs, result>>

Return(err, value) ==
    /\ result = << >>
    /\ result' = [err |-> err, value |-> value]
    /\ UNCHANGED <<file, key, data, certs, der>>

\* derKey: PKCS#8 keys, too, are written as PKCS#1 (RSA) or SEC 1 (EC).  What no
\* parser takes leaves it empty.
Marshal(b) ==
    IF IsRSA(b) THEN <<[form |-> "pkcs1", id |-> b.id]>>
    ELSE IF IsEC(b) THEN <<[form |-> "sec1", id |-> b.id]>>
    ELSE << >>

\* privateKeyType is the type of the block for every key, and without a key too.
KeyBlock(derKey) == <<[type |-> "RSA PRIVATE KEY", der |-> derKey]>>

\* After the loop.  Certificates are written as they were read.
getCertPart ==
    \/ key = "another" /\ Return(TRUE, << >>)
    \/ key = "tls.crt" /\ data = << >> /\ Return(FALSE, certs)
    \/ /\ key = "tls.key" /\ data = << >>
       /\ IF der # << >> /\ Head(der).kind = "pkcs8 other"
          THEN Return(TRUE, << >>)
          ELSE Return(FALSE, KeyBlock(IF der = << >> THEN << >> ELSE Marshal(Head(der))))

Next == getCert \/ getPrivateKey \/ getCertPart

Spec == Init /\ [][Next]_vars

-----------------------------------------------------------------------------

\* s is what is left of the first n blocks of the file when all but the
\* certificates are struck out: at[k] is where the k-th one stands.
CertsOf(s, n) ==
    \E at \in [DOMAIN s -> 1..n] :
        /\ \A k \in DOMAIN s : s[k] = file[at[k]]
        /\ \A k, l \in DOMAIN s : k < l => at[k] < at[l]
        /\ {at[k] : k \in DOMAIN s} = {i \in 1..n : IsCert(file[i])}

\* At every round of getCert's loop the certificates found are those of the
\* blocks gone through, each once and in their order, and at the end they are
\* the file's: a chain is never cut or reordered, whatever blocks stand between
\* its parts.
ChainIsWhole ==
    key = "tls.crt" =>
        /\ CertsOf(certs, Len(file) - Len(data))
        /\ result # << >> => ~result.err /\ CertsOf(result.value, Len(file))

\* getPrivateKey finds a key wherever in the file it stands and however it is
\* encoded there, provided that only certificates follow it, and writes that key:
\* RSA as PKCS#1 and EC as SEC 1, both under the label "RSA PRIVATE KEY".  In
\* any other file no block is taken for a key: the answer is an error or a PEM
\* block without content.
LastKeyIsFound ==
    key = "tls.key" /\ result # << >> =>
        LET last == {i \in DOMAIN file :
                        ~IsCert(file[i]) /\ \A j \in (i + 1)..Len(file) : IsCert(file[j])}
            written(b) == [form |-> IF IsRSA(b) THEN "pkcs1" ELSE "sec1", id |-> b.id]
        IN /\ \A i \in last : IsKey(file[i]) =>
                 result = [err |-> FALSE, value |-> <<[type |-> "RSA PRIVATE KEY",
                                                      der |-> <<written(file[i])>>]>>]
           /\ (\A i \in last : ~IsKey(file[i])) =>
                 \/ result.err
                 \/ result.value = <<[type |-> "RSA PRIVATE KEY", der |-> << >>]>>
=============================================================================
