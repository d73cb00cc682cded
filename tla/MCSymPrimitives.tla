--------------------------- MODULE MCSymPrimitives ---------------------------
(***************************************************************************)
(* The hashes, their permutation and their rounds, the cipher and the      *)
(* strings, one of them per behaviour.                                     *)
(* They do not share state: machine says which one runs, in its own        *)
(* variables or in ones that stand for them.                               *)
(***************************************************************************)
EXTENDS Primitives

ASSUME MemFits == 2 * E4_ID_LEN + 4 < MemLen

(* All bits 0, and one bit at either end of a lane.                        *)
MCStarts == {[l \in 1 .. 25 |-> IF l = k THEN {b} ELSE {}] : k \in 0 .. 25, b \in {0, 63}}

(* The word of a number, for the rounds of SHA-512.                        *)
Bits(n) == {b \in 0 .. Width - 1 : (n \div 2^b) % 2 = 1}

MCRoundK == [t \in 1 .. 80 |-> Bits(t * 40503 + 77)]

MCRoundInputs ==
    {<<[k \in 1 .. 8 |-> Bits(k * k * 9001 + s)],
       [k \in 1 .. 16 |-> IF k = b THEN Bits(40961 + s) ELSE {}]>> : b \in 0 .. 16, s \in {0, 13}}

MCIds == {0, 7, 10, 160, 175, 255} \X {0, 159, 250, 255}

MCEncodings == UNION {[1 .. n -> {"0", "a", "F", "g"}] : n \in 0 .. 4}

VARIABLES machine, u, v, w, x, y, z

sha3Vars == <<ctx, msg, phase, out>>
keccakVars == <<lanes, keccakF, keccakRound>>
sha512Vars == <<md, digest>>
roundVars == <<roundIn, roundW, roundS, roundF, roundDone>>
sivVars == <<ad, pt>>
stringVars == <<memory, call>>
aesVars == <<u, v, w, x, y, z>>

allVars == <<machine, sha3Vars, keccakVars, sha512Vars, roundVars, sivVars, stringVars, aesVars>>

(* The example of FIPS 197, and keys and blocks that use all of the tables. *)
AE == INSTANCE Aes256 WITH in <- u, rk <- v, s <- w, key <- x, F <- y, round <- z,
        Inputs <- {<<[k \in 1 .. 32 |-> k - 1], [k \in 1 .. 16 |-> 17 * (k - 1)]>>}
                    \cup {<<[k \in 1 .. 32 |-> (n * k * 7 + n) % 256],
                            [k \in 1 .. 16 |-> (k * n * n + k) % 256]>> : n \in 1 .. 15}

(* Nothing that runs.                                                      *)
NoSha3 == ctx = 0 /\ phase = "absorb" /\ out = <<>>
NoKeccak == lanes = 0 /\ keccakF = 0 /\ keccakRound = 0
NoSha512 == md = 0 /\ digest = S5!None
NoRounds == roundIn = 0 /\ roundW = <<>> /\ roundS = 0 /\ roundF = 0 /\ roundDone = 0
NoMsg == msg = <<>>
NoSiv == ad = <<>> /\ pt = <<>>
NoStrings == UT!Init
NoAes == u = 0 /\ v = 0 /\ w = 0 /\ x = 0 /\ y = 0 /\ z = 0

MCInit ==
    \/ /\ machine = "Sha3"
       /\ Init /\ NoKeccak /\ NoSha512 /\ NoRounds /\ NoSiv /\ NoStrings /\ NoAes
    \/ /\ machine = "Keccak"
       /\ KE!Init /\ NoSha3 /\ NoSha512 /\ NoRounds /\ NoMsg /\ NoSiv /\ NoStrings /\ NoAes
    \/ /\ machine = "Sha512"
       /\ S5!Init /\ NoSha3 /\ NoKeccak /\ NoRounds /\ NoSiv /\ NoStrings /\ NoAes
    \/ /\ machine = "Sha512Rounds"
       /\ SR!Init /\ NoSha3 /\ NoKeccak /\ NoSha512 /\ NoMsg /\ NoSiv /\ NoStrings /\ NoAes
    \/ /\ machine = "AesSiv"
       /\ SV!Init /\ NoSha3 /\ NoKeccak /\ NoSha512 /\ NoRounds /\ NoMsg /\ NoStrings /\ NoAes
    \/ /\ machine = "E4Util"
       /\ UT!Init /\ NoSha3 /\ NoKeccak /\ NoSha512 /\ NoRounds /\ NoMsg /\ NoSiv /\ NoAes
    \/ /\ machine = "Aes256"
       /\ AE!Init /\ NoSha3 /\ NoKeccak /\ NoSha512 /\ NoRounds /\ NoMsg /\ NoSiv /\ NoStrings

MCNext ==
    /\ UNCHANGED machine
    /\ \/ /\ machine = "Sha3" /\ Next
          /\ UNCHANGED <<keccakVars, sha512Vars, roundVars, sivVars, stringVars, aesVars>>
       \/ /\ machine = "Keccak" /\ KE!Next
          /\ UNCHANGED <<sha3Vars, sha512Vars, roundVars, sivVars, stringVars, aesVars>>
       \/ /\ machine = "Sha512" /\ S5!Next
          /\ UNCHANGED <<ctx, phase, out, keccakVars, roundVars, sivVars, stringVars, aesVars>>
       \/ /\ machine = "Sha512Rounds" /\ SR!Next
          /\ UNCHANGED <<sha3Vars, keccakVars, sha512Vars, sivVars, stringVars, aesVars>>
       \/ /\ machine = "AesSiv" /\ SV!Next
          /\ UNCHANGED <<sha3Vars, keccakVars, sha512Vars, roundVars, stringVars, aesVars>>
       \/ /\ machine = "E4Util" /\ UT!Next
          /\ UNCHANGED <<sha3Vars, keccakVars, sha512Vars, roundVars, sivVars, aesVars>>
       \/ /\ machine = "Aes256" /\ AE!Next
          /\ UNCHANGED <<sha3Vars, keccakVars, sha512Vars, roundVars, sivVars, stringVars>>

MCSpec == MCInit /\ [][MCNext]_allVars

-----------------------------------------------------------------------------
(* Properties: those of Primitives, which hold of a machine that does not  *)
(* run, and one of AES.                                                    *)

(* The table-driven aes256_encrypt_ecb and its key expansion do the rounds *)
(* of FIPS 197.                                                            *)
AesIsFips == machine = "Aes256" => AE!RoundsAreFips

=============================================================================
