----------------------------- MODULE Primitives -------------------------------
(***************************************************************************)
(* The primitives side by side: SHA-3 for topics, keys and passwords with  *)
(* its permutation, SHA-512 for the signatures with its rounds, AES-SIV    *)
(* for the messages themselves, and the strings of names.  They share no   *)
(* state; the message that is hashed is that of whichever hash is used.    *)
(***************************************************************************)
EXTENDS Sha3

CONSTANTS
    KeccakStarts,                                   \* Keccak
    Block, LenLen,                                  \* Sha512
    Width, RoundK, RoundInputs,                     \* Sha512Rounds
    N, MaskAt, Key, AdBytes, PtBytes, MaxAd, MaxPt, \* AesSiv
    E4_ID_LEN, MemLen, Ids, Encodings               \* E4Util

VARIABLES
    lanes, keccakF, keccakRound,                    \* Keccak
    md, digest,                                     \* Sha512
    roundIn, roundW, roundS, roundF, roundDone,     \* Sha512Rounds
    ad, pt,                                         \* AesSiv
    memory, call                                    \* E4Util

KE == INSTANCE Keccak WITH Starts <- KeccakStarts, A <- lanes, F <- keccakF, round <- keccakRound

S5 == INSTANCE Sha512

SR == INSTANCE Sha512Rounds WITH K <- RoundK, Inputs <- RoundInputs, in <- roundIn, W <- roundW,
        S <- roundS, F <- roundF, i <- roundDone

SV == INSTANCE AesSiv

UT == INSTANCE E4Util WITH mem <- memory, last <- call

ASSUME KeccakStartsGiven == KE!StartsGiven
ASSUME Sha512SizesFit == S5!SizesFit
ASSUME Sha512RoundsGiven == SR!RoundsGiven
ASSUME AesSivBytesFit == SV!BytesFit
ASSUME E4UtilStringsGiven == UT!StringsGiven

-----------------------------------------------------------------------------
(* Properties of the instances, by names of their own.                     *)

(* keccak_f1600, with two rounds per turn and five steps in one pass, does *)
(* the rounds of FIPS 202.                                                 *)
KeccakIsFips == KE!RoundsAreFips

(* sha512_final gives the digest of the message, however it was cut into   *)
(* calls of sha512_update, which of its blocks went through buf, whatever  *)
(* an earlier message has left there, and wherever in a block it ends.     *)
Sha512DigestIsFips == S5!DigestIsFips

(* sha512_compress does the rounds of FIPS 180-4 without moving words.     *)
Sha512RoundsAreFips == SR!RoundsAreFips

(* aes256_encrypt_siv gives what RFC 5297 defines, for every length and    *)
(* with a counter that carries from byte to byte, and aes256_decrypt_siv   *)
(* accepts and inverts it.                                                 *)
SivIsRfc == SV!EncryptIsRfc /\ SV!DecryptInverts /\ SV!CounterCarries

(* A control topic decodes to the id it was derived from; nothing is       *)
(* written behind a buffer, and copies end in NUL.                         *)
StringsFit == UT!TopicNamesId /\ UT!BuffersKept

=============================================================================
