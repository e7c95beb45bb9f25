----------------------------- MODULE KeyExchange -----------------------------
(***************************************************************************)
(* The arithmetic of the key exchange: send_private_key and                *)
(* compute_shared_key (src/network/session.c) and the loop of              *)
(* utils_mod_exp (src/utils/utils.c), a turn a step, with the widths of    *)
(* the program's integers.  Session has the order of messages and threads, *)
(* and takes from here what becomes of sound and of weak parameters.       *)
(* The AES key is a digest of K, so two sides have the same one if they    *)
(* have the same K.                                                        *)
(* An operator whose comment begins "Variant" is the next definition with  *)
(* a plausible defect, used only to show which property notices it.        *)
(***************************************************************************)
EXTENDS Integers

CONSTANTS
    Offers,         \* the parameters the server may offer, as <<p, g>>
    Secrets,        \* the secrets that may be drawn
    ServerSecrets   \* the server's own secrets

Uint8 == 0 .. 255
Uint16 == 0 .. 65535
MaxInt == 2147483647

\* What utils_next_int(65535) may return.
RandomBound == 65535
Random == {r \in Uint16 : r < RandomBound}

ASSUME KeyAssumption ==
    /\ Offers \subseteq Uint8 \X Uint8
    /\ Secrets \subseteq Random /\ ServerSecrets \subseteq Nat

VARIABLES
    pc,            \* waiting, computing B, sent, computing K, done, failed
    offer,         \* the parameters as the server sent them
    a,             \* the server's secret
    p, g, bb, A, B, K,    \* the fields of Key
    base, exp, result     \* the variables of utils_mod_exp

vars == <<pc, offer, a, p, g, bb, A, B, K, base, exp, result>>
loopVars == <<base, exp, result>>

Init ==
    /\ pc = "waiting" /\ offer = <<0, 0>> /\ a = 0
    /\ p = 0 /\ g = 0 /\ bb = 0 /\ A = 0 /\ B = 0 /\ K = 0
    /\ base = 0 /\ exp = 0 /\ result = 0

\* b^e modulo m, as its definition has it.
PowerMod(b, e, m) ==
    LET power[n \in 0 .. e] == IF n = 0 THEN 1 % m ELSE (power[n - 1] * b) % m
    IN  power[e]

(***************************************************************************)
(* utils_mod_exp.                                                          *)
(***************************************************************************)
CallModExp(b, e, mod) == result' = 1 /\ base' = b % mod /\ exp' = e

\* Variant: the product is not reduced.
ModExpTurnUnreduced ==
    /\ pc \in {"B", "K"} /\ exp > 0
    /\ result' = IF exp % 2 = 1 THEN result * base ELSE result
    /\ exp' = exp \div 2
    /\ base' = (base * base) % p
    /\ UNCHANGED <<pc, offer, a, p, g, bb, A, B, K>>

ModExpTurn ==
    /\ pc \in {"B", "K"} /\ exp > 0
    /\ result' = IF exp % 2 = 1 THEN (result * base) % p ELSE result
    /\ exp' = exp \div 2
    /\ base' = (base * base) % p
    /\ UNCHANGED <<pc, offer, a, p, g, bb, A, B, K>>

(***************************************************************************)
(* send_private_key.                                                       *)
(***************************************************************************)
\* Variant: the two parameters in the other order.
ReceiveParamsSwapped(o) ==
    /\ pc = "waiting"
    /\ offer' = o /\ p' = o[2] /\ g' = o[1]
    /\ \/ /\ p' = 0 \/ g' = 0
          /\ pc' = "failed" /\ UNCHANGED <<bb, loopVars>>
       \/ /\ p' # 0 /\ g' # 0
          /\ pc' = "B" /\ bb' \in Secrets
          /\ CallModExp(g', bb', p')
    /\ UNCHANGED <<a, A, B, K>>

ReceiveParams(o) ==
    /\ pc = "waiting"
    /\ offer' = o /\ p' = o[1] /\ g' = o[2]
    /\ \/ /\ p' = 0 \/ g' = 0
          /\ pc' = "failed" /\ UNCHANGED <<bb, loopVars>>
       \/ /\ p' # 0 /\ g' # 0
          /\ pc' = "B" /\ bb' \in Secrets
          /\ CallModExp(g', bb', p')
    /\ UNCHANGED <<a, A, B, K>>

\* utils_mod_exp returns B; a zero is not sent.
SendB ==
    /\ pc = "B" /\ exp = 0
    /\ B' = result % 65536
    /\ pc' = IF B' = 0 THEN "failed" ELSE "sent"
    /\ UNCHANGED <<offer, a, p, g, bb, A, K, loopVars>>

(***************************************************************************)
(* The server, and compute_shared_key.                                     *)
(***************************************************************************)
\* Variant: the client raises g again, not A.
ReceiveAUsesG(s) ==
    /\ pc = "sent"
    /\ a' = s /\ A' \in Uint8 /\ A' = PowerMod(offer[2], s, offer[1])
    /\ \/ A' = 0 /\ pc' = "failed" /\ UNCHANGED loopVars
       \/ A' # 0 /\ pc' = "K" /\ CallModExp(g, bb, p)
    /\ UNCHANGED <<offer, p, g, bb, B, K>>

\* The server's A arrives, in one byte.
ReceiveA(s) ==
    /\ pc = "sent"
    /\ a' = s /\ A' \in Uint8 /\ A' = PowerMod(offer[2], s, offer[1])
    /\ \/ A' = 0 /\ pc' = "failed" /\ UNCHANGED loopVars
       \/ A' # 0 /\ pc' = "K" /\ CallModExp(A', bb, p)
    /\ UNCHANGED <<offer, p, g, bb, B, K>>

\* utils_mod_exp returns K; a zero is not made into a key.
MakeKey ==
    /\ pc = "K" /\ exp = 0
    /\ K' = result % 65536
    /\ pc' = IF K' = 0 THEN "failed" ELSE "done"
    /\ UNCHANGED <<offer, a, p, g, bb, A, B, loopVars>>

Next ==
    \/ \E o \in Offers : ReceiveParams(o)
    \/ ModExpTurn \/ SendB
    \/ \E s \in ServerSecrets : ReceiveA(s)
    \/ MakeKey

Spec == Init /\ [][Next]_vars
-----------------------------------------------------------------------------
\* Every field of Key holds a value of its C type.
TypeOK ==
    /\ pc \in {"waiting", "B", "sent", "K", "done", "failed"}
    /\ offer \in Uint8 \X Uint8 /\ a \in Nat
    /\ p \in Uint8 /\ g \in Uint8
    /\ bb \in Uint16 /\ A \in Uint16 /\ B \in Uint16 /\ K \in Uint16
    /\ base \in Nat /\ exp \in Nat /\ result \in Nat

\* No product of utils_mod_exp leaves the range of int (utils.c:56, 60),
\* whatever bytes the server offers and whatever secret is drawn.
ProductsFit ==
    (pc \in {"B", "K"} /\ base > 0) =>
        result <= MaxInt \div base /\ base <= MaxInt \div base

\* A finished exchange gives the client the K the server computes from B and
\* its own secret, also where p is no prime (session.c:418-465).
SameKey == pc = "done" => K = PowerMod(B, a, offer[1])

\* With a prime p that does not divide g no step of the exchange gives up:
\* none of the zeros the code tests for comes up (session.c:424, 432, 450, 457).
Prime(n) == n > 1 /\ \A d \in 2 .. n - 1 : n % d # 0
SoundParamsWork ==
    (Prime(offer[1]) /\ offer[2] % offer[1] # 0) => pc # "failed"
-----------------------------------------------------------------------------
\* The instance: primes and composites, the largest bytes, a base larger than
\* the modulus and one that it divides; secrets of one bit, of all and of some.
MCOffers == {0, 1, 2, 4, 12, 23, 251, 255} \X {0, 1, 2, 5, 6, 46, 254, 255}
MCSecrets == (0 .. 9) \cup {31, 42}
MCServerSecrets == {0, 1, 2, 3, 7, 20}
=============================================================================
