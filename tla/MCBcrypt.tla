------------------------------ MODULE MCBcrypt ------------------------------
(***************************************************************************)
(* Passwords of up to one byte more than the limit, of three bytes with the  *)
(* NUL; salts of four bytes, of which the last character has spare bits as   *)
(* that of a salt of sixteen bytes has.                                      *)
(***************************************************************************)
EXTENDS Bcrypt

MCPlains == UNION {[1 .. n -> {0, 1, 2}] : n \in 0 .. MaxPassword + 1}
MCRandomSalts == {<<0, 27, 128, 255>>}

AsSalt(prefix, cost, chars) ==
  [length |-> PrefixLength + 3 + Len(chars), prefix |-> prefix, cost |-> cost,
   salt |-> chars, digest |-> NoDigest]
GoodChars == Encode(<<7, 255, 0, 90>>)
WithLast(chars, c) == [chars EXCEPT ![Len(chars)] = c]

MCSaltTexts ==
  {AsSalt(prefix, 5, GoodChars) : prefix \in {"$2a$", "$2y$", "$2b$", "other"}}
  \union {AsSalt("$2b$", cost, GoodChars) : cost \in {NoCost, NulCost, 3, 4, 31, 32}}
  \union {AsSalt("$2b$", 5, WithLast(GoodChars, c)) :
            c \in {NulChar, 255, GoodChars[Len(GoodChars)] + 1}}
  \union {AsSalt("$2a$", 5, Tail(GoodChars))}
  \union {[AsSalt("other", NoCost, GoodChars) EXCEPT !.length = n] : n \in {2, SaltChars}}
  \union {[AsSalt(NulPrefix, NoCost, GoodChars) EXCEPT !.length = SaltChars]}

(* The hash itself, or one change to one part of it. *)
MCChanged(h) ==
  IF h = NoText THEN {}
  ELSE {[h EXCEPT !.prefix = p] : p \in {"$2a$", "$2y$", "$2b$", "other", NulPrefix}}
       \union {[h EXCEPT !.cost = c] : c \in {NoCost, NulCost, 3, h.cost, h.cost + 1}}
       \union {[h EXCEPT !.salt = WithLast(h.salt, c)] :
                 c \in {NulChar, 255, (h.salt[SaltChars] + 1) % 64, (h.salt[SaltChars] + 16) % 64}}
       \union {[h EXCEPT !.digest = OtherDigest], [h EXCEPT !.length = @ - 1]}

=============================================================================
