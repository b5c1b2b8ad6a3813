------------------------------ MODULE Sanitize ------------------------------
(***************************************************************************)
(* SanitizeName (pkg/k8s/utils.go) and the rule that the API client holds  *)
(* names to (pkg/k8s/validate.go), over sequences of characters.  Four     *)
(* characters stand for all: a lower-case letter or digit, an upper-case   *)
(* letter, the hyphen, and any other character.                            *)
(***************************************************************************)
EXTENDS Naturals, Sequences, SequencesExt

CONSTANT MaxNameLen   \* 63

ASSUME NameLenAssumption == MaxNameLen \in Nat \ {0}

Characters == {"a", "A", "-", "_"}

\* The positions of s that are no hyphens.
Solid(s) == {k \in DOMAIN s : s[k] # "-"}

TrimRight(s) == SubSeq(s, 1, Max(Solid(s) \cup {0}))

TrimLeft(s) == SubSeq(s, Min(Solid(s) \cup {Len(s) + 1}), Len(s))

ToLower(s) == [k \in DOMAIN s |-> IF s[k] = "A" THEN "a" ELSE s[k]]

\* What ReplaceAllString makes of the first k characters: a run of other characters
\* becomes one hyphen; hyphens that are there stay as they are.
Replaced(done, s, k) ==
  IF k = 0 THEN <<>>
  ELSE IF s[k] # "_" THEN Append(done[k - 1], s[k])
  ELSE IF k > 1 /\ s[k - 1] = "_" THEN done[k - 1]
  ELSE Append(done[k - 1], "-")

\* invalidCharsRegexp.ReplaceAllString
ReplaceInvalid(s) ==
  LET done[k \in 0..Len(s)] == Replaced(done, s, k)
  IN  done[Len(s)]

\* Mutant: a name that was cut may end with a hyphen.
SanitizeCutLast(raw) ==
  LET trimmed == TrimLeft(TrimRight(ReplaceInvalid(ToLower(raw))))
  IN  SubSeq(trimmed, 1, Min({Len(trimmed), MaxNameLen}))

\* The empty sequence stands for the panic.
SanitizeName(raw) ==
  LET trimmed == TrimLeft(TrimRight(ReplaceInvalid(ToLower(raw))))
  IN  IF Len(trimmed) > MaxNameLen THEN TrimRight(SubSeq(trimmed, 1, MaxNameLen)) ELSE trimmed

\* What validateDNS1123Label and validateDNS1123Subdomain accept.
ValidName(s) ==
  /\ Len(s) \in 1..MaxNameLen
  /\ \A k \in DOMAIN s : s[k] \in {"a", "-"}
  /\ s[1] = "a" /\ s[Len(s)] = "a"
=============================================================================
