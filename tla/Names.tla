------------------------------- MODULE Names -------------------------------
(***************************************************************************)
(* Channel names: star patterns (src/internal/pattern/pattern.go) and the  *)
(* namespaces that give a channel its settings                             *)
(* (src/internal/namespace/namespace.go).  A name is a sequence of         *)
(* characters; only "*" and ":" mean anything.                             *)
(***************************************************************************)
EXTENDS Naturals, Sequences, SequencesExt

CONSTANTS
  Namespaces,  \* namespace name -> settings
  Default,     \* settings of unprefixed channels
  Strict       \* is a channel of an unknown namespace refused?

Modes == {"broadcast", "roundRobin", "priority"}

\* What the engine reads of namespace.Settings; hist, ttl and idle say
\* whether the limit is positive.
SettingsType ==
  [hist : BOOLEAN, ttl : BOOLEAN, idle : BOOLEAN, maxSubs : Nat,
   fanout : Modes, wild : BOOLEAN, publish : BOOLEAN]

\* Settings.validate, as far as these fields go.
Valid(s) ==
  /\ s \in SettingsType
  /\ s.ttl => s.hist
  /\ s.wild => s.fanout = "broadcast"

\* NewRegistry refuses other settings; a namespace with an empty name would
\* never be looked up.
ASSUME NamesAssumption ==
  /\ Valid(Default)
  /\ \A ns \in DOMAIN Namespaces : ns # <<>> /\ Valid(Namespaces[ns])
  /\ Strict \in BOOLEAN

-----------------------------------------------------------------------------
\* Match: two cursors, and on a mismatch back to the last star, which then
\* swallows one character more.
Match(pat, name) ==
  LET m == Len(pat)
      n == Len(name)
      Scan[s \in [i : Nat, j : Nat, star : Nat, mark : Nat]] ==
        IF s.j > n THEN \A k \in s.i .. m : pat[k] = "*"
        ELSE IF s.i <= m /\ pat[s.i] = "*"
        THEN Scan[[i |-> s.i + 1, j |-> s.j, star |-> s.i, mark |-> s.j]]
        ELSE IF s.i <= m /\ pat[s.i] = name[s.j]
        THEN Scan[[s EXCEPT !.i = @ + 1, !.j = @ + 1]]
        ELSE s.star > 0 /\ Scan[[s EXCEPT !.i = s.star + 1, !.j = s.mark + 1, !.mark = @ + 1]]
  IN  Scan[[i |-> 1, j |-> 1, star |-> 0, mark |-> 1]]

\* What a star pattern means: a star stands for any substring, anything else
\* for itself.
Glob(pat, name) ==
  LET m == Len(pat)
      n == Len(name)
      From[s \in (1 .. m + 1) \X (1 .. n + 1)] ==
        IF s[1] > m THEN s[2] > n
        ELSE IF pat[s[1]] = "*" THEN \E k \in s[2] .. n + 1 : From[<<s[1] + 1, k>>]
        ELSE s[2] <= n /\ pat[s[1]] = name[s[2]] /\ From[<<s[1] + 1, s[2] + 1>>]
  IN  From[<<1, 1>>]

IsPattern(name) == Contains(name, "*")

Prefixed(name) == Contains(name, ":")

\* namespace.Prefix: what stands before the first colon.
Prefix(name) ==
  IF Prefixed(name)
  THEN LET k == CHOOSE i \in 1 .. Len(name) :
                  name[i] = ":" /\ \A l \in 1 .. i - 1 : name[l] # ":"
       IN  SubSeq(name, 1, k - 1)
  ELSE <<>>

\* Registry.Resolve finds settings: strict registries know no namespace that
\* is not configured, and no empty prefix.
Known(name) ==
  \/ Prefix(name) \in DOMAIN Namespaces
  \/ ~Strict
  \/ ~Prefixed(name)

\* ... and these are the settings it finds.
Resolve(name) ==
  IF Prefix(name) \in DOMAIN Namespaces THEN Namespaces[Prefix(name)] ELSE Default

\* Match decides exactly the star patterns, over every pattern and name up to
\* four characters of a two-letter alphabet (pattern.go:27-49): backtracking
\* to the last star alone never loses a match, and no branch loops.
MatchIsGlob ==
  \A m, n \in 0 .. 4 :
    \A pat \in [1 .. m -> {"a", "b", "*"}], name \in [1 .. n -> {"a", "b"}] :
      Match(pat, name) <=> Glob(pat, name)
=============================================================================
