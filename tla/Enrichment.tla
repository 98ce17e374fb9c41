----------------------------- MODULE Enrichment -----------------------------
(***************************************************************************)
(* What the three enrichment services answer (ClaimantIdHasher,            *)
(* AddressNormalizer and PolicyLookup), as pure operators.                 *)
(*                                                                         *)
(* A text that a service trims and case-folds before it looks at it is a   *)
(* record: what is left after that (canon, "" when the text is blank) and  *)
(* how the client spelled it.  A raw address is the sequence of its        *)
(* comma-separated parts, each one told apart only by what the parser can  *)
(* see of it.  Strings the services put together are sequences of their    *)
(* fields; <<>> is the empty string.                                       *)
(***************************************************************************)
EXTENDS Integers, Sequences

Text == [canon: STRING, spelling: STRING]

\* "empty": no character; "spaces": only blanks; "word": one word;
\* "words": several words separated by blanks.
AddressPart == {"empty", "spaces", "word", "words"}

RawAddress == Seq(AddressPart) \ {<<>>}

IsBlank(part) == part \in {"empty", "spaces"}

\* The digest is injective in the normalized name, so the name stands for it.
Hash(claimantName) ==
  IF claimantName.canon = "" THEN <<>> ELSE <<claimantName.canon>>

\* String.split(",") drops trailing empty strings: three parts are left when
\* some part from the third on is not the empty string.
HasThreeParts(raw) == \E i \in 3 .. Len(raw) : raw[i] # "empty"

Normalize(raw) ==
  IF ~HasThreeParts(raw)
  THEN [normalizedAddress |-> IF Len(raw) = 1 /\ IsBlank(raw[1])
                              THEN <<>> ELSE <<"cleaned">>,
        valid |-> FALSE]
  ELSE LET line1      == IF IsBlank(raw[1]) THEN "" ELSE "line1"
           city       == IF IsBlank(raw[2]) THEN "" ELSE "city"
           state      == IF raw[3] = "words" THEN <<"state">> ELSE <<>>
           postalCode == IF IsBlank(raw[3]) THEN <<>> ELSE <<"postalCode">>
       IN  [normalizedAddress |-> <<line1, city>> \o state \o postalCode \o <<"US">>,
            valid |-> /\ line1 # "" /\ city # ""
                      /\ state # <<>> /\ postalCode # <<>>]

notFound == [found |-> FALSE, status |-> "unknown", coverageType |-> ""]

\* The fixture policies: one per status the model service tells apart.
KnownPolicies ==
  {[number |-> "POL-123456", status |-> "active",    coverageType |-> "full"],
   [number |-> "POL-654321", status |-> "lapsed",    coverageType |-> "liability_only"],
   [number |-> "POL-000000", status |-> "cancelled", coverageType |-> "full"]}

Lookup(policyNumber) ==
  IF \E p \in KnownPolicies : p.number = policyNumber.canon
  THEN LET p == CHOOSE p \in KnownPolicies : p.number = policyNumber.canon
       IN  [found |-> TRUE, status |-> p.status, coverageType |-> p.coverageType]
  ELSE notFound
=============================================================================
