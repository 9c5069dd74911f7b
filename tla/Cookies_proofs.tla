----------------------------- MODULE Cookies_proofs -----------------------------
(***************************************************************************)
(* What the parser of cookies computes from a string of any length, and    *)
(* what runs of build_http_cookie_table leave in the tables, however many  *)
(* there are and wherever they are interrupted.                            *)
(***************************************************************************)
EXTENDS CookieTable, SequenceTheorems, FiniteSetTheorems, WellFoundedInduction, TLAPS

(* Of natural numbers: a least one, a greatest one, and induction.         *)
LEMMA Least ==
  ASSUME NEW T, T \subseteq Nat, T # {}
  PROVE  \E n \in T : \A m \in T : n <= m
  <1>1. PICK x \in T : \A y \in T : ~ (<<y, x>> \in OpToRel(<, Nat))
    BY NatLessThanWellFounded, WFMin, Zenon
  <1>2. ASSUME NEW y \in T  PROVE x <= y
    <2>1. ~ (y < x)
      BY <1>1 DEF OpToRel
    <2> QED
      BY <2>1
  <1> QED
    BY <1>2

LEMMA Greatest ==
  ASSUME NEW N \in Nat, NEW S \in SUBSET (0 .. N), S # {}
  PROVE  \E n \in S : \A m \in S : m <= n
  <1> DEFINE T == {N - n : n \in S}
  <1>1. T \subseteq Nat /\ T # {}
    <2>1. \A n \in S : n \in 0 .. N /\ N - n \in Nat
      OBVIOUS
    <2> QED
      BY <2>1
  <1>2. PICK x \in T : \A y \in T : x <= y
    <2> HIDE DEF T
    <2> QED
      BY <1>1, Least
  <1>3. PICK n \in S : x = N - n
    BY <1>2
  <1>4. ASSUME NEW m \in S  PROVE m <= n
    <2>1. x <= N - m
      BY <1>2
    <2> QED
      BY <1>3, <2>1
  <1> QED
    BY <1>4

LEMMA Induction ==
  ASSUME NEW S, S \subseteq Nat, 0 \in S, \A n \in S : n + 1 \in S
  PROVE  S = Nat
  <1> SUFFICES ASSUME Nat \ S # {}  PROVE FALSE
    OBVIOUS
  <1>1. PICK n \in Nat \ S : \A m \in Nat \ S : n <= m
    BY Least
  <1>2. n # 0 /\ n - 1 \in Nat
    BY <1>1
  <1>3. (n - 1) + 1 \in S
    BY <1>1, <1>2
  <1> QED
    BY <1>1, <1>2, <1>3

(* The greatest number of a set, where it is known.                        *)
LEMMA MaxIs ==
  ASSUME NEW S, S \subseteq Nat, NEW m \in S, \A n \in S : n <= m
  PROVE  Max(S) = m
  <1>1. \A x \in S : (\A y \in S : x >= y) => x = m
    OBVIOUS
  <1>2. \A y \in S : m >= y
    OBVIOUS
  <1>3. Max(S) \in S /\ \A y \in S : Max(S) >= y
    BY <1>2 DEF Max
  <1> QED
    BY <1>1, <1>3

LEMMA MaxOf ==
  ASSUME NEW N \in Nat, NEW S \in SUBSET (0 .. N), S # {}
  PROVE  Max(S) \in S /\ \A n \in S : n <= Max(S)
  <1>1. PICK m \in S : \A n \in S : n <= m
    BY Greatest
  <1>2. Max(S) = m
    <2>1. S \subseteq Nat
      OBVIOUS
    <2> QED
      BY <1>1, <2>1, MaxIs
  <1> QED
    BY <1>1, <1>2

-----------------------------------------------------------------------------
(* The parser.  What it has made of the first n items is what Names,       *)
(* ValueOf and AttributeOf say of those items.                             *)

String(s) == s \in Seq({s[i] : i \in DOMAIN s}) /\ \A i \in DOMAIN s : s[i].key # None

StartsTo(s, n)      == {i \in 1 .. n : Starts(s, i)}
NamesTo(s, n)       == {s[i].key : i \in StartsTo(s, n)}
ValuesTo(s, k, n)   == {i \in 1 .. n : Starts(s, i) /\ s[i].key = k}
GivenTo(s, k, a, n) == {i \in 1 .. n : Gives(s, i, a) /\ Owner(s, i) = k}

AttributeTo(s, k, a, n) ==
  IF GivenTo(s, k, a, n) = {} THEN "" ELSE Given(s[Max(GivenTo(s, k, a, n))], a)
MorselTo(s, k, n) ==
  [value |-> s[Max(ValuesTo(s, k, n))].val,
   attrs |-> [a \in Reserved |-> AttributeTo(s, k, a, n)]]

Malformed(s, n) == \E i \in StartsTo(s, n) : s[i].key \in Illegal

ParsedTo(s, n) ==
  IF Malformed(s, n) THEN CookieError
  ELSE [morsels |-> [k \in NamesTo(s, n) |-> MorselTo(s, k, n)],
        latest |-> Owner(s, n), error |-> FALSE]

(* An item that begins no cookie leaves the owner as it is.                *)
LEMMA OwnerOf ==
  ASSUME NEW s, NEW n \in Nat
  PROVE  /\ StartsTo(s, n) = {} => Owner(s, n) = None
         /\ n = 0 => Owner(s, n) = None
         /\ n > 0 /\ Starts(s, n) => Owner(s, n) = s[n].key
         /\ n > 0 /\ ~Starts(s, n) => Owner(s, n) = Owner(s, n - 1)
         /\ StartsTo(s, n) # {} => Owner(s, n) \in NamesTo(s, n)
  <1>1. Owner(s, n) = IF StartsTo(s, n) = {} THEN None ELSE s[Max(StartsTo(s, n))].key
    BY DEF Owner, StartsTo
  <1>2. n = 0 => StartsTo(s, n) = {}
    BY DEF StartsTo
  <1>3. ASSUME n > 0, Starts(s, n)  PROVE Max(StartsTo(s, n)) = n /\ n \in StartsTo(s, n)
    <2>1. StartsTo(s, n) \subseteq Nat /\ n \in StartsTo(s, n) /\ \A i \in StartsTo(s, n) : i <= n
      BY <1>3 DEF StartsTo
    <2> QED
      BY <2>1, MaxIs
  <1>4. ASSUME n > 0, ~Starts(s, n)  PROVE Owner(s, n) = Owner(s, n - 1)
    <2>1. StartsTo(s, n) = StartsTo(s, n - 1)
      BY <1>4 DEF StartsTo
    <2>2. Owner(s, n - 1) = IF StartsTo(s, n - 1) = {} THEN None ELSE s[Max(StartsTo(s, n - 1))].key
      BY DEF Owner, StartsTo
    <2> QED
      BY <1>1, <2>1, <2>2
  <1>5. ASSUME StartsTo(s, n) # {}  PROVE Owner(s, n) \in NamesTo(s, n)
    <2>1. StartsTo(s, n) \in SUBSET (0 .. n)
      BY DEF StartsTo
    <2>2. Max(StartsTo(s, n)) \in StartsTo(s, n)
      BY <1>5, <2>1, MaxOf, Zenon
    <2> QED
      BY <1>1, <1>5, <2>2 DEF NamesTo
  <1> QED
    BY <1>1, <1>2, <1>3, <1>4, <1>5

LEMMA NamesGrow ==
  ASSUME NEW s, NEW n \in Nat \ {0}
  PROVE  /\ Starts(s, n) => NamesTo(s, n) = NamesTo(s, n - 1) \cup {s[n].key}
         /\ ~Starts(s, n) => NamesTo(s, n) = NamesTo(s, n - 1)
         /\ \A m \in 0 .. n : NamesTo(s, m) \subseteq NamesTo(s, n)
  BY DEF NamesTo, StartsTo

LEMMA OwnersNamed ==
  ASSUME NEW s, NEW n \in Nat, Owner(s, n) # None
  PROVE  Owner(s, n) \in NamesTo(s, n)
  BY OwnerOf

(* The last value of a name, and of an attribute of it.                    *)
LEMMA LastValue ==
  ASSUME NEW s, NEW n \in Nat \ {0}, NEW k
  PROVE  IF Starts(s, n) /\ s[n].key = k THEN Max(ValuesTo(s, k, n)) = n
         ELSE ValuesTo(s, k, n) = ValuesTo(s, k, n - 1)
  <1>1. CASE Starts(s, n) /\ s[n].key = k
    <2>1. ValuesTo(s, k, n) \subseteq Nat /\ n \in ValuesTo(s, k, n)
          /\ \A i \in ValuesTo(s, k, n) : i <= n
      BY <1>1 DEF ValuesTo
    <2> QED
      BY <1>1, <2>1, MaxIs
  <1>2. CASE ~ (Starts(s, n) /\ s[n].key = k)
    BY <1>2 DEF ValuesTo
  <1> QED
    BY <1>1, <1>2

LEMMA LastGiven ==
  ASSUME NEW s, NEW n \in Nat \ {0}, NEW k, NEW a
  PROVE  IF Gives(s, n, a) /\ Owner(s, n) = k
         THEN GivenTo(s, k, a, n) # {} /\ Max(GivenTo(s, k, a, n)) = n
         ELSE GivenTo(s, k, a, n) = GivenTo(s, k, a, n - 1)
  <1>1. CASE Gives(s, n, a) /\ Owner(s, n) = k
    <2>1. GivenTo(s, k, a, n) \subseteq Nat /\ n \in GivenTo(s, k, a, n)
          /\ \A i \in GivenTo(s, k, a, n) : i <= n
      BY <1>1 DEF GivenTo
    <2> QED
      BY <1>1, <2>1, MaxIs
  <1>2. CASE ~ (Gives(s, n, a) /\ Owner(s, n) = k)
    BY <1>2 DEF GivenTo
  <1> QED
    BY <1>1, <1>2

(* A name that has not begun has been given nothing.                       *)
LEMMA NothingGiven ==
  ASSUME NEW s, NEW n \in Nat, NEW k, k \notin NamesTo(s, n), k # None, NEW a
  PROVE  GivenTo(s, k, a, n) = {}
  <1> SUFFICES ASSUME NEW i \in 1 .. n, Owner(s, i) = k  PROVE FALSE
    BY DEF GivenTo
  <1>1. k \in NamesTo(s, i)
    BY OwnersNamed
  <1>2. NamesTo(s, i) \subseteq NamesTo(s, n)
    BY DEF NamesTo, StartsTo
  <1> QED
    BY <1>1, <1>2

(* What one more item changes.                                             *)
LEMMA ItemStarts ==
  ASSUME NEW s, String(s), NEW n \in DOMAIN s, n \in Nat \ {0}, Starts(s, n), ~Malformed(s, n)
  PROVE  ParsedTo(s, n) = Set(ParsedTo(s, n - 1), s[n].key, s[n].val)
  <1> DEFINE k == s[n].key
             old == ParsedTo(s, n - 1)
             m == IF k \in DOMAIN old.morsels THEN old.morsels[k] ELSE Morsel
  <1>1. ~Malformed(s, n - 1) /\ StartsTo(s, n - 1) \subseteq StartsTo(s, n)
    BY DEF Malformed, StartsTo
  <1>2. old = [morsels |-> [j \in NamesTo(s, n - 1) |-> MorselTo(s, j, n - 1)],
               latest |-> Owner(s, n - 1), error |-> FALSE]
    BY <1>1 DEF ParsedTo
  <1>3. NamesTo(s, n) = NamesTo(s, n - 1) \cup {k}
    BY NamesGrow
  <1>4. k # None
    BY DEF String
  <1>5. \A a : ~Gives(s, n, a) \/ a \notin Reserved
    BY DEF Gives, Starts
  <1>6. ASSUME NEW j \in NamesTo(s, n), j # k  PROVE MorselTo(s, j, n) = MorselTo(s, j, n - 1)
    <2>1. ValuesTo(s, j, n) = ValuesTo(s, j, n - 1)
      BY <1>6, LastValue
    <2>2. \A a \in Reserved : AttributeTo(s, j, a, n) = AttributeTo(s, j, a, n - 1)
      BY <1>5, LastGiven DEF AttributeTo
    <2> QED
      BY <2>1, <2>2 DEF MorselTo
  <1>7. MorselTo(s, k, n) = [m EXCEPT !.value = s[n].val]
    <2>1. Max(ValuesTo(s, k, n)) = n
      BY LastValue
    <2>2. \A a \in Reserved : AttributeTo(s, k, a, n) = AttributeTo(s, k, a, n - 1)
      BY <1>5, LastGiven DEF AttributeTo
    <2>3. m = [value |-> m.value, attrs |-> [a \in Reserved |-> AttributeTo(s, k, a, n)]]
      <3>1. CASE k \in NamesTo(s, n - 1)
        <4>1. m = MorselTo(s, k, n - 1)
          BY <1>2, <3>1
        <4> HIDE DEF m
        <4> QED
          BY <2>2, <4>1 DEF MorselTo
      <3>2. CASE k \notin NamesTo(s, n - 1)
        <4>1. m = Morsel
          BY <1>2, <3>2
        <4>2. \A a \in Reserved : AttributeTo(s, k, a, n - 1) = ""
          <5>1. \A a : GivenTo(s, k, a, n - 1) = {}
            <6>1. n - 1 \in Nat
              OBVIOUS
            <6> HIDE DEF k
            <6> QED
              BY <1>4, <3>2, <6>1, NothingGiven
          <5> QED
            BY <5>1 DEF AttributeTo
        <4> HIDE DEF m
        <4> QED
          BY <2>2, <4>1, <4>2 DEF Morsel
      <3> QED
        BY <3>1, <3>2
    <2> HIDE DEF m
    <2>4. [m EXCEPT !.value = s[n].val]
          = [value |-> s[n].val, attrs |-> [a \in Reserved |-> AttributeTo(s, k, a, n)]]
      BY <2>3
    <2> QED
      BY <2>1, <2>4 DEF MorselTo
  <1>8. Owner(s, n) = k
    BY OwnerOf
  <1>9. Set(old, k, s[n].val) =
          [morsels |-> [j \in NamesTo(s, n) |-> MorselTo(s, j, n)], latest |-> k, error |-> FALSE]
    <2>1. Set(old, k, s[n].val) =
            [old EXCEPT !.morsels = [j \in DOMAIN @ \cup {k} |->
                                       IF j = k THEN [m EXCEPT !.value = s[n].val] ELSE @[j]],
                        !.latest = k]
      BY DEF Set
    <2>2. [j \in DOMAIN old.morsels \cup {k} |->
             IF j = k THEN [m EXCEPT !.value = s[n].val] ELSE old.morsels[j]]
          = [j \in NamesTo(s, n) |-> MorselTo(s, j, n)]
      <3>1. DOMAIN old.morsels = NamesTo(s, n - 1)
            /\ \A j \in NamesTo(s, n - 1) : old.morsels[j] = MorselTo(s, j, n - 1)
        BY <1>2
      <3> HIDE DEF old, m, k
      <3> QED
        BY <1>3, <1>6, <1>7, <3>1
    <2>3. old.error = FALSE
      BY <1>2
    <2>4. old = [morsels |-> old.morsels, latest |-> old.latest, error |-> old.error]
      BY <1>2
    <2> HIDE DEF old, m, k
    <2> QED
      BY <2>1, <2>2, <2>3, <2>4
  <1> QED
    <2> HIDE DEF old, m, k
    <2>1. ParsedTo(s, n) = [morsels |-> [j \in NamesTo(s, n) |-> MorselTo(s, j, n)],
                            latest |-> Owner(s, n), error |-> FALSE]
      BY DEF ParsedTo
    <2> QED
      BY <1>8, <1>9, <2>1 DEF old, k

(* An item that gives no attribute and begins no cookie changes nothing.   *)
LEMMA ItemIgnored ==
  ASSUME NEW s, NEW n \in Nat \ {0}, ~Starts(s, n), \A a \in Reserved : ~Gives(s, n, a),
         ~Malformed(s, n)
  PROVE  ParsedTo(s, n) = ParsedTo(s, n - 1)
  <1>1. ~Malformed(s, n - 1)
    BY DEF Malformed, StartsTo
  <1>2. NamesTo(s, n) = NamesTo(s, n - 1) /\ Owner(s, n) = Owner(s, n - 1)
    BY NamesGrow, OwnerOf
  <1>3. ASSUME NEW k  PROVE MorselTo(s, k, n) = MorselTo(s, k, n - 1)
    <2>1. ValuesTo(s, k, n) = ValuesTo(s, k, n - 1)
      BY LastValue
    <2>2. \A a \in Reserved : AttributeTo(s, k, a, n) = AttributeTo(s, k, a, n - 1)
      BY LastGiven DEF AttributeTo
    <2> QED
      BY <2>1, <2>2 DEF MorselTo
  <1> QED
    BY <1>1, <1>2, <1>3 DEF ParsedTo

(* An item that gives one attribute sets it in the morsel of its owner.    *)
LEMMA ItemGives ==
  ASSUME NEW s, String(s), NEW n \in DOMAIN s, ~Starts(s, n),
         NEW a \in Reserved, Gives(s, n, a), \A b \in Reserved : Gives(s, n, b) => b = a,
         ~Malformed(s, n)
  PROVE  ParsedTo(s, n) = SetAttribute(ParsedTo(s, n - 1), a, Given(s[n], a))
  <1> DEFINE old == ParsedTo(s, n - 1)
             owner == Owner(s, n - 1)
  <1>0. n \in Nat \ {0} /\ 1 .. n \subseteq DOMAIN s
    BY LenProperties DEF String
  <1>1. ~Malformed(s, n - 1)
    BY <1>0 DEF Malformed, StartsTo
  <1>2. NamesTo(s, n) = NamesTo(s, n - 1) /\ Owner(s, n) = owner
    BY <1>0, NamesGrow, OwnerOf
  <1>3. old = [morsels |-> [j \in NamesTo(s, n) |-> MorselTo(s, j, n - 1)],
               latest |-> owner, error |-> FALSE]
    BY <1>1, <1>2 DEF ParsedTo
  <1>4. ParsedTo(s, n) = [morsels |-> [j \in NamesTo(s, n) |-> MorselTo(s, j, n)],
                          latest |-> owner, error |-> FALSE]
    BY <1>2 DEF ParsedTo
  <1>5. \A k : ValuesTo(s, k, n) = ValuesTo(s, k, n - 1)
    BY <1>0, LastValue
  <1>6. ASSUME NEW k, k # owner  PROVE MorselTo(s, k, n) = MorselTo(s, k, n - 1)
    <2>1. \A b \in Reserved : AttributeTo(s, k, b, n) = AttributeTo(s, k, b, n - 1)
      <3>1. ASSUME NEW b \in Reserved  PROVE GivenTo(s, k, b, n) = GivenTo(s, k, b, n - 1)
        BY <1>0, <1>2, <1>6, LastGiven
      <3> QED
        BY <3>1, Zenon DEF AttributeTo
    <2>2. [b \in Reserved |-> AttributeTo(s, k, b, n)]
            = [b \in Reserved |-> AttributeTo(s, k, b, n - 1)]
      BY <2>1
    <2> QED
      BY <1>5, <2>2, Zenon DEF MorselTo
  <1>7. MorselTo(s, owner, n) = [MorselTo(s, owner, n - 1) EXCEPT !.attrs[a] = Given(s[n], a)]
    <2> DEFINE m == MorselTo(s, owner, n - 1)
               x == s[Max(ValuesTo(s, owner, n - 1))].val
               f == [b \in Reserved |-> AttributeTo(s, owner, b, n - 1)]
               v == Given(s[n], a)
    <2>1. AttributeTo(s, owner, a, n) = v
      <3> HIDE DEF owner
      <3> QED
        BY <1>0, <1>2, LastGiven DEF AttributeTo
    <2>2. \A b \in Reserved \ {a} : AttributeTo(s, owner, b, n) = AttributeTo(s, owner, b, n - 1)
      BY <1>0, LastGiven DEF AttributeTo
    <2>3. [f EXCEPT ![a] = v] = [b \in Reserved |-> AttributeTo(s, owner, b, n)]
      <3> HIDE DEF owner, v
      <3> QED
        BY <2>1, <2>2
    <2>4. m = [value |-> x, attrs |-> f]
      BY DEF MorselTo
    <2>5. MorselTo(s, owner, n) = [value |-> x, attrs |-> [f EXCEPT ![a] = v]]
      <3>1. MorselTo(s, owner, n) =
              [value |-> s[Max(ValuesTo(s, owner, n))].val,
               attrs |-> [b \in Reserved |-> AttributeTo(s, owner, b, n)]]
        BY DEF MorselTo
      <3> HIDE DEF f, v, owner
      <3> QED
        BY <1>5, <2>3, <3>1
    <2> HIDE DEF x, f, v
    <2>6. [m EXCEPT !.attrs[a] = v] = [value |-> x, attrs |-> [f EXCEPT ![a] = v]]
      <3> HIDE DEF m
      <3>1. [m EXCEPT !.attrs[a] = v] = [m EXCEPT !.attrs = [m.attrs EXCEPT ![a] = v]]
        BY Zenon
      <3>2. [[value |-> x, attrs |-> f] EXCEPT !.attrs = [f EXCEPT ![a] = v]]
            = [value |-> x, attrs |-> [f EXCEPT ![a] = v]]
        OBVIOUS
      <3>3. m.attrs = f
        BY <2>4
      <3> QED
        BY <2>4, <3>1, <3>2, <3>3, Zenon
    <2> QED
      BY <2>5, <2>6, Zenon DEF v
  <1>8. CASE owner = None
    <2>1. \A k \in NamesTo(s, n) : k # owner
      <3>1. \A i \in StartsTo(s, n) : s[i].key # None
        BY <1>0 DEF String, StartsTo
      <3> QED
        BY <1>8, <3>1 DEF NamesTo
    <2>2. [j \in NamesTo(s, n) |-> MorselTo(s, j, n)] = [j \in NamesTo(s, n) |-> MorselTo(s, j, n - 1)]
      BY <1>6, <2>1
    <2>3. ParsedTo(s, n) = old
      <3> HIDE DEF old, owner
      <3> QED
        BY <1>3, <1>4, <2>2
    <2>4. SetAttribute(old, a, Given(s[n], a)) = old
      BY <1>3, <1>8 DEF SetAttribute
    <2> QED
      BY <2>3, <2>4
  <1>9. CASE owner # None
    <2>1. owner \in NamesTo(s, n)
      BY <1>0, <1>2, <1>9, OwnersNamed
    <2>2. SetAttribute(old, a, Given(s[n], a)) =
            [old EXCEPT !.morsels[owner].attrs[a] = Given(s[n], a)]
      BY <1>3, <1>9 DEF SetAttribute
    <2>3. [j \in NamesTo(s, n) |-> MorselTo(s, j, n)]
          = [[j \in NamesTo(s, n) |-> MorselTo(s, j, n - 1)] EXCEPT ![owner].attrs[a] = Given(s[n], a)]
      <3> HIDE DEF owner
      <3> QED
        BY <1>6, <1>7, <2>1
    <2> HIDE DEF old, owner
    <2>4. [old EXCEPT !.morsels[owner].attrs[a] = Given(s[n], a)]
          = [morsels |-> [old.morsels EXCEPT ![owner].attrs[a] = Given(s[n], a)],
             latest |-> owner, error |-> old.error]
      <3> DEFINE f == old.morsels
                 e == old.error
                 g == [old.morsels EXCEPT ![owner].attrs[a] = Given(s[n], a)]
      <3>1. old = [morsels |-> f, latest |-> owner, error |-> e]
        BY <1>3
      <3>2. [old EXCEPT !.morsels[owner].attrs[a] = Given(s[n], a)] = [old EXCEPT !.morsels = g]
        BY Zenon
      <3> HIDE DEF f, e, g
      <3>3. [[morsels |-> f, latest |-> owner, error |-> e] EXCEPT !.morsels = g]
            = [morsels |-> g, latest |-> owner, error |-> e]
        OBVIOUS
      <3> QED
        BY <3>1, <3>2, <3>3, Zenon DEF g, e
    <2>5. old.morsels = [j \in NamesTo(s, n) |-> MorselTo(s, j, n - 1)] /\ old.error = FALSE
      BY <1>3
    <2> QED
      BY <1>4, <2>2, <2>3, <2>4, <2>5 DEF old
  <1> QED
    BY <1>8, <1>9

LEMMA ItemParsed ==
  ASSUME NEW s, String(s), NEW n \in DOMAIN s
  PROVE  ParsedTo(s, n) = ParseItem(ParsedTo(s, n - 1), s[n])
  <1> DEFINE old == ParsedTo(s, n - 1)
             item == s[n]
  <1>1. n \in Nat \ {0} /\ 1 .. n \subseteq DOMAIN s
    BY LenProperties DEF String
  <1>2. /\ CookieError.error = TRUE
        /\ Malformed(s, n - 1) => old = CookieError
        /\ ~Malformed(s, n - 1) => old.error = FALSE
    BY DEF ParsedTo, CookieError, NoCookies
  <1>3. CASE Malformed(s, n - 1)
    <2>1. Malformed(s, n)
      BY <1>1, <1>3 DEF Malformed, StartsTo
    <2>2. ParsedTo(s, n) = CookieError /\ old = CookieError
      BY <1>3, <2>1 DEF ParsedTo
    <2> HIDE DEF old
    <2> QED
      BY <1>2, <2>2 DEF ParseItem, old
  <1>4. CASE ~Malformed(s, n - 1) /\ ~Starts(s, n)
    <2>1. ~Malformed(s, n)
      BY <1>1, <1>4 DEF Malformed, StartsTo
    <2>2. old.error = FALSE
      BY <1>2, <1>4
    <2>3. ASSUME NEW a \in Reserved, item.key = Dollar(a)
          PROVE  ParsedTo(s, n) = ParseItem(old, item)
      <3>1. \A b \in Reserved : Gives(s, n, b) <=> b = a
        BY <2>3, DollarAssumption DEF Gives
      <3>2. Given(item, a) = item.val
        BY <2>3, DollarAssumption DEF Given
      <3>3. ParsedTo(s, n) = SetAttribute(old, a, item.val)
        BY <1>4, <2>1, <3>1, <3>2, ItemGives
      <3>4. (CHOOSE b \in Reserved : item.key = Dollar(b)) = a
        BY <2>3, DollarAssumption
      <3>5. item.key \in {Dollar(b) : b \in Reserved}
        BY <2>3
      <3> HIDE DEF old, item
      <3>6. ParseItem(old, item) =
              SetAttribute(old, CHOOSE b \in Reserved : item.key = Dollar(b), item.val)
        BY <2>2, <3>5 DEF ParseItem
      <3> QED
        BY <3>3, <3>4, <3>6
    <2>4. ASSUME \A a \in Reserved : item.key # Dollar(a)
          PROVE  ParsedTo(s, n) = ParseItem(old, item)
      <3>1. item.key \notin {Dollar(a) : a \in Reserved}
        BY <2>4
      <3>2. CASE item.key \in Reserved /\ (item.val # None \/ item.key \in Flags)
        <4>1. \A b \in Reserved : Gives(s, n, b) <=> b = item.key
          BY <2>4, <3>2 DEF Gives
        <4>2. Given(item, item.key) = IF item.val = None THEN SetFlag ELSE _unquote(item.val)
          BY DEF Given
        <4>3. ParsedTo(s, n) = SetAttribute(old, item.key, Given(item, item.key))
          BY <1>4, <2>1, <3>2, <4>1, ItemGives
        <4> HIDE DEF old, item
        <4>4. ParseItem(old, item) =
                SetAttribute(old, item.key, IF item.val = None THEN SetFlag ELSE _unquote(item.val))
          BY <2>2, <3>1, <3>2 DEF ParseItem
        <4> QED
          BY <4>2, <4>3, <4>4
      <3>3. CASE ~ (item.key \in Reserved /\ (item.val # None \/ item.key \in Flags))
        <4>1. \A a \in Reserved : ~Gives(s, n, a)
          BY <2>4, <3>3 DEF Gives
        <4>2. ParsedTo(s, n) = old
          BY <1>1, <1>4, <2>1, <4>1, ItemIgnored
        <4>3. item.val = None
          BY <1>4, <2>4, <3>3 DEF Starts
        <4> HIDE DEF old, item
        <4> QED
          BY <2>2, <3>1, <3>3, <4>2, <4>3 DEF ParseItem
      <3> QED
        BY <3>2, <3>3
    <2> HIDE DEF old
    <2> QED
      BY <2>3, <2>4 DEF old
  <1>5. CASE ~Malformed(s, n - 1) /\ Starts(s, n)
    <2>1. /\ old.error = FALSE /\ item.val # None /\ item.key \notin Reserved
          /\ item.key \notin {Dollar(a) : a \in Reserved}
      BY <1>2, <1>5 DEF Starts
    <2>2. CASE item.key \in Illegal
      <3>1. Malformed(s, n)
        BY <1>1, <1>5, <2>2 DEF Malformed, StartsTo
      <3>2. ParsedTo(s, n) = CookieError
        BY <3>1 DEF ParsedTo
      <3> HIDE DEF old, item
      <3> QED
        BY <2>1, <2>2, <3>2 DEF ParseItem, old, item
    <2>3. CASE item.key \notin Illegal
      <3>1. ~Malformed(s, n)
        BY <1>1, <1>5, <2>3 DEF Malformed, StartsTo
      <3>2. ParsedTo(s, n) = Set(old, item.key, item.val)
        BY <1>1, <1>5, <3>1, ItemStarts
      <3> HIDE DEF old, item
      <3> QED
        BY <2>1, <2>3, <3>2 DEF ParseItem, old, item
    <2> QED
      BY <2>2, <2>3
  <1> QED
    BY <1>3, <1>4, <1>5

(* The parser goes through the string in this way.                         *)
LEMMA StringParsed ==
  ASSUME NEW s, String(s)
  PROVE  ParseString(s) = ParsedTo(s, Len(s))
  <1> DEFINE N == Len(s)
             Steps(f) == f = [n \in 0 .. N |-> IF n = 0 THEN NoCookies
                                               ELSE ParseItem(f[n - 1], s[n])]
             parsed == CHOOSE f : Steps(f)
             closed == [n \in 0 .. N |-> ParsedTo(s, n)]
  <1>1. N \in Nat /\ DOMAIN s = 1 .. N
    BY LenProperties DEF String
  <1>2. ParsedTo(s, 0) = NoCookies
    <2>1. StartsTo(s, 0) = {} /\ NamesTo(s, 0) = {} /\ ~Malformed(s, 0)
      BY DEF StartsTo, NamesTo, Malformed
    <2>2. Owner(s, 0) = None
      BY OwnerOf
    <2> QED
      BY <2>1, <2>2 DEF ParsedTo, NoCookies
  <1>3. Steps(closed)
    <2>1. \A n \in 1 .. N : ParsedTo(s, n) = ParseItem(ParsedTo(s, n - 1), s[n])
      BY <1>1, ItemParsed
    <2> HIDE DEF N
    <2> QED
      BY <1>1, <1>2, <2>1
  <1>4. Steps(parsed)
    <2> HIDE DEF closed, Steps
    <2> QED
      BY <1>3
  <1>5. \A n \in 0 .. N : parsed[n] = ParsedTo(s, n)
    <2> DEFINE S == {n \in Nat : n <= N => parsed[n] = ParsedTo(s, n)}
    <2> HIDE DEF N, parsed
    <2>1. 0 \in S
      BY <1>1, <1>2, <1>4
    <2>2. ASSUME NEW n \in S  PROVE n + 1 \in S
      <3> SUFFICES ASSUME n + 1 <= N  PROVE parsed[n + 1] = ParsedTo(s, n + 1)
        OBVIOUS
      <3>1. n + 1 \in DOMAIN s /\ n + 1 \in 0 .. N /\ (n + 1) - 1 = n /\ n <= N
        BY <1>1
      <3>2. parsed[n + 1] = ParseItem(parsed[n], s[n + 1])
        BY <1>4, <3>1
      <3>3. ParsedTo(s, n + 1) = ParseItem(ParsedTo(s, n), s[n + 1])
        BY <3>1, ItemParsed
      <3> QED
        BY <3>1, <3>2, <3>3
    <2> HIDE DEF S
    <2>3. S = Nat
      <3>1. S \subseteq Nat
        BY DEF S
      <3> QED
        BY <2>1, <2>2, <3>1, Induction
    <2> QED
      BY <1>1, <2>3 DEF S
  <1>6. ParseString(s) = parsed[N]
    BY DEF ParseString
  <1> QED
    BY <1>1, <1>5, <1>6

(* parse_cookies of a string of any length: each name once, with its last  *)
(* value, and with the last value given for each attribute between an item *)
(* of that name and the next cookie; nothing if a name is illegal.         *)
THEOREM RowsParsed ==
  ASSUME NEW s, String(s), NEW url
  PROVE  parse_cookies(s, url) = RowsOf(s, url)
  <1> DEFINE N == Len(s)
             cookie == ParseString(s)
  <1>1. N \in Nat /\ DOMAIN s = 1 .. N
    BY LenProperties DEF String
  <1>2. Names(s) = NamesTo(s, N)
    BY <1>1 DEF Names, NamesTo, StartsTo
  <1>3. \A k \in Names(s) : ValueOf(s, k) = MorselTo(s, k, N).value
    BY <1>1 DEF ValueOf, ValuesTo, MorselTo
  <1>4. \A k \in Names(s) : [a \in Reserved |-> AttributeOf(s, k, a)] = MorselTo(s, k, N).attrs
    BY <1>1 DEF AttributeOf, AttributeTo, GivenTo, MorselTo
  <1>5. cookie = ParsedTo(s, N)
    BY StringParsed
  <1>6. Malformed(s, N) <=> \E k \in Names(s) : k \in Illegal
    BY <1>2 DEF Malformed, NamesTo
  <1>7. CASE Malformed(s, N)
    <2>1. cookie.error
      BY <1>5, <1>7 DEF ParsedTo, CookieError, NoCookies
    <2> HIDE DEF cookie
    <2> QED
      BY <1>6, <1>7, <2>1 DEF parse_cookies, RowsOf, cookie
  <1>8. CASE ~Malformed(s, N)
    <2>1. ~cookie.error /\ DOMAIN cookie.morsels = Names(s)
          /\ \A k \in Names(s) : cookie.morsels[k] = MorselTo(s, k, N)
      BY <1>2, <1>5, <1>8 DEF ParsedTo
    <2> DEFINE Row(k, v, attrs) ==
                 [name |-> k, value |-> v,
                  attrs |-> IF url = None THEN None ELSE parse_cookie_attributes(attrs, url)]
    <2> HIDE DEF cookie, N
    <2>2. parse_cookies(s, url) =
            {Row(k, cookie.morsels[k].value, cookie.morsels[k].attrs) : k \in DOMAIN cookie.morsels}
      BY <2>1 DEF parse_cookies, cookie
    <2>3. RowsOf(s, url) =
            {Row(k, ValueOf(s, k), [a \in Reserved |-> AttributeOf(s, k, a)]) : k \in Names(s)}
      BY <1>6, <1>8 DEF RowsOf
    <2> HIDE DEF Row
    <2> DEFINE Parsed(k) == Row(k, cookie.morsels[k].value, cookie.morsels[k].attrs)
               Should(k) == Row(k, ValueOf(s, k), [a \in Reserved |-> AttributeOf(s, k, a)])
    <2>4. \A k \in Names(s) : Parsed(k) = Should(k)
      BY <1>3, <1>4, <2>1
    <2> HIDE DEF Parsed, Should
    <2>5. {Parsed(k) : k \in Names(s)} = {Should(k) : k \in Names(s)}
      BY <2>4
    <2> QED
      BY <2>1, <2>2, <2>3, <2>5 DEF Parsed, Should
  <1> QED
    BY <1>7, <1>8

(* The rows of a string are finitely many, and a sequence of them has each *)
(* of them once.                                                           *)
LEMMA RowsFinite ==
  ASSUME NEW s, String(s), NEW url
  PROVE  IsFiniteSet(RowsOf(s, url)) /\ Cardinality(RowsOf(s, url)) \in Nat
  <1> DEFINE Row(k) ==
               [name |-> k, value |-> ValueOf(s, k),
                attrs |-> IF url = None THEN None
                          ELSE parse_cookie_attributes([a \in Reserved |-> AttributeOf(s, k, a)], url)]
             starts == {i \in DOMAIN s : Starts(s, i)}
             Rows == {Row(k) : k \in Names(s)}
             f == [i \in starts |-> Row(s[i].key)]
  <1>1. RowsOf(s, url) = {} \/ RowsOf(s, url) = Rows
    BY DEF RowsOf
  <1>2. IsFiniteSet(starts)
    <2>1. Len(s) \in Nat /\ DOMAIN s = 1 .. Len(s)
      BY LenProperties DEF String
    <2>2. IsFiniteSet(DOMAIN s)
      BY <2>1, FS_Interval
    <2>3. starts \in SUBSET DOMAIN s
      OBVIOUS
    <2> HIDE DEF starts
    <2> QED
      BY <2>2, <2>3, FS_Subset
  <1>3. f \in Surjection(starts, Rows)
    <2>1. Names(s) = {s[i].key : i \in starts}
      BY DEF Names
    <2> HIDE DEF Row, starts
    <2> QED
      BY <2>1 DEF Surjection
  <1>4. IsFiniteSet(Rows)
    <2> HIDE DEF f, Rows, starts
    <2> QED
      BY <1>2, <1>3, FS_Surjection
  <1> HIDE DEF Rows
  <1> QED
    BY <1>1, <1>4, FS_EmptySet, FS_CardinalityType

LEMMA InSequence ==
  ASSUME NEW S, IsFiniteSet(S)
  PROVE  /\ SetToSeq(S) \in Seq(S) /\ Len(SetToSeq(S)) = Cardinality(S)
         /\ Cardinality(S) \in Nat
         /\ \A x \in S : \E i \in 1 .. Cardinality(S) : SetToSeq(S)[i] = x
  <1> DEFINE n == Cardinality(S)
             q == SetToSeq(S)
  <1>1. n \in Nat /\ \E f \in [1 .. n -> S] : IsInjective(f)
    BY FS_CardinalityType DEF ExistsBijection, Bijection, Injection
  <1>2. q \in [1 .. n -> S] /\ IsInjective(q)
    BY <1>1 DEF SetToSeq
  <1>3. q \in Injection(1 .. n, S)
    BY <1>2 DEF Injection
  <1>4. IsFiniteSet(1 .. n) /\ Cardinality(1 .. n) = n
    <2> HIDE DEF n
    <2> QED
      BY <1>1, FS_Interval
  <1>5. q \in Surjection(1 .. n, S)
    <2> HIDE DEF q
    <2> QED
      BY <1>3, <1>4, FS_Injection
  <1>6. q \in Seq(S) /\ Len(q) = n
    <2> HIDE DEF n, q
    <2> QED
      BY <1>1, <1>2
  <1> QED
    BY <1>1, <1>5, <1>6 DEF Surjection

-----------------------------------------------------------------------------
(* The rows of a header, string after string.                              *)

Header(h) == /\ h.strings \in Seq({h.strings[n] : n \in DOMAIN h.strings})
             /\ \A n \in DOMAIN h.strings : String(h.strings[n])

(* Steps from value to value have a function that takes them all.          *)
Takes(f, V, v, G, N) ==
  f \in [0 .. N -> V] /\ f[0] = v /\ \A n \in 1 .. N : f[n] = G[n][f[n - 1]]

LEMMA Recursion ==
  ASSUME NEW N \in Nat, NEW V, NEW v \in V, NEW G \in [1 .. N -> [V -> V]]
  PROVE  \E f : Takes(f, V, v, G, N)
  <1> DEFINE Goes(f, n) == f[0] = v /\ \A m \in 1 .. n : f[m] = G[m][f[m - 1]]
             S == {n \in Nat : n <= N => \E f \in [0 .. n -> V] : Goes(f, n)}
  <1>1. 0 \in S
    <2>1. [m \in 0 .. 0 |-> v] \in [0 .. 0 -> V] /\ Goes([m \in 0 .. 0 |-> v], 0)
      OBVIOUS
    <2> QED
      BY <2>1
  <1>2. ASSUME NEW n \in S  PROVE n + 1 \in S
    <2> SUFFICES ASSUME n + 1 <= N  PROVE \E f \in [0 .. n + 1 -> V] : Goes(f, n + 1)
      OBVIOUS
    <2>1. PICK f \in [0 .. n -> V] : Goes(f, n)
      OBVIOUS
    <2> DEFINE g == [m \in 0 .. n + 1 |-> IF m <= n THEN f[m] ELSE G[n + 1][f[n]]]
    <2>2. G[n + 1][f[n]] \in V
      OBVIOUS
    <2>3. g \in [0 .. n + 1 -> V]
      BY <2>2
    <2>4. Goes(g, n + 1)
      <3>1. g[0] = v
        BY <2>1
      <3>2. ASSUME NEW m \in 1 .. n + 1  PROVE g[m] = G[m][g[m - 1]]
        <4>1. g[m - 1] = f[m - 1]
          OBVIOUS
        <4>2. CASE m <= n
          BY <2>1, <4>1, <4>2
        <4>3. CASE m = n + 1
          BY <4>1, <4>3
        <4> QED
          BY <4>2, <4>3
      <3> HIDE DEF g
      <3> QED
        BY <3>1, <3>2
    <2> QED
      BY <2>3, <2>4
  <1> HIDE DEF S
  <1>3. S = Nat
    <2>1. S \subseteq Nat
      BY DEF S
    <2> QED
      BY <1>1, <1>2, <2>1, Induction
  <1> QED
    BY <1>3 DEF S, Takes

(* Sequences that are joined one after the other.                          *)
HasAll(whole, size, N, R, parts) ==
  /\ size \in Nat /\ whole \in Seq(R) /\ Len(whole) = size
  /\ \A m \in 1 .. N : \A j \in 1 .. Len(parts[m]) : \E i \in 1 .. size : whole[i] = parts[m][j]

LEMMA Joined ==
  ASSUME NEW N \in Nat, NEW R, NEW parts \in [1 .. N -> Seq(R)], NEW rows, NEW sum,
         rows[0] = <<>>, \A n \in 1 .. N : rows[n] = rows[n - 1] \o parts[n],
         sum[0] = 0, \A n \in 1 .. N : sum[n] = sum[n - 1] + Len(parts[n])
  PROVE  HasAll(rows[N], sum[N], N, R, parts)
  <1> DEFINE Right(n) == /\ sum[n] \in Nat /\ rows[n] \in Seq(R) /\ Len(rows[n]) = sum[n]
                         /\ \A m \in 1 .. n : \A j \in 1 .. Len(parts[m]) :
                              \E i \in 1 .. sum[n] : rows[n][i] = parts[m][j]
             S == {n \in Nat : n <= N => Right(n)}
  <1>1. Right(0)
    BY EmptySeq
  <1>2. ASSUME NEW n \in Nat, n + 1 <= N, Right(n)  PROVE Right(n + 1)
    <2> DEFINE new == parts[n + 1]
               k == Len(new)
    <2>1. n + 1 \in 1 .. N /\ (n + 1) - 1 = n
      BY <1>2
    <2>2. new \in Seq(R) /\ k \in Nat
      BY <2>1, LenProperties
    <2>3. rows[n + 1] = rows[n] \o new /\ sum[n + 1] = sum[n] + k
      BY <2>1
    <2>4. sum[n] \in Nat /\ rows[n] \in Seq(R) /\ Len(rows[n]) = sum[n]
      BY <1>2
    <2>5. \A m \in 1 .. n : \A j \in 1 .. Len(parts[m]) :
            \E i \in 1 .. sum[n] : rows[n][i] = parts[m][j]
      BY <1>2
    <2> DEFINE q == rows[n]
               l == sum[n]
    <2>6. /\ q \o new \in Seq(R) /\ Len(q \o new) = l + k
          /\ \A i \in 1 .. l + k : (q \o new)[i] = IF i <= l THEN q[i] ELSE new[i - l]
      <3>1. q \in Seq(R) /\ new \in Seq(R) /\ Len(q) = l
        BY <2>2, <2>4
      <3> HIDE DEF q, new, l
      <3>2. /\ q \o new \in Seq(R) /\ Len(q \o new) = Len(q) + Len(new)
            /\ \A i \in 1 .. Len(q) + Len(new) : (q \o new)[i] = IF i <= Len(q) THEN q[i] ELSE new[i - Len(q)]
        <4>1. q \o new \in Seq(R)
          BY <3>1, ConcatProperties
        <4>2. Len(q \o new) = Len(q) + Len(new)
          BY <3>1, ConcatProperties
        <4>3. ASSUME NEW i \in 1 .. Len(q) + Len(new)
              PROVE  (q \o new)[i] = IF i <= Len(q) THEN q[i] ELSE new[i - Len(q)]
          BY <3>1, ConcatProperties
        <4> QED
          BY <4>1, <4>2, <4>3
      <3> QED
        BY <3>1, <3>2
    <2> HIDE DEF new, k, Right
    <2>7. ASSUME NEW m \in 1 .. n + 1, NEW j \in 1 .. Len(parts[m])
          PROVE  \E i \in 1 .. sum[n + 1] : rows[n + 1][i] = parts[m][j]
      <3>1. CASE m <= n
        <4> HIDE DEF q, l
        <4>0. m \in 1 .. n
          BY <3>1
        <4>1. PICK i \in 1 .. sum[n] : rows[n][i] = parts[m][j]
          BY <2>5, <4>0, Zenon
        <4>2. i \in 1 .. sum[n] + k /\ i <= sum[n]
          <5>1. \A x, y \in Nat : \A z \in 1 .. x : z \in 1 .. x + y /\ z <= x
            OBVIOUS
          <5>2. sum[n] \in Nat /\ k \in Nat /\ i \in 1 .. sum[n]
            BY <2>2, <2>4, <4>1, Zenon
          <5> QED
            BY <5>1, <5>2, Zenon
        <4>3. rows[n + 1][i] = parts[m][j]
          BY <2>3, <2>6, <4>1, <4>2 DEF q, l
        <4> QED
          BY <2>3, <4>2, <4>3
      <3>2. CASE m = n + 1
        <4>1. j \in 1 .. k /\ parts[m] = new
          BY <3>2 DEF new, k
        <4>2. sum[n] + j \in 1 .. sum[n] + k /\ ~ (sum[n] + j <= sum[n]) /\ (sum[n] + j) - sum[n] = j
          <5>1. \A x, y \in Nat : \A z \in 1 .. y :
                  x + z \in 1 .. x + y /\ ~ (x + z <= x) /\ (x + z) - x = z
            OBVIOUS
          <5>2. sum[n] \in Nat /\ k \in Nat /\ j \in 1 .. k
            BY <2>2, <2>4, <4>1, Zenon
          <5> QED
            BY <5>1, <5>2
        <4>3. rows[n + 1][sum[n] + j] = parts[m][j]
          BY <2>3, <2>6, <4>1, <4>2
        <4> QED
          BY <2>3, <4>2, <4>3
      <3>3. \A x \in Nat : \A z \in 1 .. x + 1 : z <= x \/ z = x + 1
        OBVIOUS
      <3> QED
        BY <1>2, <3>1, <3>2, <3>3, Zenon
    <2>8. sum[n + 1] \in Nat /\ rows[n + 1] \in Seq(R) /\ Len(rows[n + 1]) = sum[n + 1]
      <3>1. sum[n] + k \in Nat
        BY <2>2, <2>4
      <3>2. q \o new \in Seq(R) /\ Len(q \o new) = l + k
        BY <2>6, Zenon
      <3> QED
        BY <2>3, <3>1, <3>2, Zenon DEF q, l
    <2> QED
      BY <2>7, <2>8 DEF Right
  <1>3. S = Nat
    <2> HIDE DEF Right
    <2>1. 0 \in S
      BY <1>1
    <2>2. \A n \in S : n + 1 \in S
      BY <1>2
    <2>3. S \subseteq Nat
      OBVIOUS
    <2> HIDE DEF S
    <2> QED
      BY <2>1, <2>2, <2>3, Induction
  <1>4. Right(N)
    <2> HIDE DEF Right
    <2> QED
      BY <1>3
  <1> QED
    BY <1>4 DEF HasAll

LEMMA HeaderParsed ==
  ASSUME NEW h, Header(h)
  PROVE  /\ Expected(h) \in Nat
         /\ HeaderRows(h) \in Seq(RowsOfHeader(h)) /\ Len(HeaderRows(h)) = Expected(h)
         /\ \A x \in RowsOfHeader(h) : \E i \in 1 .. Expected(h) : HeaderRows(h)[i] = x
  <1> DEFINE N == Len(h.strings)
             V == Seq(RowsOfHeader(h))
             Of(n) == RowsOf(h.strings[n], h.url)
             parts == [n \in 1 .. N |-> SetToSeq(Of(n))]
             RowsStep(f) == f = [n \in 0 .. N |->
                                   IF n = 0 THEN <<>>
                                   ELSE f[n - 1] \o SetToSeq(parse_cookies(h.strings[n], h.url))]
             SumStep(f) == f = [n \in 0 .. N |->
                                  IF n = 0 THEN 0 ELSE f[n - 1] + Cardinality(Of(n))]
             rows == CHOOSE f : RowsStep(f)
             sum == CHOOSE f : SumStep(f)
  <1>1. N \in Nat /\ DOMAIN h.strings = 1 .. N
    BY LenProperties DEF Header
  <1>2. ASSUME NEW n \in 1 .. N
        PROVE  /\ parse_cookies(h.strings[n], h.url) = Of(n)
               /\ SetToSeq(Of(n)) \in V /\ Len(SetToSeq(Of(n))) = Cardinality(Of(n))
               /\ Cardinality(Of(n)) \in Nat
               /\ \A x \in Of(n) : \E i \in 1 .. Cardinality(Of(n)) : SetToSeq(Of(n))[i] = x
    <2>1. String(h.strings[n])
      BY <1>1 DEF Header
    <2>2. IsFiniteSet(Of(n))
      BY <2>1, RowsFinite
    <2>3. Of(n) \subseteq RowsOfHeader(h)
      BY <1>1 DEF RowsOfHeader
    <2>4. parse_cookies(h.strings[n], h.url) = Of(n)
      BY <2>1, RowsParsed
    <2> HIDE DEF Of
    <2>5. SetToSeq(Of(n)) \in Seq(Of(n))
      BY <2>2, InSequence
    <2>6. SetToSeq(Of(n)) \in V
      BY <2>3, <2>5
    <2> QED
      BY <2>2, <2>4, <2>6, InSequence
  <1>3. \A q, r \in V : q \o r \in V
    BY ConcatProperties
  <1>4. <<>> \in V
    BY EmptySeq
  <1>5. parts \in [1 .. N -> V]
    BY <1>2
  <1> HIDE DEF N, V, Of
  <1>6. RowsStep(rows)
    <2> DEFINE G == [n \in 1 .. N |-> [q \in V |-> q \o parts[n]]]
    <2>1. G \in [1 .. N -> [V -> V]]
      BY <1>3, <1>5
    <2> HIDE DEF parts
    <2>2. \A n \in 1 .. N : \A q \in V : G[n][q] = q \o parts[n]
      OBVIOUS
    <2> HIDE DEF G
    <2>3. PICK f : f \in [0 .. N -> V] /\ f[0] = <<>> /\ \A n \in 1 .. N : f[n] = G[n][f[n - 1]]
      <3>1. \E f : Takes(f, V, <<>>, G, N)
        BY <1>1, <1>4, <2>1, Recursion
      <3> QED
        BY <3>1 DEF Takes
    <2>4. \A n \in 1 .. N : f[n] = f[n - 1] \o SetToSeq(parse_cookies(h.strings[n], h.url))
      <3> SUFFICES ASSUME NEW n \in 1 .. N
                   PROVE  f[n] = f[n - 1] \o SetToSeq(parse_cookies(h.strings[n], h.url))
        OBVIOUS
      <3>1. f[n - 1] \in V
        BY <1>1, <2>3
      <3>2. f[n] = f[n - 1] \o parts[n]
        BY <2>2, <2>3, <3>1
      <3>3. parts[n] = SetToSeq(parse_cookies(h.strings[n], h.url))
        BY <1>2 DEF parts
      <3> QED
        BY <3>2, <3>3
    <2>5. RowsStep(f)
      <3>1. \A n \in 0 .. N : n = 0 \/ n \in 1 .. N
        BY <1>1
      <3>2. f = [n \in 0 .. N |-> f[n]]
        BY <2>3
      <3> QED
        BY <2>3, <2>4, <3>1, <3>2
    <2> HIDE DEF RowsStep
    <2> QED
      BY <2>5
  <1>7. SumStep(sum)
    <2> DEFINE G == [n \in 1 .. N |-> [k \in Nat |-> k + Cardinality(Of(n))]]
    <2>1. G \in [1 .. N -> [Nat -> Nat]]
      BY <1>2
    <2>2. \A n \in 1 .. N : \A k \in Nat : G[n][k] = k + Cardinality(Of(n))
      OBVIOUS
    <2> HIDE DEF G
    <2>3. 0 \in Nat
      OBVIOUS
    <2>4. PICK f : f \in [0 .. N -> Nat] /\ f[0] = 0 /\ \A n \in 1 .. N : f[n] = G[n][f[n - 1]]
      <3>1. \E f : Takes(f, Nat, 0, G, N)
        BY <1>1, <2>1, <2>3, Recursion
      <3> QED
        BY <3>1 DEF Takes
    <2>5. \A n \in 1 .. N : f[n] = f[n - 1] + Cardinality(Of(n))
      <3> SUFFICES ASSUME NEW n \in 1 .. N  PROVE f[n] = f[n - 1] + Cardinality(Of(n))
        OBVIOUS
      <3>1. f[n - 1] \in Nat
        BY <1>1, <2>4
      <3> QED
        BY <2>2, <2>4, <3>1
    <2>6. SumStep(f)
      BY <1>1, <2>4, <2>5
    <2> HIDE DEF SumStep
    <2> QED
      BY <2>6
  <1> HIDE DEF rows, sum
  <1>8. rows[0] = <<>> /\ \A n \in 1 .. N : rows[n] = rows[n - 1] \o parts[n]
    <2>1. rows[0] = <<>>
      BY <1>1, <1>6
    <2>2. ASSUME NEW n \in 1 .. N  PROVE rows[n] = rows[n - 1] \o parts[n]
      <3>1. n \in 0 .. N /\ n # 0
        BY <1>1
      <3>2. rows[n] = rows[n - 1] \o SetToSeq(parse_cookies(h.strings[n], h.url))
        BY <1>6, <3>1
      <3> QED
        BY <1>2, <3>2
    <2> QED
      BY <2>1, <2>2
  <1>9. sum[0] = 0 /\ \A n \in 1 .. N : sum[n] = sum[n - 1] + Len(parts[n])
    BY <1>1, <1>2, <1>7
  <1>10. /\ sum[N] \in Nat /\ rows[N] \in V /\ Len(rows[N]) = sum[N]
         /\ \A m \in 1 .. N : \A j \in 1 .. Len(parts[m]) :
              \E i \in 1 .. sum[N] : rows[N][i] = parts[m][j]
    <2> DEFINE R == RowsOfHeader(h)
    <2>1. parts \in [1 .. N -> Seq(R)]
      BY <1>5 DEF V
    <2> HIDE DEF parts, R
    <2>2. HasAll(rows[N], sum[N], N, R, parts)
      BY <1>1, <1>8, <1>9, <2>1, Joined
    <2> QED
      BY <2>2 DEF HasAll, V, R
  <1>11. HeaderRows(h) = rows[N] /\ Expected(h) = sum[N]
    BY DEF HeaderRows, Expected, rows, sum, N, Of
  <1>12. ASSUME NEW x \in RowsOfHeader(h)  PROVE \E i \in 1 .. sum[N] : rows[N][i] = x
    <2>1. PICK m \in 1 .. N : x \in Of(m)
      BY <1>1 DEF RowsOfHeader, Of
    <2>2. PICK j \in 1 .. Len(parts[m]) : parts[m][j] = x
      BY <1>2, <2>1
    <2> QED
      BY <1>10, <2>1, <2>2
  <1> QED
    BY <1>10, <1>11, <1>12 DEF V

-----------------------------------------------------------------------------
(* The tables.  A header is in one of three places: it is still to be      *)
(* selected or selected and has no rows at all; or all its rows are in     *)
(* what is not committed; or all of them are in the table.                 *)

At(rows, id)     == {i \in DOMAIN rows : rows[i].header = id}
RowsAt(rows, id) == {rows[i].row : i \in At(rows, id)}
AllRows(rows, id, h) == Cardinality(At(rows, id)) = Expected(h) /\ RowsAt(rows, id) = RowsOfHeader(h)

Entry(db) ==
  [header : Nat,
   row : UNION {UNION {RowsOfHeader(db[t][id]) : id \in DOMAIN db[t]} : t \in Kinds}]

CookieTypeOK ==
  /\ headers \in Recorded
  /\ table \in [Kinds -> Seq(Entry(headers))] /\ uncommitted \in Seq(Entry(headers))
  /\ phase \in Kinds \cup {"off"}
  /\ phase = "off" => uncommitted = <<>>
  /\ phase # "off" => selected \subseteq DOMAIN headers[phase]

(* Of a table, of the rows that come to it, and of both.                   *)
AllOrNone(rows, db) == \A id \in DOMAIN db : At(rows, id) = {} \/ AllRows(rows, id, db[id])
NewOnes(rows, tab, sel, db) ==
  /\ AllOrNone(rows, db)
  /\ \A id \in DOMAIN db : At(rows, id) = {} \/ At(tab, id) = {}
  /\ \A id \in sel : At(tab, id) = {} /\ At(rows, id) = {}
SeenTo(rows, tab, sel, db) ==
  \A id \in DOMAIN db \ sel : Expected(db[id]) = 0 \/ At(tab, id) # {} \/ At(rows, id) # {}

CookieInv ==
  /\ \A t \in Kinds : AllOrNone(table[t], headers[t])
  /\ phase # "off" => /\ NewOnes(uncommitted, table[phase], selected, headers[phase])
                      /\ SeenTo(uncommitted, table[phase], selected, headers[phase])
  /\ phase = "response" => SeenTo(<<>>, table["request"], {}, headers["request"])
  /\ built => \A t \in Kinds : SeenTo(<<>>, table[t], {}, headers[t])

LEMMA WellFormed ==
  ASSUME CookieTypeOK, NEW t \in Kinds
  PROVE  /\ DOMAIN headers[t] \subseteq Nat
         /\ \A id \in DOMAIN headers[t] : Header(headers[t][id])
  <1>1. headers \in Recorded
    BY DEF CookieTypeOK
  <1> QED
    BY <1>1, CookieTableAssumption DEF Header, String

LEMMA NoRows ==
  ASSUME NEW id
  PROVE  At(<<>>, id) = {}
  BY DEF At

(* Rows that come to others and are of other headers.                      *)
LEMMA RowsCome ==
  ASSUME NEW S, NEW old \in Seq(S), NEW new \in Seq(S), NEW id
  PROVE  /\ old \o new \in Seq(S)
         /\ At(old \o new, id) = {} <=> At(old, id) = {} /\ At(new, id) = {}
         /\ At(new, id) = {} => /\ At(old \o new, id) = At(old, id)
                                /\ RowsAt(old \o new, id) = RowsAt(old, id)
         /\ At(old, id) = {} => /\ Cardinality(At(old \o new, id)) = Cardinality(At(new, id))
                                /\ RowsAt(old \o new, id) = RowsAt(new, id)
  <1> DEFINE all == old \o new
             m == Len(old)
             n == Len(new)
  <1>1. m \in Nat /\ DOMAIN old = 1 .. m /\ n \in Nat /\ DOMAIN new = 1 .. n
    BY LenProperties
  <1>2. all \in Seq(S) /\ Len(all) = m + n
    BY ConcatProperties
  <1>3. DOMAIN all = 1 .. m + n
    BY <1>2, LenProperties
  <1>4. /\ \A i \in 1 .. m : i \in 1 .. m + n /\ all[i] = old[i]
        /\ \A i \in 1 .. n : m + i \in 1 .. m + n /\ all[m + i] = new[i]
        /\ \A i \in 1 .. m + n : i \in 1 .. m \/ i - m \in 1 .. n
    <2>1. ASSUME NEW i \in 1 .. m + n  PROVE all[i] = IF i <= m THEN old[i] ELSE new[i - m]
      BY ConcatProperties
    <2> HIDE DEF all, m, n
    <2>2. ASSUME NEW i \in 1 .. m  PROVE i \in 1 .. m + n /\ all[i] = old[i]
      BY <1>1, <2>1
    <2>3. ASSUME NEW i \in 1 .. n  PROVE m + i \in 1 .. m + n /\ all[m + i] = new[i]
      <3>1. m + i \in 1 .. m + n /\ ~ (m + i <= m) /\ (m + i) - m = i
        BY <1>1
      <3> QED
        BY <2>1, <3>1
    <2>4. \A i \in 1 .. m + n : i \in 1 .. m \/ i - m \in 1 .. n
      BY <1>1
    <2> QED
      BY <2>2, <2>3, <2>4
  <1> HIDE DEF all, m, n
  <1>5. \A i \in 1 .. m + n : i \in 1 .. m \/ (i - m \in 1 .. n /\ i = m + (i - m))
    BY <1>1, <1>4
  <1>6. At(all, id) = At(old, id) \cup {m + i : i \in At(new, id)}
    <2>1. At(old, id) \subseteq At(all, id)
      BY <1>1, <1>3, <1>4 DEF At
    <2>2. \A i \in At(new, id) : m + i \in At(all, id)
      BY <1>1, <1>3, <1>4 DEF At
    <2>3. ASSUME NEW i \in At(all, id)
          PROVE  i \in At(old, id) \/ \E j \in At(new, id) : i = m + j
      <3>1. i \in 1 .. m + n /\ all[i].header = id
        BY <1>3 DEF At
      <3>2. CASE i \in 1 .. m
        BY <1>1, <1>4, <3>1, <3>2 DEF At
      <3>3. CASE i - m \in 1 .. n /\ i = m + (i - m)
        <4>1. new[i - m] = all[i]
          BY <1>4, <3>3
        <4>2. i - m \in At(new, id)
          BY <1>1, <3>1, <3>3, <4>1 DEF At
        <4> QED
          BY <3>3, <4>2
      <3> QED
        BY <1>5, <3>1, <3>2, <3>3
    <2> QED
      BY <2>1, <2>2, <2>3
  <1>7. RowsAt(all, id) = RowsAt(old, id) \cup RowsAt(new, id)
    <2>1. RowsAt(all, id) \subseteq RowsAt(old, id) \cup RowsAt(new, id)
      BY <1>1, <1>4, <1>6 DEF RowsAt, At
    <2>2. RowsAt(old, id) \subseteq RowsAt(all, id)
      BY <1>1, <1>4, <1>6 DEF RowsAt, At
    <2>3. ASSUME NEW i \in At(new, id)  PROVE new[i].row \in RowsAt(all, id)
      <3>1. m + i \in At(all, id)
        BY <1>6
      <3>2. all[m + i] = new[i]
        BY <1>1, <1>4 DEF At
      <3> QED
        BY <3>1, <3>2 DEF RowsAt
    <2>4. RowsAt(new, id) \subseteq RowsAt(all, id)
      BY <2>3 DEF RowsAt
    <2> QED
      BY <2>1, <2>2, <2>4
  <1>8. ASSUME At(old, id) = {}  PROVE Cardinality(At(all, id)) = Cardinality(At(new, id))
    <2> DEFINE f == [i \in At(new, id) |-> m + i]
    <2>1. At(new, id) \subseteq 1 .. n
      BY <1>1 DEF At
    <2>2. f \in Bijection(At(new, id), At(all, id))
      <3>1. f \in [At(new, id) -> At(all, id)]
        BY <1>6
      <3>2. \A i, j \in At(new, id) : f[i] = f[j] => i = j
        BY <1>1, <2>1
      <3>3. \A k \in At(all, id) : \E i \in At(new, id) : f[i] = k
        BY <1>6, <1>8
      <3> HIDE DEF f
      <3> QED
        BY <3>1, <3>2, <3>3 DEF Bijection, Injection, Surjection, IsInjective
    <2>3. IsFiniteSet(At(new, id))
      BY <1>1, <2>1, FS_Interval, FS_Subset
    <2> HIDE DEF f
    <2> QED
      BY <2>2, <2>3, FS_Bijection DEF ExistsBijection
  <1>9. RowsAt(old, id) = {} <=> At(old, id) = {}
    BY DEF RowsAt
  <1>10. RowsAt(new, id) = {} <=> At(new, id) = {}
    BY DEF RowsAt
  <1> QED
    BY <1>2, <1>6, <1>7, <1>8, <1>9, <1>10 DEF all

LEMMA HeaderInserted ==
  ASSUME CookieTypeOK, phase \in Kinds, NEW id \in DOMAIN headers[phase]
  PROVE  /\ Inserts(id) \in Seq(Entry(headers))
         /\ AllRows(Inserts(id), id, headers[phase][id])
         /\ Expected(headers[phase][id]) \in Nat
         /\ \A j : j # id => At(Inserts(id), j) = {}
  <1> DEFINE h == headers[phase][id]
             rows == HeaderRows(h)
             n == Expected(h)
             new == Inserts(id)
  <1>1. Header(h) /\ id \in Nat
    BY WellFormed
  <1>2. /\ n \in Nat /\ rows \in Seq(RowsOfHeader(h)) /\ Len(rows) = n
        /\ \A x \in RowsOfHeader(h) : \E i \in 1 .. n : rows[i] = x
    <2> HIDE DEF h
    <2> QED
      BY <1>1, HeaderParsed
  <1>3. DOMAIN rows = 1 .. n /\ \A i \in 1 .. n : rows[i] \in RowsOfHeader(h)
    <2> HIDE DEF h, rows, n
    <2> QED
      BY <1>2, LenProperties, ElementOfSeq
  <1>4. new = [i \in 1 .. n |-> [header |-> id, row |-> rows[i]]]
    <2>1. new = [i \in DOMAIN rows |-> [header |-> id, row |-> rows[i]]]
      BY DEF Inserts
    <2> HIDE DEF rows, n, new
    <2> QED
      BY <1>3, <2>1
  <1>5. new \in Seq(Entry(headers))
    <2>1. RowsOfHeader(h) \subseteq
            UNION {UNION {RowsOfHeader(headers[t][j]) : j \in DOMAIN headers[t]} : t \in Kinds}
      <3>1. RowsOfHeader(h) \in {RowsOfHeader(headers[phase][j]) : j \in DOMAIN headers[phase]}
        OBVIOUS
      <3> QED
        BY <3>1
    <2> HIDE DEF h, rows, n, new
    <2>2. \A i \in 1 .. n : [header |-> id, row |-> rows[i]] \in Entry(headers)
      BY <1>1, <1>3, <2>1 DEF Entry
    <2>3. new \in [1 .. n -> Entry(headers)]
      BY <1>4, <2>2
    <2> QED
      BY <1>2, <2>3
  <1> HIDE DEF h, rows, n, new
  <1>6. /\ DOMAIN new = 1 .. n
        /\ \A i \in 1 .. n : new[i].header = id /\ new[i].row = rows[i]
    BY <1>4
  <1>7. At(new, id) = 1 .. n /\ \A j : j # id => At(new, j) = {}
    BY <1>6 DEF At
  <1>8. Cardinality(At(new, id)) = n
    BY <1>2, <1>7, FS_Interval
  <1>9. RowsAt(new, id) = RowsOfHeader(h)
    BY <1>2, <1>3, <1>6, <1>7 DEF RowsAt
  <1> QED
    BY <1>2, <1>5, <1>7, <1>8, <1>9 DEF AllRows, h, n, new

(* A commit moves whole headers into the table.                            *)
LEMMA CommitKeeps ==
  ASSUME CookieTypeOK, phase \in Kinds, AllOrNone(table[phase], headers[phase]),
         NEW rows \in Seq(Entry(headers)), NEW sel,
         NewOnes(rows, table[phase], sel, headers[phase]),
         SeenTo(rows, table[phase], sel, headers[phase]),
         Commit(rows), headers' = headers
  PROVE  /\ table' \in [Kinds -> Seq(Entry(headers))] /\ uncommitted' = <<>>
         /\ \A t \in Kinds \ {phase} : table'[t] = table[t]
         /\ AllOrNone(table'[phase], headers[phase])
         /\ NewOnes(<<>>, table'[phase], sel, headers[phase])
         /\ SeenTo(<<>>, table'[phase], sel, headers[phase])
  <1> DEFINE S == Entry(headers)
             old == table[phase]
             all == old \o rows
             db == headers[phase]
  <1>1. table \in [Kinds -> Seq(S)] /\ old \in Seq(S)
    BY DEF CookieTypeOK
  <1>2. table' = [table EXCEPT ![phase] = all] /\ uncommitted' = <<>>
    BY DEF Commit
  <1> HIDE DEF S
  <1>3. ASSUME NEW id
        PROVE  /\ At(all, id) = {} <=> At(old, id) = {} /\ At(rows, id) = {}
               /\ At(rows, id) = {} => At(all, id) = At(old, id) /\ RowsAt(all, id) = RowsAt(old, id)
               /\ At(old, id) = {} => /\ Cardinality(At(all, id)) = Cardinality(At(rows, id))
                                      /\ RowsAt(all, id) = RowsAt(rows, id)
    <2>1. rows \in Seq(S)
      BY DEF S
    <2> HIDE DEF old
    <2> QED
      BY <1>1, <2>1, RowsCome
  <1>4. all \in Seq(S)
    BY <1>1, ConcatProperties DEF S
  <1>5. table' \in [Kinds -> Seq(S)] /\ table'[phase] = all
        /\ \A t \in Kinds \ {phase} : table'[t] = table[t]
    <2> HIDE DEF all
    <2> QED
      BY <1>1, <1>2, <1>4
  <1> HIDE DEF all, old, db
  <1>6. AllOrNone(all, db)
    <2> SUFFICES ASSUME NEW id \in DOMAIN db  PROVE At(all, id) = {} \/ AllRows(all, id, db[id])
      BY DEF AllOrNone
    <2>1. CASE At(rows, id) = {}
      <3>1. At(old, id) = {} \/ AllRows(old, id, db[id])
        BY DEF AllOrNone, old, db
      <3> QED
        BY <1>3, <2>1, <3>1 DEF AllRows
    <2>2. CASE At(rows, id) # {}
      <3>1. AllRows(rows, id, db[id]) /\ At(old, id) = {}
        BY <2>2 DEF NewOnes, AllOrNone, old, db
      <3> QED
        BY <1>3, <3>1 DEF AllRows
    <2> QED
      BY <2>1, <2>2
  <1>7. NewOnes(<<>>, all, sel, db)
    <2>1. \A id \in sel : At(all, id) = {}
      BY <1>3 DEF NewOnes, old
    <2> QED
      BY <2>1, NoRows DEF NewOnes, AllOrNone
  <1>8. SeenTo(<<>>, all, sel, db)
    BY <1>3 DEF SeenTo, old, db
  <1> QED
    BY <1>2, <1>5, <1>6, <1>7, <1>8 DEF db, S

(* A run begins with the headers that have no rows.                        *)
LEMMA BeginKeeps ==
  ASSUME NEW t \in Kinds
  PROVE  /\ NewOnes(<<>>, table[t], Selected(t), headers[t])
         /\ SeenTo(<<>>, table[t], Selected(t), headers[t])
         /\ Selected(t) \subseteq DOMAIN headers[t]
  <1>1. \A id \in DOMAIN headers[t] : id \in Selected(t) <=> At(table[t], id) = {}
    BY DEF Selected, At
  <1>2. Selected(t) \subseteq DOMAIN headers[t]
    BY DEF Selected
  <1> QED
    BY <1>1, <1>2, NoRows DEF NewOnes, AllOrNone, SeenTo

LEMMA BuildKeeps ==
  ASSUME CookieTypeOK, CookieInv, Build
  PROVE  CookieTypeOK' /\ CookieInv'
  <1>1. /\ phase = "off" /\ phase' = "request" /\ selected' = Selected("request")
        /\ UNCHANGED <<headers, table, uncommitted, built>>
    BY DEF Build, Begin
  <1>2. uncommitted = <<>> /\ "request" \in Kinds /\ "request" # "off" /\ "request" # "response"
    BY <1>1 DEF CookieTypeOK, Kinds
  <1>3. CookieTypeOK'
    BY <1>1, <1>2, BeginKeeps DEF CookieTypeOK
  <1>4. CookieInv'
    BY <1>1, <1>2, BeginKeeps DEF CookieInv
  <1> QED
    BY <1>3, <1>4

LEMMA ParseHeaderKeeps ==
  ASSUME CookieTypeOK, CookieInv, ParseHeader
  PROVE  CookieTypeOK' /\ CookieInv'
  <1> DEFINE id == FirstSelected
             new == Inserts(id)
             rows == uncommitted \o new
             sel == selected \ {id}
             db == headers[phase]
             tab == table[phase]
  <1>1. /\ phase # "off" /\ selected # {} /\ selected' = sel
        /\ Commit(rows) \/ (uncommitted' = rows /\ table' = table)
        /\ UNCHANGED <<headers, phase, built>>
    BY DEF ParseHeader
  <1>2. phase \in Kinds /\ selected \subseteq DOMAIN db /\ DOMAIN db \subseteq Nat
    BY <1>1, WellFormed DEF CookieTypeOK
  <1>3. id \in selected
    <2>1. \E i \in selected : \A j \in selected : i <= j
      BY <1>1, <1>2, Least
    <2> QED
      BY <2>1 DEF FirstSelected
  <1>4. /\ AllOrNone(tab, db) /\ NewOnes(uncommitted, tab, selected, db)
        /\ SeenTo(uncommitted, tab, selected, db)
    BY <1>1, <1>2 DEF CookieInv
  <1>5. /\ new \in Seq(Entry(headers)) /\ AllRows(new, id, db[id]) /\ Expected(db[id]) \in Nat
        /\ \A j : j # id => At(new, j) = {}
    <2> HIDE DEF id
    <2> QED
      BY <1>2, <1>3, HeaderInserted
  <1>6. uncommitted \in Seq(Entry(headers))
    BY DEF CookieTypeOK
  <1> HIDE DEF id, new, db, tab
  <1>7. ASSUME NEW j
        PROVE  /\ rows \in Seq(Entry(headers))
               /\ At(rows, j) = {} <=> At(uncommitted, j) = {} /\ At(new, j) = {}
               /\ At(new, j) = {} => /\ At(rows, j) = At(uncommitted, j)
                                     /\ RowsAt(rows, j) = RowsAt(uncommitted, j)
               /\ At(uncommitted, j) = {} => /\ Cardinality(At(rows, j)) = Cardinality(At(new, j))
                                             /\ RowsAt(rows, j) = RowsAt(new, j)
    BY <1>5, <1>6, RowsCome
  <1> HIDE DEF rows
  <1>8. At(uncommitted, id) = {} /\ At(tab, id) = {}
    BY <1>3, <1>4 DEF NewOnes
  <1>9. AllRows(rows, id, db[id])
    BY <1>5, <1>7, <1>8 DEF AllRows
  <1>10. NewOnes(rows, tab, sel, db)
    <2>1. ASSUME NEW j \in DOMAIN db
          PROVE  /\ At(rows, j) = {} \/ AllRows(rows, j, db[j])
                 /\ At(rows, j) = {} \/ At(tab, j) = {}
      <3>1. CASE j = id
        BY <1>8, <1>9, <3>1
      <3>2. CASE j # id
        <4>1. At(rows, j) = At(uncommitted, j) /\ RowsAt(rows, j) = RowsAt(uncommitted, j)
          BY <1>5, <1>7, <3>2
        <4> QED
          BY <1>4, <4>1 DEF NewOnes, AllOrNone, AllRows
      <3> QED
        BY <3>1, <3>2
    <2>2. ASSUME NEW j \in sel  PROVE At(tab, j) = {} /\ At(rows, j) = {}
      BY <1>4, <1>5, <1>7 DEF NewOnes
    <2> QED
      BY <2>1, <2>2 DEF NewOnes, AllOrNone
  <1>11. SeenTo(rows, tab, sel, db)
    <2> SUFFICES ASSUME NEW j \in DOMAIN db \ sel
                 PROVE  Expected(db[j]) = 0 \/ At(tab, j) # {} \/ At(rows, j) # {}
      BY DEF SeenTo
    <2>1. CASE j = id
      <3>1. At(rows, id) = {} => Expected(db[id]) = 0
        BY <1>9, FS_EmptySet DEF AllRows
      <3> QED
        BY <2>1, <3>1
    <2>2. CASE j # id
      BY <1>4, <1>7, <2>2 DEF SeenTo
    <2> QED
      BY <2>1, <2>2
  <1>12. rows \in Seq(Entry(headers))
    BY <1>7
  <1>13. sel \subseteq DOMAIN db
    BY <1>2 DEF db
  <1> HIDE DEF sel
  <1>14. CASE uncommitted' = rows /\ table' = table
    <2>1. CookieTypeOK'
      BY <1>1, <1>2, <1>12, <1>13, <1>14 DEF CookieTypeOK, db
    <2>2. CookieInv'
      BY <1>1, <1>10, <1>11, <1>14 DEF CookieInv, db, tab
    <2> QED
      BY <2>1, <2>2
  <1>15. CASE Commit(rows)
    <2>1. /\ table' \in [Kinds -> Seq(Entry(headers))] /\ uncommitted' = <<>>
          /\ \A t \in Kinds \ {phase} : table'[t] = table[t]
          /\ AllOrNone(table'[phase], db)
          /\ NewOnes(<<>>, table'[phase], sel, db)
          /\ SeenTo(<<>>, table'[phase], sel, db)
      BY <1>1, <1>2, <1>4, <1>10, <1>11, <1>12, <1>15, CommitKeeps DEF db, tab
    <2>2. CookieTypeOK'
      BY <1>1, <1>2, <1>13, <2>1, EmptySeq DEF CookieTypeOK, db
    <2>3. \A t \in Kinds : AllOrNone(table'[t], headers[t])
      BY <2>1 DEF CookieInv, db
    <2>4. ASSUME phase = "response"
          PROVE  SeenTo(<<>>, table'["request"], {}, headers["request"])
      <3>1. table'["request"] = table["request"]
        BY <2>1, <2>4 DEF Kinds
      <3> QED
        BY <2>4, <3>1 DEF CookieInv
    <2>5. ASSUME built, NEW t \in Kinds  PROVE SeenTo(<<>>, table'[t], {}, headers[t])
      <3>1. SeenTo(<<>>, table[t], {}, headers[t])
        BY <2>5 DEF CookieInv
      <3>2. CASE t # phase
        BY <2>1, <3>1, <3>2
      <3>3. CASE t = phase
        <4>1. \A j \in DOMAIN db : At(tab, j) # {} => At(table'[phase], j) # {}
          <5>1. table' = [table EXCEPT ![phase] = tab \o rows] /\ table \in [Kinds -> Seq(Entry(headers))]
            BY <1>15 DEF Commit, CookieTypeOK, tab
          <5>2. table'[phase] = tab \o rows /\ tab \in Seq(Entry(headers))
            BY <1>2, <5>1 DEF tab
          <5> QED
            BY <1>12, <5>2, RowsCome
        <4> QED
          BY <3>1, <3>3, <4>1, NoRows DEF SeenTo, db, tab
      <3> QED
        BY <3>2, <3>3
    <2>6. CookieInv'
      BY <1>1, <2>1, <2>3, <2>4, <2>5 DEF CookieInv, db
    <2> QED
      BY <2>2, <2>6
  <1> QED
    BY <1>1, <1>14, <1>15

(* The end of the requests, and of the responses: what is left is          *)
(* committed, and no header is selected any more.                          *)
LEMMA LastCommit ==
  ASSUME CookieTypeOK, CookieInv, phase \in Kinds, selected = {},
         Commit(uncommitted), headers' = headers
  PROVE  /\ table' \in [Kinds -> Seq(Entry(headers))] /\ uncommitted' = <<>>
         /\ \A t \in Kinds \ {phase} : table'[t] = table[t]
         /\ AllOrNone(table'[phase], headers[phase])
         /\ SeenTo(<<>>, table'[phase], {}, headers[phase])
  <1>1. /\ AllOrNone(table[phase], headers[phase])
        /\ NewOnes(uncommitted, table[phase], {}, headers[phase])
        /\ SeenTo(uncommitted, table[phase], {}, headers[phase])
    BY DEF CookieInv, Kinds
  <1>2. uncommitted \in Seq(Entry(headers))
    BY DEF CookieTypeOK
  <1> QED
    BY <1>1, <1>2, CommitKeeps

LEMMA FinishRequestsKeeps ==
  ASSUME CookieTypeOK, CookieInv, FinishRequests
  PROVE  CookieTypeOK' /\ CookieInv'
  <1>1. /\ phase = "request" /\ selected = {} /\ Commit(uncommitted)
        /\ phase' = "response" /\ selected' = Selected("response")
        /\ UNCHANGED <<headers, built>>
    BY DEF FinishRequests, Begin
  <1>2. "request" \in Kinds /\ "response" \in Kinds /\ Kinds \ {"request"} = {"response"}
    BY DEF Kinds
  <1>3. /\ table' \in [Kinds -> Seq(Entry(headers))] /\ uncommitted' = <<>>
        /\ table'["response"] = table["response"]
        /\ AllOrNone(table'["request"], headers["request"])
        /\ SeenTo(<<>>, table'["request"], {}, headers["request"])
    BY <1>1, <1>2, LastCommit
  <1>4. /\ NewOnes(<<>>, table["response"], Selected("response"), headers["response"])
        /\ SeenTo(<<>>, table["response"], Selected("response"), headers["response"])
        /\ Selected("response") \subseteq DOMAIN headers["response"]
    BY <1>2, BeginKeeps
  <1>5. CookieTypeOK'
    BY <1>1, <1>2, <1>3, <1>4, EmptySeq DEF CookieTypeOK
  <1>6. \A t \in Kinds : t = "request" \/ t = "response"
    BY DEF Kinds
  <1>7. CookieInv'
    <2>1. \A t \in Kinds : AllOrNone(table'[t], headers[t])
      BY <1>3, <1>6 DEF CookieInv
    <2>2. built => \A t \in Kinds : SeenTo(<<>>, table'[t], {}, headers[t])
      BY <1>3, <1>6 DEF CookieInv
    <2> QED
      BY <1>1, <1>3, <1>4, <2>1, <2>2 DEF CookieInv
  <1> QED
    BY <1>5, <1>7

LEMMA FinishResponsesKeeps ==
  ASSUME CookieTypeOK, CookieInv, FinishResponses
  PROVE  CookieTypeOK' /\ CookieInv'
  <1>1. /\ phase = "response" /\ selected = {} /\ Commit(uncommitted)
        /\ phase' = "off" /\ UNCHANGED headers
    BY DEF FinishResponses
  <1>2. /\ "request" \in Kinds /\ "response" \in Kinds /\ "off" \notin Kinds
        /\ Kinds \ {"response"} = {"request"}
    BY DEF Kinds
  <1>3. /\ table' \in [Kinds -> Seq(Entry(headers))] /\ uncommitted' = <<>>
        /\ table'["request"] = table["request"]
        /\ AllOrNone(table'["response"], headers["response"])
        /\ SeenTo(<<>>, table'["response"], {}, headers["response"])
    BY <1>1, <1>2, LastCommit
  <1>4. CookieTypeOK'
    BY <1>1, <1>2, <1>3, EmptySeq DEF CookieTypeOK
  <1>5. \A t \in Kinds : t = "request" \/ t = "response"
    BY DEF Kinds
  <1>6. /\ AllOrNone(table["request"], headers["request"])
        /\ SeenTo(<<>>, table["request"], {}, headers["request"])
    BY <1>1, <1>2 DEF CookieInv
  <1>7. \A t \in Kinds : AllOrNone(table'[t], headers[t]) /\ SeenTo(<<>>, table'[t], {}, headers[t])
    BY <1>3, <1>5, <1>6
  <1>8. CookieInv'
    BY <1>1, <1>7 DEF CookieInv
  <1> QED
    BY <1>4, <1>8

LEMMA RolledBackKeeps ==
  ASSUME CookieTypeOK, CookieInv, RolledBack
  PROVE  CookieTypeOK' /\ CookieInv'
  <1>1. /\ phase' = "off" /\ uncommitted' = <<>> /\ UNCHANGED <<headers, table, built>>
    BY DEF RolledBack
  <1>2. CookieTypeOK'
    BY <1>1, EmptySeq DEF CookieTypeOK, Kinds
  <1>3. CookieInv'
    BY <1>1 DEF CookieInv
  <1> QED
    BY <1>2, <1>3

LEMMA CookieTableKeeps ==
  ASSUME CookieTypeOK, CookieInv, CookieTableNext \/ UNCHANGED cookieTableVars
  PROVE  CookieTypeOK' /\ CookieInv'
  <1>1. CASE UNCHANGED cookieTableVars
    BY <1>1 DEF cookieTableVars, CookieTypeOK, CookieInv
  <1>2. CASE CookieTableNext
    BY <1>2, BuildKeeps, ParseHeaderKeeps, FinishRequestsKeeps, FinishResponsesKeeps, RolledBackKeeps
       DEF CookieTableNext, Interrupt, HeaderRaises
  <1> QED
    BY <1>1, <1>2

LEMMA CookieTableBegins ==
  ASSUME CookieTableInit
  PROVE  CookieTypeOK /\ CookieInv
  <1>1. /\ headers \in Recorded /\ table = [t \in Kinds |-> <<>>] /\ uncommitted = <<>>
        /\ phase = "off" /\ built = FALSE
    BY DEF CookieTableInit
  <1>2. CookieTypeOK
    BY <1>1, EmptySeq DEF CookieTypeOK
  <1>3. \A t \in Kinds : AllOrNone(table[t], headers[t])
    BY <1>1, NoRows DEF AllOrNone
  <1>4. CookieInv
    BY <1>1, <1>3 DEF CookieInv
  <1> QED
    BY <1>2, <1>4

LEMMA CookiesOnce ==
  ASSUME CookieInv
  PROVE  CookieRowsOnce
  <1> SUFFICES ASSUME NEW t \in Kinds, NEW id \in DOMAIN headers[t]
               PROVE  \/ RowsInTable(t, id) = {} /\ (built => Expected(headers[t][id]) = 0)
                      \/ /\ Cardinality(RowsInTable(t, id)) = Expected(headers[t][id])
                         /\ {table[t][i].row : i \in RowsInTable(t, id)} = RowsOfHeader(headers[t][id])
    BY DEF CookieRowsOnce
  <1>1. RowsInTable(t, id) = At(table[t], id)
    BY DEF RowsInTable, At
  <1>2. At(table[t], id) = {} \/ AllRows(table[t], id, headers[t][id])
    BY DEF CookieInv, AllOrNone
  <1>3. built => Expected(headers[t][id]) = 0 \/ At(table[t], id) # {}
    BY NoRows DEF CookieInv, SeenTo
  <1> QED
    BY <1>1, <1>2, <1>3 DEF AllRows, RowsAt
=============================================================================
