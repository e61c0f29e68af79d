---------------------------- MODULE SchemaProofs ----------------------------
(***************************************************************************)
(* Manifests and index documents, for every draft, every index and every   *)
(* text that an author mends a field with: the two readers agree, a report *)
(* is complete and raises no false alarm, and what package writes can be   *)
(* read.  The errors of a manifest are first given one line each           *)
(* (FieldError), then what a repair leaves of each field (MendedFields,    *)
(* KeptDependencies), then what of the errors is left.  At the end, what   *)
(* the writers of WireTexts produce, for every digest and every time.      *)
(***************************************************************************)
EXTENDS SchemaDocuments, WireTexts, IndexOpsProofs, SequenceTheorems, FiniteSetTheorems

-----------------------------------------------------------------------------
(* Field paths.                                                              *)

\* The sequence that has one more item.
LEMMA AppendIs ==
  ASSUME NEW S, NEW s \in Seq(S), NEW x \in S, NEW u \in Seq(S),
         Len(u) = Len(s) + 1, u[Len(s) + 1] = x, \A i \in 1 .. Len(s) : s[i] = u[i]
  PROVE  Append(s, x) = u
BY AppendProperties, SeqEqual

\* Paths written in parts.
LEMMA Appended ==
  /\ \A a, b : Append(<<a>>, b) = <<a, b>>
  /\ \A a, b, c : Append(<<a, b>>, c) = <<a, b, c>>
  /\ \A a, b, c, d : Append(<<a, b, c>>, d) = <<a, b, c, d>>
  /\ \A a, b, c, d, e : Append(<<a, b, c, d>>, e) = <<a, b, c, d, e>>
  /\ \A a, b, c, d, e, f : Append(<<a, b, c, d, e>>, f) = <<a, b, c, d, e, f>>
<1>1. ASSUME NEW a, NEW b
      PROVE  Append(<<a>>, b) = <<a, b>>
  <2> DEFINE S == {a, b}
             s == <<a>>
             u == <<a, b>>
  <2>1. a \in S /\ b \in S
    OBVIOUS
  <2> HIDE DEF S
  <2>2. s \in Seq(S) /\ u \in Seq(S)
    BY <2>1
  <2>3. /\ Len(u) = Len(s) + 1 /\ u[Len(s) + 1] = b
        /\ \A i \in 1 .. Len(s) : s[i] = u[i]
    OBVIOUS
  <2> HIDE DEF s, u
  <2>4. Append(s, b) = u
    BY <2>1, <2>2, <2>3, AppendIs
  <2> QED BY <2>4 DEF s, u
<1>2. ASSUME NEW a, NEW b, NEW c
      PROVE  Append(<<a, b>>, c) = <<a, b, c>>
  <2> DEFINE S == {a, b, c}
             s == <<a, b>>
             u == <<a, b, c>>
  <2>1. a \in S /\ b \in S /\ c \in S
    OBVIOUS
  <2> HIDE DEF S
  <2>2. s \in Seq(S) /\ u \in Seq(S)
    BY <2>1
  <2>3. /\ Len(u) = Len(s) + 1 /\ u[Len(s) + 1] = c
        /\ \A i \in 1 .. Len(s) : s[i] = u[i]
    OBVIOUS
  <2> HIDE DEF s, u
  <2>4. Append(s, c) = u
    BY <2>1, <2>2, <2>3, AppendIs
  <2> QED BY <2>4 DEF s, u
<1>3. ASSUME NEW a, NEW b, NEW c, NEW d
      PROVE  Append(<<a, b, c>>, d) = <<a, b, c, d>>
  <2> DEFINE S == {a, b, c, d}
             s == <<a, b, c>>
             u == <<a, b, c, d>>
  <2>1. a \in S /\ b \in S /\ c \in S /\ d \in S
    OBVIOUS
  <2> HIDE DEF S
  <2>2. s \in Seq(S) /\ u \in Seq(S)
    BY <2>1
  <2>3. /\ Len(u) = Len(s) + 1 /\ u[Len(s) + 1] = d
        /\ \A i \in 1 .. Len(s) : s[i] = u[i]
    OBVIOUS
  <2> HIDE DEF s, u
  <2>4. Append(s, d) = u
    BY <2>1, <2>2, <2>3, AppendIs
  <2> QED BY <2>4 DEF s, u
<1>4. ASSUME NEW a, NEW b, NEW c, NEW d, NEW e
      PROVE  Append(<<a, b, c, d>>, e) = <<a, b, c, d, e>>
  <2> DEFINE S == {a, b, c, d, e}
             s == <<a, b, c, d>>
             u == <<a, b, c, d, e>>
  <2>1. a \in S /\ b \in S /\ c \in S /\ d \in S /\ e \in S
    OBVIOUS
  <2> HIDE DEF S
  <2>2. s \in Seq(S) /\ u \in Seq(S)
    BY <2>1
  <2>3. /\ Len(u) = Len(s) + 1 /\ u[Len(s) + 1] = e
        /\ \A i \in 1 .. Len(s) : s[i] = u[i]
    OBVIOUS
  <2> HIDE DEF s, u
  <2>4. Append(s, e) = u
    BY <2>1, <2>2, <2>3, AppendIs
  <2> QED BY <2>4 DEF s, u
<1>5. ASSUME NEW a, NEW b, NEW c, NEW d, NEW e, NEW f
      PROVE  Append(<<a, b, c, d, e>>, f) = <<a, b, c, d, e, f>>
  <2> DEFINE S == {a, b, c, d, e, f}
             s == <<a, b, c, d, e>>
             u == <<a, b, c, d, e, f>>
  <2>1. a \in S /\ b \in S /\ c \in S /\ d \in S /\ e \in S /\ f \in S
    OBVIOUS
  <2> HIDE DEF S
  <2>2. s \in Seq(S) /\ u \in Seq(S)
    BY <2>1
  <2>3. /\ Len(u) = Len(s) + 1 /\ u[Len(s) + 1] = f
        /\ \A i \in 1 .. Len(s) : s[i] = u[i]
    OBVIOUS
  <2> HIDE DEF s, u
  <2>4. Append(s, f) = u
    BY <2>1, <2>2, <2>3, AppendIs
  <2> QED BY <2>4 DEF s, u
<1> QED BY <1>1, <1>2, <1>3, <1>4, <1>5

\* A concatenation, item by item.
LEMMA Concatenated ==
  ASSUME NEW S, NEW s \in Seq(S)
  PROVE  /\ \A a \in S : s \o <<a>> = Append(s, a)
         /\ \A a, b \in S : s \o <<a, b>> = Append(Append(s, a), b)
         /\ \A a, b, c \in S : s \o <<a, b, c>> = Append(Append(Append(s, a), b), c)
         /\ \A a, b, c, d \in S :
              s \o <<a, b, c, d>> = Append(Append(Append(Append(s, a), b), c), d)
<1>1. \A a \in S : s \o <<a>> = Append(s, a)
  BY AppendIsConcat
<1>2. ASSUME NEW a \in S, NEW b \in S
      PROVE  s \o <<a, b>> = Append(Append(s, a), b)
  <2>1. <<a>> \in Seq(S) /\ <<b>> \in Seq(S)
    OBVIOUS
  <2>2. <<a, b>> = <<a>> \o <<b>>
    BY <2>1, AppendIsConcat, Appended
  <2>3. s \o (<<a>> \o <<b>>) = (s \o <<a>>) \o <<b>>
    BY <2>1, ConcatAssociative
  <2> QED BY <2>1, <2>2, <2>3, <1>1, AppendIsConcat
<1>3. ASSUME NEW a \in S, NEW b \in S, NEW c \in S
      PROVE  s \o <<a, b, c>> = Append(Append(Append(s, a), b), c)
  <2>1. <<a, b>> \in Seq(S) /\ <<c>> \in Seq(S) /\ <<a, b, c>> = <<a, b>> \o <<c>>
    BY AppendIsConcat, Appended
  <2>2. s \o (<<a, b>> \o <<c>>) = (s \o <<a, b>>) \o <<c>>
    BY <2>1, ConcatAssociative
  <2> QED BY <2>1, <2>2, <1>2, AppendIsConcat
<1>4. ASSUME NEW a \in S, NEW b \in S, NEW c \in S, NEW d \in S
      PROVE  s \o <<a, b, c, d>> = Append(Append(Append(Append(s, a), b), c), d)
  <2>1. /\ <<a, b, c>> \in Seq(S) /\ <<d>> \in Seq(S)
        /\ <<a, b, c, d>> = <<a, b, c>> \o <<d>>
    BY AppendIsConcat, Appended
  <2>2. s \o (<<a, b, c>> \o <<d>>) = (s \o <<a, b, c>>) \o <<d>>
    BY <2>1, ConcatAssociative
  <2> QED BY <2>1, <2>2, <1>3, AppendIsConcat
<1> QED BY <1>1, <1>2, <1>3, <1>4

\* The concatenations at hand.
LEMMA Joined ==
  /\ \A a, b : <<a>> \o <<b>> = <<a, b>>
  /\ \A a, b, c : <<a>> \o <<b, c>> = <<a, b, c>>
  /\ \A a, b, c : <<a, b>> \o <<c>> = <<a, b, c>>
  /\ \A a, b, c, d : <<a, b>> \o <<c, d>> = <<a, b, c, d>>
  /\ \A a, b, c, d, e : <<a, b>> \o <<c, d, e>> = <<a, b, c, d, e>>
  /\ \A a, b, c, d, e, f : <<a, b>> \o <<c, d, e, f>> = <<a, b, c, d, e, f>>
  /\ \A a, b, c, d : <<a, b, c>> \o <<d>> = <<a, b, c, d>>
  /\ \A a, b, c, d, e : <<a, b, c>> \o <<d, e>> = <<a, b, c, d, e>>
<1>1. ASSUME NEW a, NEW b
      PROVE  <<a>> \o <<b>> = <<a, b>>
  <2> DEFINE S == {a, b}
  <2>1. a \in S /\ b \in S
    OBVIOUS
  <2> HIDE DEF S
  <2>2. <<a>> \in Seq(S)
    BY <2>1
  <2>3. <<a>> \o <<b>> = Append(<<a>>, b)
    BY <2>1, <2>2, Concatenated
  <2>4. Append(<<a>>, b) = <<a, b>>
    BY Appended
  <2> QED BY <2>3, <2>4
<1>2. ASSUME NEW a, NEW b, NEW c
      PROVE  <<a>> \o <<b, c>> = <<a, b, c>>
  <2> DEFINE S == {a, b, c}
  <2>1. a \in S /\ b \in S /\ c \in S
    OBVIOUS
  <2> HIDE DEF S
  <2>2. <<a>> \in Seq(S)
    BY <2>1
  <2>3. <<a>> \o <<b, c>> = Append(Append(<<a>>, b), c)
    BY <2>1, <2>2, Concatenated
  <2>4. Append(<<a>>, b) = <<a, b>> /\ Append(<<a, b>>, c) = <<a, b, c>>
    BY Appended
  <2> QED BY <2>3, <2>4
<1>3. ASSUME NEW a, NEW b, NEW c
      PROVE  <<a, b>> \o <<c>> = <<a, b, c>>
  <2> DEFINE S == {a, b, c}
  <2>1. a \in S /\ b \in S /\ c \in S
    OBVIOUS
  <2> HIDE DEF S
  <2>2. <<a, b>> \in Seq(S)
    BY <2>1
  <2>3. <<a, b>> \o <<c>> = Append(<<a, b>>, c)
    BY <2>1, <2>2, Concatenated
  <2>4. Append(<<a, b>>, c) = <<a, b, c>>
    BY Appended
  <2> QED BY <2>3, <2>4
<1>4. ASSUME NEW a, NEW b, NEW c, NEW d
      PROVE  <<a, b>> \o <<c, d>> = <<a, b, c, d>>
  <2> DEFINE S == {a, b, c, d}
  <2>1. a \in S /\ b \in S /\ c \in S /\ d \in S
    OBVIOUS
  <2> HIDE DEF S
  <2>2. <<a, b>> \in Seq(S)
    BY <2>1
  <2>3. <<a, b>> \o <<c, d>> = Append(Append(<<a, b>>, c), d)
    BY <2>1, <2>2, Concatenated
  <2>4. Append(<<a, b>>, c) = <<a, b, c>> /\ Append(<<a, b, c>>, d) = <<a, b, c, d>>
    BY Appended
  <2> QED BY <2>3, <2>4
<1>5. ASSUME NEW a, NEW b, NEW c, NEW d, NEW e
      PROVE  <<a, b>> \o <<c, d, e>> = <<a, b, c, d, e>>
  <2> DEFINE S == {a, b, c, d, e}
  <2>1. a \in S /\ b \in S /\ c \in S /\ d \in S /\ e \in S
    OBVIOUS
  <2> HIDE DEF S
  <2>2. <<a, b>> \in Seq(S)
    BY <2>1
  <2>3. <<a, b>> \o <<c, d, e>> = Append(Append(Append(<<a, b>>, c), d), e)
    BY <2>1, <2>2, Concatenated
  <2>4. Append(<<a, b>>, c) = <<a, b, c>> /\ Append(<<a, b, c>>, d) = <<a, b, c, d>> /\ Append(<<a, b, c, d>>, e) = <<a, b, c, d, e>>
    BY Appended
  <2> QED BY <2>3, <2>4
<1>6. ASSUME NEW a, NEW b, NEW c, NEW d, NEW e, NEW f
      PROVE  <<a, b>> \o <<c, d, e, f>> = <<a, b, c, d, e, f>>
  <2> DEFINE S == {a, b, c, d, e, f}
  <2>1. a \in S /\ b \in S /\ c \in S /\ d \in S /\ e \in S /\ f \in S
    OBVIOUS
  <2> HIDE DEF S
  <2>2. <<a, b>> \in Seq(S)
    BY <2>1
  <2>3. <<a, b>> \o <<c, d, e, f>> = Append(Append(Append(Append(<<a, b>>, c), d), e), f)
    BY <2>1, <2>2, Concatenated
  <2>4. Append(<<a, b>>, c) = <<a, b, c>> /\ Append(<<a, b, c>>, d) = <<a, b, c, d>> /\ Append(<<a, b, c, d>>, e) = <<a, b, c, d, e>> /\ Append(<<a, b, c, d, e>>, f) = <<a, b, c, d, e, f>>
    BY Appended
  <2> QED BY <2>3, <2>4
<1>7. ASSUME NEW a, NEW b, NEW c, NEW d
      PROVE  <<a, b, c>> \o <<d>> = <<a, b, c, d>>
  <2> DEFINE S == {a, b, c, d}
  <2>1. a \in S /\ b \in S /\ c \in S /\ d \in S
    OBVIOUS
  <2> HIDE DEF S
  <2>2. <<a, b, c>> \in Seq(S)
    BY <2>1
  <2>3. <<a, b, c>> \o <<d>> = Append(<<a, b, c>>, d)
    BY <2>1, <2>2, Concatenated
  <2>4. Append(<<a, b, c>>, d) = <<a, b, c, d>>
    BY Appended
  <2> QED BY <2>3, <2>4
<1>8. ASSUME NEW a, NEW b, NEW c, NEW d, NEW e
      PROVE  <<a, b, c>> \o <<d, e>> = <<a, b, c, d, e>>
  <2> DEFINE S == {a, b, c, d, e}
  <2>1. a \in S /\ b \in S /\ c \in S /\ d \in S /\ e \in S
    OBVIOUS
  <2> HIDE DEF S
  <2>2. <<a, b, c>> \in Seq(S)
    BY <2>1
  <2>3. <<a, b, c>> \o <<d, e>> = Append(Append(<<a, b, c>>, d), e)
    BY <2>1, <2>2, Concatenated
  <2>4. Append(<<a, b, c>>, d) = <<a, b, c, d>> /\ Append(<<a, b, c, d>>, e) = <<a, b, c, d, e>>
    BY Appended
  <2> QED BY <2>3, <2>4
<1> QED BY <1>1, <1>2, <1>3, <1>4, <1>5, <1>6, <1>7, <1>8

Moved(q) == IF q[1] = "plugin" THEN Tail(q) ELSE q

Entry == <<"plugins", 1>>

\* Where a field of the manifest has its path in an entry.
LEMMA MovedPaths ==
  ASSUME NEW f, NEW i
  PROVE  /\ Entry \o Moved(<<"plugin">> \o <<f>>) = Entry \o <<f>>
         /\ Entry \o Moved(Append(<<"plugin">>, f)) = Append(Entry, f)
         /\ Entry \o Moved(Append(<<"plugin">> \o <<f>>, i)) = Append(Entry \o <<f>>, i)
         /\ Entry \o Moved(<<"dependencies">> \o <<f>>) = (Entry \o <<"dependencies">>) \o <<f>>
         /\ Entry \o Moved(Append(<<"dependencies">> \o <<f>>, i))
              = Append((Entry \o <<"dependencies">>) \o <<f>>, i)
         /\ Entry \o Moved(<<"dependencies">> \o <<"plugins", i>>)
              = (Entry \o <<"dependencies">>) \o <<"plugins", i>>
         /\ Entry \o Moved(Append(<<"dependencies">> \o <<"plugins", i>>, f))
              = Append((Entry \o <<"dependencies">>) \o <<"plugins", i>>, f)
<1>1. /\ Moved(<<"plugin", f>>) = <<f>> /\ Moved(<<"plugin", f, i>>) = <<f, i>>
      /\ Moved(<<"dependencies", f>>) = <<"dependencies", f>>
      /\ Moved(<<"dependencies", f, i>>) = <<"dependencies", f, i>>
      /\ Moved(<<"dependencies", "plugins", i>>) = <<"dependencies", "plugins", i>>
      /\ Moved(<<"dependencies", "plugins", i, f>>) = <<"dependencies", "plugins", i, f>>
  BY DEF Moved
<1>2. /\ <<"plugin">> \o <<f>> = <<"plugin", f>>
      /\ Append(<<"plugin">>, f) = <<"plugin", f>>
      /\ Append(<<"plugin", f>>, i) = <<"plugin", f, i>>
      /\ <<"dependencies">> \o <<f>> = <<"dependencies", f>>
      /\ Append(<<"dependencies", f>>, i) = <<"dependencies", f, i>>
      /\ <<"dependencies">> \o <<"plugins", i>> = <<"dependencies", "plugins", i>>
      /\ Append(<<"dependencies", "plugins", i>>, f) = <<"dependencies", "plugins", i, f>>
  BY Joined, Appended
<1>3. /\ Entry \o <<f>> = <<"plugins", 1, f>>
      /\ Append(Entry, f) = <<"plugins", 1, f>>
      /\ Entry \o <<f, i>> = <<"plugins", 1, f, i>>
      /\ Append(<<"plugins", 1, f>>, i) = <<"plugins", 1, f, i>>
  BY Joined, Appended DEF Entry
<1>4. /\ Entry \o <<"dependencies">> = <<"plugins", 1, "dependencies">>
      /\ <<"plugins", 1, "dependencies">> \o <<f>> = <<"plugins", 1, "dependencies", f>>
      /\ Entry \o <<"dependencies", f>> = <<"plugins", 1, "dependencies", f>>
      /\ Entry \o <<"dependencies", f, i>> = <<"plugins", 1, "dependencies", f, i>>
      /\ Append(<<"plugins", 1, "dependencies", f>>, i) = <<"plugins", 1, "dependencies", f, i>>
  BY Joined, Appended DEF Entry
<1>5. /\ <<"plugins", 1, "dependencies">> \o <<"plugins", i>>
           = <<"plugins", 1, "dependencies", "plugins", i>>
      /\ Entry \o <<"dependencies", "plugins", i>> = <<"plugins", 1, "dependencies", "plugins", i>>
      /\ Append(<<"plugins", 1, "dependencies", "plugins", i>>, f)
           = <<"plugins", 1, "dependencies", "plugins", i, f>>
      /\ Entry \o <<"dependencies", "plugins", i, f>>
           = <<"plugins", 1, "dependencies", "plugins", i, f>>
  BY Joined, Appended DEF Entry
<1> QED BY <1>1, <1>2, <1>3, <1>4, <1>5

\* The errors of one field, put under an entry.
LEMMA InEntryAt ==
  ASSUME NEW q, NEW X, NEW path
  PROVE  InEntry(At(q, X), path) = At(path \o Moved(q), X)
<1> DEFINE at(e) == [path |-> path \o Moved(e.path), error |-> e.error]
           error(e) == [path |-> q, error |-> e]
<1>1. \A Y : InEntry(Y, path) = {at(e) : e \in Y}
  BY DEF InEntry, Moved
<1>2. \A e : at(error(e)) = [path |-> path \o Moved(q), error |-> e]
  OBVIOUS
<1>3. At(q, X) = {error(e) : e \in X}
  BY DEF At
<1>4. At(path \o Moved(q), X) = {at(error(e)) : e \in X}
  BY <1>2 DEF At
<1> HIDE DEF at, error
<1>5. {at(y) : y \in {error(e) : e \in X}} = {at(error(e)) : e \in X}
  OBVIOUS
<1> QED BY <1>1, <1>3, <1>4, <1>5

\* Errors put under an entry together or apart,
LEMMA InEntryUnion ==
  \A X, Y, path : InEntry(X \cup Y, path) = InEntry(X, path) \cup InEntry(Y, path)
BY DEF InEntry

\* also when there is one set of them for each item of a list.
LEMMA InEntryEach ==
  ASSUME NEW Xs, NEW path
  PROVE  InEntry(UNION Xs, path) = UNION {InEntry(X, path) : X \in Xs}
<1> DEFINE at(e) == [path |-> path \o Moved(e.path), error |-> e.error]
<1>1. \A X : InEntry(X, path) = {at(e) : e \in X}
  BY DEF InEntry, Moved
<1> HIDE DEF at
<1> QED BY <1>1

\* What both readers say of triggers.
LEMMA TriggersMove ==
  ASSUME NEW triggers
  PROVE  InEntry(TriggersErrors(<<"plugin">> \o <<"triggers">>, triggers), Entry)
           = TriggersErrors(Entry \o <<"triggers">>, triggers)
<1> DEFINE from == <<"plugin">> \o <<"triggers">>
           to == Entry \o <<"triggers">>
           Here(i) == At(Append(from, i), TriggerType_from_str(triggers[i]))
           There(i) == At(Append(to, i), TriggerType_from_str(triggers[i]))
<1>1. Entry \o Moved(from) = to /\ \A i : Entry \o Moved(Append(from, i)) = Append(to, i)
  BY MovedPaths, ZenonT(30)
<1> HIDE DEF from, to
<1>2. InEntry(At(from, {"EmptyTriggers"}), Entry) = At(to, {"EmptyTriggers"})
  BY <1>1, InEntryAt
<1>3. \A i : InEntry(Here(i), Entry) = There(i)
  BY <1>1, InEntryAt
<1>4. TriggersErrors(from, triggers) = IF triggers = << >> THEN At(from, {"EmptyTriggers"})
                                       ELSE UNION {Here(i) : i \in DOMAIN triggers}
  BY DEF TriggersErrors, AtEach
<1>5. TriggersErrors(to, triggers) = IF triggers = << >> THEN At(to, {"EmptyTriggers"})
                                     ELSE UNION {There(i) : i \in DOMAIN triggers}
  BY DEF TriggersErrors, AtEach
<1> HIDE DEF Here, There
<1>6. InEntry(UNION {Here(i) : i \in DOMAIN triggers}, Entry)
        = UNION {There(i) : i \in DOMAIN triggers}
  <2>1. {InEntry(X, Entry) : X \in {Here(i) : i \in DOMAIN triggers}}
          = {There(i) : i \in DOMAIN triggers}
    BY <1>3
  <2> QED BY <2>1, InEntryEach
<1> QED BY <1>2, <1>4, <1>5, <1>6 DEF from, to

\* Errors at one place of the manifest, put under an entry.
LEMMA Relocated ==
  ASSUME NEW from, NEW to, Entry \o Moved(from) = to
  PROVE  \A X : InEntry(At(from, X), Entry) = At(to, X)
BY InEntryAt

\* Four sets of errors, put under an entry together or apart.
LEMMA FourUnited ==
  ASSUME NEW a, NEW b, NEW c, NEW d
  PROVE  InEntry(a \cup b \cup c \cup d, Entry)
           = InEntry(a, Entry) \cup InEntry(b, Entry) \cup InEntry(c, Entry)
             \cup InEntry(d, Entry)
<1> DEFINE at(e) == [path |-> Entry \o Moved(e.path), error |-> e.error]
<1>1. \A Y : InEntry(Y, Entry) = {at(e) : e \in Y}
  BY DEF InEntry, Moved
<1> HIDE DEF at
<1> QED BY <1>1

\* The errors of the manifest's plugin dependencies are those of the entry's,
LEMMA PluginDependenciesMove ==
  ASSUME NEW deps
  PROVE  InEntry(validate_raw_plugin_dependencies(deps, <<"dependencies">>), Entry)
           = validate_raw_plugin_dependencies(deps, Entry \o <<"dependencies">>)
<1> DEFINE Errors(at, i) ==
             At(Append(at, "index_url"), IndexUrl_try_new(deps[i].index_url))
             \cup At(Append(at, "name"), validate(deps[i].name))
             \cup At(Append(at, "version"),
                     ErrorUnless(deps[i].version \in Ranges, "InvalidPluginDependencyVersion"))
             \cup At(at, ErrorUnless(~RepeatsDependency(deps, i), "DuplicatePluginDependency"))
           Here(i) == Errors(<<"dependencies">> \o <<"plugins", i>>, i)
           There(i) == Errors((Entry \o <<"dependencies">>) \o <<"plugins", i>>, i)
<1>1. ASSUME NEW i PROVE InEntry(Here(i), Entry) = There(i)
  <2> DEFINE from == <<"dependencies">> \o <<"plugins", i>>
             to == (Entry \o <<"dependencies">>) \o <<"plugins", i>>
  <2>1. Entry \o Moved(from) = to /\ \A f : Entry \o Moved(Append(from, f)) = Append(to, f)
    BY MovedPaths, ZenonT(30)
  <2> HIDE DEF from, to
  <2>2. InEntry(Errors(from, i), Entry) = Errors(to, i)
    <3> DEFINE a == IndexUrl_try_new(deps[i].index_url)
               b == validate(deps[i].name)
               c == ErrorUnless(deps[i].version \in Ranges, "InvalidPluginDependencyVersion")
               d == ErrorUnless(~RepeatsDependency(deps, i), "DuplicatePluginDependency")
               A == At(Append(from, "index_url"), a)
               B == At(Append(from, "name"), b)
               C == At(Append(from, "version"), c)
               D == At(from, d)
    <3>1. /\ InEntry(A, Entry) = At(Append(to, "index_url"), a)
          /\ InEntry(B, Entry) = At(Append(to, "name"), b)
          /\ InEntry(C, Entry) = At(Append(to, "version"), c)
          /\ InEntry(D, Entry) = At(to, d)
      <4> HIDE DEF a, b, c, d
      <4> QED BY <2>1, Relocated
    <3>2. /\ Errors(from, i) = A \cup B \cup C \cup D
          /\ Errors(to, i) = At(Append(to, "index_url"), a) \cup At(Append(to, "name"), b)
                               \cup At(Append(to, "version"), c) \cup At(to, d)
      OBVIOUS
    <3> HIDE DEF A, B, C, D, Errors, a, b, c, d
    <3>3. InEntry(A \cup B \cup C \cup D, Entry) = InEntry(A, Entry) \cup InEntry(B, Entry)
                                                     \cup InEntry(C, Entry) \cup InEntry(D, Entry)
      BY FourUnited
    <3> QED BY <3>1, <3>2, <3>3
  <2> QED BY <2>2 DEF from, to
<1>2. /\ validate_raw_plugin_dependencies(deps, <<"dependencies">>)
           = UNION {Here(i) : i \in DOMAIN deps}
      /\ validate_raw_plugin_dependencies(deps, Entry \o <<"dependencies">>)
           = UNION {There(i) : i \in DOMAIN deps}
  BY DEF validate_raw_plugin_dependencies
<1> HIDE DEF Errors, Here, There
<1>3. {InEntry(X, Entry) : X \in {Here(i) : i \in DOMAIN deps}} = {There(i) : i \in DOMAIN deps}
  BY <1>1
<1> QED BY <1>2, <1>3, InEntryEach

\* and so are those of all dependencies
LEMMA DependenciesMove ==
  ASSUME NEW d
  PROVE  InEntry(DependenciesErrors(d), Entry)
           = LET deps == Entry \o <<"dependencies">>
             IN  At(deps \o <<"database_version">>,
                    ErrorUnless(d.database_version \in Ranges, "InvalidDatabaseVersion"))
                 \cup AtEach(deps \o <<"python">>, PythonRequirement_try_new, d.python)
                 \cup validate_raw_plugin_dependencies(d.plugins, deps)
<1> DEFINE at == <<"dependencies">>
           deps == Entry \o <<"dependencies">>
           Here(i) == At(Append(at \o <<"python">>, i), PythonRequirement_try_new(d.python[i]))
           There(i) == At(Append(deps \o <<"python">>, i), PythonRequirement_try_new(d.python[i]))
           range == ErrorUnless(d.database_version \in Ranges, "InvalidDatabaseVersion")
           python == UNION {Here(i) : i \in DOMAIN d.python}
           pythonThere == UNION {There(i) : i \in DOMAIN d.python}
           plugins == validate_raw_plugin_dependencies(d.plugins, at)
           pluginsThere == validate_raw_plugin_dependencies(d.plugins, deps)
<1>1. InEntry(At(at \o <<"database_version">>, range), Entry)
        = At(deps \o <<"database_version">>, range)
  <2> DEFINE from == at \o <<"database_version">>
             to == deps \o <<"database_version">>
  <2>1. Entry \o Moved(from) = to
    BY MovedPaths, ZenonT(30)
  <2> HIDE DEF from, to, range
  <2>2. InEntry(At(from, range), Entry) = At(to, range)
    BY <2>1, Relocated
  <2> QED BY <2>2 DEF from, to
<1>2. InEntry(python, Entry) = pythonThere
  <2>1. ASSUME NEW i PROVE InEntry(Here(i), Entry) = There(i)
    <3> DEFINE from == Append(at \o <<"python">>, i)
               to == Append(deps \o <<"python">>, i)
               X == PythonRequirement_try_new(d.python[i])
    <3>1. Entry \o Moved(from) = to
      BY MovedPaths, ZenonT(30)
    <3> HIDE DEF from, to, X
    <3>2. InEntry(At(from, X), Entry) = At(to, X)
      BY <3>1, Relocated
    <3> QED BY <3>2 DEF from, to, X
  <2> HIDE DEF Here, There
  <2>2. {InEntry(X, Entry) : X \in {Here(i) : i \in DOMAIN d.python}}
          = {There(i) : i \in DOMAIN d.python}
    BY <2>1
  <2> QED BY <2>2, InEntryEach
<1>3. InEntry(plugins, Entry) = pluginsThere
  BY PluginDependenciesMove
<1>4. /\ DependenciesErrors(d) = At(at \o <<"database_version">>, range) \cup python \cup plugins
      /\ AtEach(deps \o <<"python">>, PythonRequirement_try_new, d.python) = pythonThere
  BY DEF DependenciesErrors, AtEach
<1> DEFINE first == At(at \o <<"database_version">>, range)
           firstThere == At(deps \o <<"database_version">>, range)
<1>5. InEntry(DependenciesErrors(d), Entry) = firstThere \cup pythonThere \cup pluginsThere
  <2>1. InEntry(first, Entry) = firstThere /\ DependenciesErrors(d) = first \cup python \cup plugins
    BY <1>1, <1>4
  <2> HIDE DEF first, firstThere, python, pythonThere, plugins, pluginsThere
  <2>2. InEntry(first \cup python \cup plugins \cup {}, Entry)
          = InEntry(first, Entry) \cup InEntry(python, Entry) \cup InEntry(plugins, Entry)
            \cup InEntry({}, Entry)
    BY FourUnited
  <2>3. InEntry({}, Entry) = {}
    BY DEF InEntry
  <2> QED BY <2>1, <2>2, <2>3, <1>2, <1>3
<1> QED BY <1>4, <1>5

\* and of the plugin table.
LEMMA PluginMoves ==
  ASSUME NEW p
  PROVE  InEntry(PluginErrors(p), Entry)
           = At(Entry \o <<"name">>, validate(p.name))
             \cup At(Entry \o <<"version">>, ErrorUnless(p.version \in Versions, "InvalidVersion"))
             \cup At(Entry \o <<"description">>, Description_try_new(p.description))
             \cup TriggersErrors(Entry \o <<"triggers">>, p.triggers)
             \cup LinksErrors(p, Entry)
<1> DEFINE at == <<"plugin">>
           version == ErrorUnless(p.version \in Versions, "InvalidVersion")
           Links == {"homepage", "repository", "documentation"}
           Here(f) == At(Append(at, f), parse_optional_http_url(p[f]))
           There(f) == At(Append(Entry, f), parse_optional_http_url(p[f]))
<1>1. /\ InEntry(At(at \o <<"name">>, validate(p.name)), Entry)
           = At(Entry \o <<"name">>, validate(p.name))
      /\ InEntry(At(at \o <<"version">>, version), Entry) = At(Entry \o <<"version">>, version)
      /\ InEntry(At(at \o <<"description">>, Description_try_new(p.description)), Entry)
           = At(Entry \o <<"description">>, Description_try_new(p.description))
  <2>1. ASSUME NEW f, NEW X PROVE InEntry(At(at \o <<f>>, X), Entry) = At(Entry \o <<f>>, X)
    <3> DEFINE from == at \o <<f>>
               to == Entry \o <<f>>
    <3>1. Entry \o Moved(from) = to
      BY MovedPaths, ZenonT(30)
    <3> HIDE DEF from, to
    <3>2. InEntry(At(from, X), Entry) = At(to, X)
      BY <3>1, Relocated
    <3> QED BY <3>2 DEF from, to
  <2> QED BY <2>1, Zenon
<1>2. InEntry(TriggersErrors(at \o <<"triggers">>, p.triggers), Entry)
        = TriggersErrors(Entry \o <<"triggers">>, p.triggers)
  BY TriggersMove
<1>3. InEntry(LinksErrors(p, at), Entry) = LinksErrors(p, Entry)
  <2>1. ASSUME NEW f PROVE InEntry(Here(f), Entry) = There(f)
    <3> DEFINE from == Append(at, f)
               to == Append(Entry, f)
               X == parse_optional_http_url(p[f])
    <3>1. Entry \o Moved(from) = to
      BY MovedPaths, ZenonT(30)
    <3> HIDE DEF from, to, X
    <3>2. InEntry(At(from, X), Entry) = At(to, X)
      BY <3>1, Relocated
    <3> QED BY <3>2 DEF from, to, X
  <2>2. LinksErrors(p, at) = UNION {Here(f) : f \in Links}
        /\ LinksErrors(p, Entry) = UNION {There(f) : f \in Links}
    BY DEF LinksErrors
  <2> HIDE DEF Here, There, Links
  <2>3. {InEntry(X, Entry) : X \in {Here(f) : f \in Links}} = {There(f) : f \in Links}
    BY <2>1
  <2> QED BY <2>2, <2>3, InEntryEach
<1> DEFINE a == At(at \o <<"name">>, validate(p.name))
           b == At(at \o <<"version">>, version)
           c == At(at \o <<"description">>, Description_try_new(p.description))
           d == TriggersErrors(at \o <<"triggers">>, p.triggers)
           e == LinksErrors(p, at)
<1>4. PluginErrors(p) = a \cup b \cup c \cup d \cup e
  BY DEF PluginErrors
<1>5. InEntry(a \cup b \cup c \cup d \cup e, Entry)
        = InEntry(a, Entry) \cup InEntry(b, Entry) \cup InEntry(c, Entry)
          \cup InEntry(d, Entry) \cup InEntry(e, Entry)
  <2> HIDE DEF a, b, c, d, e
  <2> DEFINE four == a \cup b \cup c \cup d
  <2>1. InEntry(four, Entry) = InEntry(a, Entry) \cup InEntry(b, Entry) \cup InEntry(c, Entry)
                                 \cup InEntry(d, Entry)
    BY FourUnited
  <2> HIDE DEF four
  <2>2. InEntry(four \cup e, Entry) = InEntry(four, Entry) \cup InEntry(e, Entry)
    BY InEntryUnion
  <2> QED BY <2>1, <2>2 DEF four
<1> QED BY <1>1, <1>2, <1>3, <1>4, <1>5

\* Without a fatal error, a report is of the fields.
LEMMA NotFatal ==
  ASSUME NEW m, ~Fatal(parse_toml(m))
  PROVE  /\ m.wellformed
         /\ ManifestVersion_from_str(m.manifest_schema_version) = {}
         /\ parse_toml(m) = PluginErrors(m.plugin) \cup DependenciesErrors(m.dependencies)
<1> DEFINE version == ManifestVersion_from_str(m.manifest_schema_version)
<1>1. ASSUME ~m.wellformed PROVE FALSE
  <2>1. [path |-> << >>, error |-> "TomlParse"] \in parse_toml(m)
    BY <1>1 DEF parse_toml, At
  <2> QED BY <2>1 DEF Fatal
<1>2. ASSUME m.wellformed, version # {} PROVE FALSE
  <2>1. PICK e \in version : TRUE
    BY <1>2
  <2>2. [path |-> <<"manifest_schema_version">>, error |-> e] \in parse_toml(m)
    BY <1>2, <2>1 DEF parse_toml, At
  <2> QED BY <2>2 DEF Fatal
<1> QED BY <1>1, <1>2 DEF parse_toml

\* OneRule needs no run of the program: the two validators agree on every text.
THEOREM ReadersAgree == Spec => []OneRule
<1>1. OneRule
  <2> SUFFICES ASSUME ~Fatal(parse_toml(manifest)), NEW h \in Hashes, NEW t \in Times
               PROVE  validate_raw_entry(RawEntry(manifest, h, t), Entry)
                        = InEntry(parse_toml(manifest), Entry)
    BY DEF OneRule, Entry
  <2> DEFINE p == manifest.plugin
             d == manifest.dependencies
             e == RawEntry(manifest, h, t)
             deps == Entry \o <<"dependencies">>
             A == PluginErrors(p)
             B == DependenciesErrors(d)
             names == At(Entry \o <<"name">>, validate(p.name))
             versions == At(Entry \o <<"version">>,
                            ErrorUnless(p.version \in Versions, "InvalidVersion"))
             times == At(Entry \o <<"published_at">>, PublishedAt_try_new(t))
             descriptions == At(Entry \o <<"description">>, Description_try_new(p.description))
             triggers == TriggersErrors(Entry \o <<"triggers">>, p.triggers)
             links == LinksErrors(p, Entry)
             databases == At(deps \o <<"database_version">>,
                             ErrorUnless(d.database_version \in Ranges, "InvalidDatabaseVersion"))
             python == AtEach(deps \o <<"python">>, PythonRequirement_try_new, d.python)
             plugins == validate_raw_plugin_dependencies(d.plugins, deps)
             hashes == At(Entry \o <<"hash">>, ArtifactHash_try_new(h))
  <2>1. parse_toml(manifest) = A \cup B
    BY NotFatal
  <2>2. InEntry(A \cup B, Entry) = InEntry(A, Entry) \cup InEntry(B, Entry)
    <3> HIDE DEF A, B
    <3> QED BY InEntryUnion
  <2>3. /\ e.name = p.name /\ e.version = p.version /\ e.published_at = t
        /\ e.description = p.description /\ e.triggers = p.triggers
        /\ e.dependencies = d /\ e.hash = h
        /\ e["homepage"] = p["homepage"] /\ e["repository"] = p["repository"]
        /\ e["documentation"] = p["documentation"]
    BY DEF RawEntry
  <2>4. LinksErrors(e, Entry) = links
    <3> HIDE DEF e, p
    <3>1. \A f \in {"homepage", "repository", "documentation"} : e[f] = p[f]
      BY <2>3
    <3> QED BY <3>1 DEF LinksErrors
  <2>5. times = {} /\ hashes = {}
    BY DEF At, PublishedAt_try_new, ArtifactHash_try_new, ErrorUnless
  <2>6. InEntry(A, Entry) = names \cup versions \cup descriptions \cup triggers \cup links
    BY PluginMoves
  <2>7. InEntry(B, Entry) = databases \cup python \cup plugins
    BY DependenciesMove
  <2>8. validate_raw_entry(e, Entry)
          = names \cup versions \cup times \cup descriptions \cup triggers
            \cup LinksErrors(e, Entry) \cup databases \cup python \cup plugins \cup hashes
    <3> HIDE DEF e, p, d
    <3> QED BY <2>3 DEF validate_raw_entry
  <2> HIDE DEF names, versions, times, descriptions, triggers, links, databases, python,
               plugins, hashes, e, p, d, deps, A, B
  <2>9. validate_raw_entry(e, Entry) = InEntry(parse_toml(manifest), Entry)
    BY <2>1, <2>2, <2>4, <2>5, <2>6, <2>7, <2>8
  <2> QED BY <2>9 DEF e
<1> QED BY <1>1, PTL

-----------------------------------------------------------------------------
(* The errors of a manifest, one line each.                                  *)

FieldErrors(m) == PluginErrors(m.plugin) \cup DependenciesErrors(m.dependencies)

DependencyError(deps, i, path, error) ==
  \/ path = <<"dependencies", "plugins", i, "index_url">>
     /\ error \in IndexUrl_try_new(deps[i].index_url)
  \/ path = <<"dependencies", "plugins", i, "name">> /\ error \in validate(deps[i].name)
  \/ /\ path = <<"dependencies", "plugins", i, "version">>
     /\ deps[i].version \notin Ranges /\ error = "InvalidPluginDependencyVersion"
  \/ /\ path = <<"dependencies", "plugins", i>>
     /\ RepeatsDependency(deps, i) /\ error = "DuplicatePluginDependency"

TriggerError(triggers, path, error) ==
  \/ path = <<"plugin", "triggers">> /\ triggers = << >> /\ error = "EmptyTriggers"
  \/ \E i \in DOMAIN triggers :
       /\ triggers # << >> /\ path = <<"plugin", "triggers", i>>
       /\ error \in TriggerType_from_str(triggers[i])

PluginError(p, path, error) ==
  \/ path = <<"plugin", "name">> /\ error \in validate(p.name)
  \/ path = <<"plugin", "version">> /\ p.version \notin Versions /\ error = "InvalidVersion"
  \/ path = <<"plugin", "description">> /\ error \in Description_try_new(p.description)
  \/ \E f \in {"homepage", "repository", "documentation"} :
       path = <<"plugin", f>> /\ error \in parse_optional_http_url(p[f])

RequirementError(d, path, error) ==
  \/ /\ path = <<"dependencies", "database_version">>
     /\ d.database_version \notin Ranges /\ error = "InvalidDatabaseVersion"
  \/ \E i \in DOMAIN d.python :
       /\ path = <<"dependencies", "python", i>>
       /\ d.python[i] \notin Requirements /\ error = "InvalidPythonRequirement"

FieldError(m, path, error) ==
  \/ PluginError(m.plugin, path, error)
  \/ TriggerError(m.plugin.triggers, path, error)
  \/ RequirementError(m.dependencies, path, error)
  \/ \E i \in DOMAIN m.dependencies.plugins :
       DependencyError(m.dependencies.plugins, i, path, error)

IsReport(e) == e = [path |-> e.path, error |-> e.error]

\* The errors at a place.
LEMMA ErrorsAt ==
  ASSUME NEW from, NEW X
  PROVE  \A e : e \in At(from, X) <=> IsReport(e) /\ e.path = from /\ e.error \in X
BY DEF At, IsReport

\* The places of a manifest, written out.
LEMMA FlatPaths ==
  ASSUME NEW f, NEW i
  PROVE  /\ <<"plugin">> \o <<f>> = <<"plugin", f>>
         /\ Append(<<"plugin">>, f) = <<"plugin", f>>
         /\ Append(<<"plugin", f>>, i) = <<"plugin", f, i>>
         /\ <<"dependencies">> \o <<f>> = <<"dependencies", f>>
         /\ Append(<<"dependencies", f>>, i) = <<"dependencies", f, i>>
         /\ <<"dependencies">> \o <<"plugins", i>> = <<"dependencies", "plugins", i>>
         /\ Append(<<"dependencies", "plugins", i>>, f) = <<"dependencies", "plugins", i, f>>
BY Joined, Appended

\* The errors of the triggers,
LEMMA TriggerErrorsAre ==
  ASSUME NEW triggers, NEW e
  PROVE  e \in TriggersErrors(<<"plugin">> \o <<"triggers">>, triggers)
           <=> IsReport(e) /\ TriggerError(triggers, e.path, e.error)
<1> DEFINE at == <<"plugin", "triggers">>
           each(i) == <<"plugin", "triggers", i>>
           none == triggers = << >>
<1>1. <<"plugin">> \o <<"triggers">> = at /\ \A i : Append(at, i) = each(i)
  BY FlatPaths
<1>2. \A path, error : TriggerError(triggers, path, error) <=>
        \/ path = at /\ none /\ error = "EmptyTriggers"
        \/ \E i \in DOMAIN triggers :
             ~none /\ path = each(i) /\ error \in TriggerType_from_str(triggers[i])
  BY DEF TriggerError
<1> HIDE DEF at, each
<1>3. TriggersErrors(at, triggers)
        = IF none THEN At(at, {"EmptyTriggers"})
          ELSE UNION {At(each(i), TriggerType_from_str(triggers[i])) : i \in DOMAIN triggers}
  BY <1>1 DEF TriggersErrors, AtEach
<1> HIDE DEF none
<1>4. CASE none
  <2> DEFINE X == {"EmptyTriggers"}
  <2>1. e.error \in X <=> e.error = "EmptyTriggers"
    OBVIOUS
  <2> HIDE DEF X
  <2>2. e \in At(at, X) <=> IsReport(e) /\ e.path = at /\ e.error \in X
    BY ErrorsAt
  <2>3. TriggersErrors(at, triggers) = At(at, X)
    BY <1>3, <1>4 DEF X
  <2>4. TriggerError(triggers, e.path, e.error) <=> e.path = at /\ e.error = "EmptyTriggers"
    BY <1>2, <1>4
  <2>5. e \in TriggersErrors(at, triggers) <=> IsReport(e) /\ TriggerError(triggers, e.path, e.error)
    BY <2>1, <2>2, <2>3, <2>4, Zenon
  <2> QED BY <1>1, <2>5, Zenon
<1>5. CASE ~none
  <2>1. e \in TriggersErrors(at, triggers) <=>
          \E i \in DOMAIN triggers : e \in At(each(i), TriggerType_from_str(triggers[i]))
    BY <1>3, <1>5
  <2>2. \A i : e \in At(each(i), TriggerType_from_str(triggers[i])) <=>
          IsReport(e) /\ e.path = each(i) /\ e.error \in TriggerType_from_str(triggers[i])
    BY ErrorsAt
  <2> QED BY <1>1, <1>2, <1>5, <2>1, <2>2
<1> QED BY <1>4, <1>5

\* of the plugin dependencies,
LEMMA DependencyErrorsAre ==
  ASSUME NEW deps, NEW e
  PROVE  e \in validate_raw_plugin_dependencies(deps, <<"dependencies">>)
           <=> IsReport(e) /\ \E i \in DOMAIN deps : DependencyError(deps, i, e.path, e.error)
<1> DEFINE Errors(at, i) ==
             At(Append(at, "index_url"), IndexUrl_try_new(deps[i].index_url))
             \cup At(Append(at, "name"), validate(deps[i].name))
             \cup At(Append(at, "version"),
                     ErrorUnless(deps[i].version \in Ranges, "InvalidPluginDependencyVersion"))
             \cup At(at, ErrorUnless(~RepeatsDependency(deps, i), "DuplicatePluginDependency"))
<1>1. ASSUME NEW i
      PROVE  e \in Errors(<<"dependencies">> \o <<"plugins", i>>, i)
               <=> IsReport(e) /\ DependencyError(deps, i, e.path, e.error)
  <2> DEFINE at == <<"dependencies", "plugins", i>>
             url == <<"dependencies", "plugins", i, "index_url">>
             name == <<"dependencies", "plugins", i, "name">>
             version == <<"dependencies", "plugins", i, "version">>
             range == ErrorUnless(deps[i].version \in Ranges, "InvalidPluginDependencyVersion")
             again == ErrorUnless(~RepeatsDependency(deps, i), "DuplicatePluginDependency")
  <2>1. /\ <<"dependencies">> \o <<"plugins", i>> = at
        /\ Append(at, "index_url") = url /\ Append(at, "name") = name
        /\ Append(at, "version") = version
    BY FlatPaths
  <2>2. DependencyError(deps, i, e.path, e.error) <=>
          \/ e.path = url /\ e.error \in IndexUrl_try_new(deps[i].index_url)
          \/ e.path = name /\ e.error \in validate(deps[i].name)
          \/ e.path = version /\ e.error \in range
          \/ e.path = at /\ e.error \in again
    BY DEF DependencyError, ErrorUnless
  <2> HIDE DEF at, url, name, version, range, again
  <2>3. Errors(at, i) = At(url, IndexUrl_try_new(deps[i].index_url))
                        \cup At(name, validate(deps[i].name)) \cup At(version, range)
                        \cup At(at, again)
    BY <2>1 DEF range, again
  <2> HIDE DEF Errors
  <2>4. e \in Errors(at, i) <=> IsReport(e) /\ DependencyError(deps, i, e.path, e.error)
    BY <2>2, <2>3, ErrorsAt
  <2> QED BY <2>1, <2>4
<1>2. validate_raw_plugin_dependencies(deps, <<"dependencies">>)
        = UNION {Errors(<<"dependencies">> \o <<"plugins", i>>, i) : i \in DOMAIN deps}
  BY DEF validate_raw_plugin_dependencies
<1> HIDE DEF Errors
<1> QED BY <1>1, <1>2

\* of all dependencies,
LEMMA RequirementErrorsAre ==
  ASSUME NEW d, NEW e
  PROVE  e \in DependenciesErrors(d)
           <=> /\ IsReport(e)
               /\ \/ RequirementError(d, e.path, e.error)
                  \/ \E i \in DOMAIN d.plugins : DependencyError(d.plugins, i, e.path, e.error)
<1> DEFINE at == <<"dependencies">>
           database == <<"dependencies", "database_version">>
           python == <<"dependencies", "python">>
           each(i) == <<"dependencies", "python", i>>
           range == ErrorUnless(d.database_version \in Ranges, "InvalidDatabaseVersion")
           requirement(i) == ErrorUnless(d.python[i] \in Requirements, "InvalidPythonRequirement")
           plugins == validate_raw_plugin_dependencies(d.plugins, at)
<1>1. /\ at \o <<"database_version">> = database /\ at \o <<"python">> = python
      /\ \A i : Append(python, i) = each(i)
  BY FlatPaths
<1>2. RequirementError(d, e.path, e.error) <=>
        \/ e.path = database /\ e.error \in range
        \/ \E i \in DOMAIN d.python : e.path = each(i) /\ e.error \in requirement(i)
  BY DEF RequirementError, ErrorUnless
<1>3. e \in plugins <=>
        IsReport(e) /\ \E i \in DOMAIN d.plugins : DependencyError(d.plugins, i, e.path, e.error)
  BY DependencyErrorsAre
<1> DEFINE requirements == AtEach(at \o <<"python">>, PythonRequirement_try_new, d.python)
<1>4. DependenciesErrors(d) = At(at \o <<"database_version">>, range) \cup requirements \cup plugins
  BY DEF DependenciesErrors
<1> HIDE DEF at, database, python, each
<1>7. requirements = UNION {At(each(i), requirement(i)) : i \in DOMAIN d.python}
  BY <1>1 DEF AtEach, PythonRequirement_try_new
<1> HIDE DEF range, requirement, requirements, plugins
<1>5. e \in At(database, range) <=> IsReport(e) /\ e.path = database /\ e.error \in range
  BY ErrorsAt
<1>6. \A i : e \in At(each(i), requirement(i)) <=>
               IsReport(e) /\ e.path = each(i) /\ e.error \in requirement(i)
  BY ErrorsAt
<1>8. e \in requirements <=>
        \E i \in DOMAIN d.python : IsReport(e) /\ e.path = each(i) /\ e.error \in requirement(i)
  BY <1>6, <1>7
<1>9. e \in DependenciesErrors(d) <=>
        e \in At(database, range) \/ e \in requirements \/ e \in plugins
  BY <1>1, <1>4
<1> QED BY <1>2, <1>3, <1>5, <1>8, <1>9

\* of the plugin table,
LEMMA PluginErrorsAre ==
  ASSUME NEW p, NEW e
  PROVE  e \in PluginErrors(p)
           <=> /\ IsReport(e)
               /\ PluginError(p, e.path, e.error) \/ TriggerError(p.triggers, e.path, e.error)
<1> DEFINE at == <<"plugin">>
           name == <<"plugin", "name">>
           version == <<"plugin", "version">>
           description == <<"plugin", "description">>
           link(f) == <<"plugin", f>>
           Links == {"homepage", "repository", "documentation"}
           known == ErrorUnless(p.version \in Versions, "InvalidVersion")
           triggers == TriggersErrors(at \o <<"triggers">>, p.triggers)
<1>1. /\ at \o <<"name">> = name /\ at \o <<"version">> = version
      /\ at \o <<"description">> = description /\ \A f : Append(at, f) = link(f)
  BY FlatPaths
<1>2. PluginError(p, e.path, e.error) <=>
        \/ e.path = name /\ e.error \in validate(p.name)
        \/ e.path = version /\ e.error \in known
        \/ e.path = description /\ e.error \in Description_try_new(p.description)
        \/ \E f \in Links : e.path = link(f) /\ e.error \in parse_optional_http_url(p[f])
  BY DEF PluginError, ErrorUnless
<1>3. e \in triggers <=> IsReport(e) /\ TriggerError(p.triggers, e.path, e.error)
  BY TriggerErrorsAre
<1> HIDE DEF at, name, version, description, link, Links
<1>4. PluginErrors(p)
        = At(name, validate(p.name)) \cup At(version, known)
          \cup At(description, Description_try_new(p.description)) \cup triggers
          \cup UNION {At(link(f), parse_optional_http_url(p[f])) : f \in Links}
  BY <1>1 DEF PluginErrors, LinksErrors, at, Links
<1> HIDE DEF known, triggers
<1>5. \A f : e \in At(link(f), parse_optional_http_url(p[f])) <=>
               IsReport(e) /\ e.path = link(f) /\ e.error \in parse_optional_http_url(p[f])
  BY ErrorsAt
<1>6. /\ e \in At(name, validate(p.name)) <=>
           IsReport(e) /\ e.path = name /\ e.error \in validate(p.name)
      /\ e \in At(version, known) <=> IsReport(e) /\ e.path = version /\ e.error \in known
      /\ e \in At(description, Description_try_new(p.description)) <=>
           IsReport(e) /\ e.path = description /\ e.error \in Description_try_new(p.description)
  BY ErrorsAt
<1> QED BY <1>2, <1>3, <1>4, <1>5, <1>6

\* and of all fields.
LEMMA FieldErrorsAre ==
  ASSUME NEW m, NEW e
  PROVE  e \in FieldErrors(m) <=> IsReport(e) /\ FieldError(m, e.path, e.error)
BY PluginErrorsAre, RequirementErrorsAre DEF FieldErrors, FieldError

-----------------------------------------------------------------------------
(* Reports and repairs.                                                      *)

\* A manifest with an error in a field is refused.
LEMMA FieldErrorsRefuse ==
  ASSUME NEW m, NEW path, NEW error, FieldError(m, path, error)
  PROVE  parse_toml(m) # {}
<1> DEFINE e == [path |-> path, error |-> error]
           version == ManifestVersion_from_str(m.manifest_schema_version)
<1>1. e \in FieldErrors(m)
  <2>1. IsReport(e) /\ e.path = path /\ e.error = error
    BY DEF IsReport
  <2> HIDE DEF e
  <2> QED BY <2>1, FieldErrorsAre
<1>2. CASE ~m.wellformed
  BY <1>2 DEF parse_toml, At
<1>3. CASE m.wellformed /\ version # {}
  BY <1>3 DEF parse_toml, At
<1>4. CASE m.wellformed /\ version = {}
  BY <1>1, <1>4 DEF parse_toml, FieldErrors
<1> QED BY <1>2, <1>3, <1>4

\* The three kinds of report.
LEMMA ReportsAre ==
  ASSUME NEW m, NEW e \in parse_toml(m)
  PROVE  \/ ~m.wellformed /\ e.path = << >> /\ e.error = "TomlParse"
         \/ /\ e.path = <<"manifest_schema_version">>
            /\ e.error \in ManifestVersion_from_str(m.manifest_schema_version)
         \/ /\ m.wellformed /\ ManifestVersion_from_str(m.manifest_schema_version) = {}
            /\ FieldError(m, e.path, e.error)
<1> DEFINE version == ManifestVersion_from_str(m.manifest_schema_version)
<1>1. CASE ~m.wellformed
  BY <1>1 DEF parse_toml, At
<1>2. CASE m.wellformed /\ version # {}
  BY <1>2 DEF parse_toml, At
<1>3. CASE m.wellformed /\ version = {}
  <2>1. e \in FieldErrors(m)
    BY <1>3 DEF parse_toml, FieldErrors
  <2> QED BY <1>3, <2>1, FieldErrorsAre
<1> QED BY <1>1, <1>2, <1>3

\* A reported error is one of ManifestErrors, at a place of a manifest.
LEMMA ErrorsTyped ==
  ASSUME NEW m, NEW e \in parse_toml(m)
  PROVE  /\ e.error \in ManifestErrors
         /\ \/ e.path = << >>
            \/ e.path[1] \in {"manifest_schema_version", "plugin", "dependencies"}
<1>1. /\ \A n : validate(n) \subseteq {"InvalidPluginName", "ReservedPluginName"}
      /\ \A d : Description_try_new(d)
                  \subseteq {"DescriptionEmpty", "DescriptionMultiline", "DescriptionTooLong"}
      /\ \A s : TriggerType_from_str(s) \subseteq {"UnknownTriggerType"}
      /\ \A u : IndexUrl_try_new(u) \subseteq {"InvalidUrl", "UnsupportedIndexUrlScheme"}
      /\ \A u : parse_optional_http_url(u) \subseteq {"InvalidUrl", "InvalidUrlScheme"}
      /\ \A s : ManifestVersion_from_str(s)
                  \subseteq {"MalformedSchemaVersion", "UnsupportedManifestMajor"}
  BY DEF validate, Description_try_new, TriggerType_from_str, IndexUrl_try_new,
         parse_registry_scheme_url, UrlErrors, parse_optional_http_url,
         ManifestVersion_from_str, SchemaVersion_from_str
<1> DEFINE Fine == /\ e.error \in ManifestErrors
                   /\ \/ e.path = << >>
                      \/ e.path[1] \in {"manifest_schema_version", "plugin", "dependencies"}
<1>2. CASE ~m.wellformed /\ e.path = << >> /\ e.error = "TomlParse"
  BY <1>2 DEF ManifestErrors
<1>3. CASE /\ e.path = <<"manifest_schema_version">>
           /\ e.error \in ManifestVersion_from_str(m.manifest_schema_version)
  BY <1>1, <1>3 DEF ManifestErrors
<1>4. CASE PluginError(m.plugin, e.path, e.error)
  BY <1>1, <1>4 DEF PluginError, ManifestErrors
<1>5. CASE TriggerError(m.plugin.triggers, e.path, e.error)
  BY <1>1, <1>5 DEF TriggerError, ManifestErrors
<1>6. CASE RequirementError(m.dependencies, e.path, e.error)
  BY <1>6 DEF RequirementError, ManifestErrors
<1>7. ASSUME NEW i \in DOMAIN m.dependencies.plugins,
             DependencyError(m.dependencies.plugins, i, e.path, e.error)
      PROVE  Fine
  BY <1>1, <1>7 DEF DependencyError, ManifestErrors
<1> HIDE DEF Fine
<1>8. Fine
  BY <1>2, <1>3, <1>4, <1>5, <1>6, <1>7, ReportsAre DEF FieldError, Fine
<1> QED BY <1>8 DEF Fine

\* What the author's mending leaves of each field.
LEMMA MendedFields ==
  ASSUME NEW m0, NEW bad, NEW m \in MendedManifests(m0, bad)
  PROVE  /\ m.wellformed \in IF << >> \in bad THEN {TRUE} ELSE {m0.wellformed}
         /\ m.manifest_schema_version
              \in Mend("schema_version", m0.manifest_schema_version,
                       <<"manifest_schema_version">>, bad)
         /\ m.plugin.name \in Mend("name", m0.plugin.name, <<"plugin", "name">>, bad)
         /\ m.plugin.version \in Mend("version", m0.plugin.version, <<"plugin", "version">>, bad)
         /\ m.plugin.description
              \in Mend("description", m0.plugin.description, <<"plugin", "description">>, bad)
         /\ m.plugin.triggers
              \in IF <<"plugin", "triggers">> \in bad
                  THEN {<<t>> : t \in Mended["trigger"]}
                  ELSE MendEach("trigger", m0.plugin.triggers, <<"plugin", "triggers">>, bad)
         /\ \A f \in {"homepage", "repository", "documentation"} :
              m.plugin[f] \in Mend("link", m0.plugin[f], <<"plugin", f>>, bad)
         /\ m.dependencies.database_version
              \in Mend("range", m0.dependencies.database_version,
                       <<"dependencies", "database_version">>, bad)
         /\ m.dependencies.python
              \in MendEach("requirement", m0.dependencies.python, <<"dependencies", "python">>, bad)
         /\ m.dependencies.plugins
              \in MendedPluginDependencies(m0.dependencies.plugins,
                                           <<"dependencies", "plugins">>, bad)
<1>1. /\ m.wellformed \in IF << >> \in bad THEN {TRUE} ELSE {m0.wellformed}
      /\ m.manifest_schema_version
           \in Mend("schema_version", m0.manifest_schema_version,
                    <<"manifest_schema_version">>, bad)
      /\ m.plugin \in MendedPlugins(m0.plugin, bad)
      /\ m.dependencies \in MendedDependencies(m0.dependencies, bad)
  BY DEF MendedManifests
<1>2. /\ m.plugin.name \in Mend("name", m0.plugin.name, <<"plugin", "name">>, bad)
      /\ m.plugin.version \in Mend("version", m0.plugin.version, <<"plugin", "version">>, bad)
      /\ m.plugin.description
           \in Mend("description", m0.plugin.description, <<"plugin", "description">>, bad)
      /\ m.plugin.triggers
           \in IF <<"plugin", "triggers">> \in bad
               THEN {<<t>> : t \in Mended["trigger"]}
               ELSE MendEach("trigger", m0.plugin.triggers, <<"plugin", "triggers">>, bad)
  BY <1>1 DEF MendedPlugins
<1>3. \A f \in {"homepage", "repository", "documentation"} :
        m.plugin[f] \in Mend("link", m0.plugin[f], <<"plugin", f>>, bad)
  BY <1>1 DEF MendedPlugins
<1>4. /\ <<"dependencies">> \o <<"database_version">> = <<"dependencies", "database_version">>
      /\ <<"dependencies">> \o <<"python">> = <<"dependencies", "python">>
      /\ <<"dependencies">> \o <<"plugins">> = <<"dependencies", "plugins">>
  BY FlatPaths
<1> DEFINE database == <<"dependencies">> \o <<"database_version">>
           python == <<"dependencies">> \o <<"python">>
           plugins == <<"dependencies">> \o <<"plugins">>
           d == m.dependencies
           d0 == m0.dependencies
<1>5. /\ d.database_version \in Mend("range", d0.database_version, database, bad)
      /\ d.python \in MendEach("requirement", d0.python, python, bad)
      /\ d.plugins \in MendedPluginDependencies(d0.plugins, plugins, bad)
  BY <1>1 DEF MendedDependencies
<1>6. /\ database = <<"dependencies", "database_version">>
      /\ python = <<"dependencies", "python">> /\ plugins = <<"dependencies", "plugins">>
  BY <1>4
<1> HIDE DEF database, python, plugins
<1> QED BY <1>1, <1>2, <1>3, <1>5, <1>6

\* What mending leaves of a list: its length, and items that are mended or as
\* they were.
LEMMA MendEachIs ==
  ASSUME NEW kind, NEW texts, NEW a, NEW b, NEW bad, NEW s \in MendEach(kind, texts, <<a, b>>, bad)
  PROVE  /\ s = [i \in DOMAIN texts |-> s[i]]
         /\ \A i \in DOMAIN texts : s[i] \in Mend(kind, texts[i], <<a, b, i>>, bad)
<1>1. \A i \in DOMAIN texts : s[i] \in Mend(kind, texts[i], Append(<<a, b>>, i), bad)
  BY DEF MendEach
<1>2. ASSUME NEW i \in DOMAIN texts PROVE s[i] \in Mend(kind, texts[i], <<a, b, i>>, bad)
  <2> DEFINE at == Append(<<a, b>>, i)
  <2>1. at = <<a, b, i>>
    BY Appended
  <2>2. s[i] \in Mend(kind, texts[i], at, bad)
    BY <1>1
  <2> HIDE DEF at
  <2> QED BY <2>1, <2>2
<1> QED BY <1>2 DEF MendEach

\* What it leaves of a list of dependencies: those not taken out, in their order.
LEMMA MendedDependenciesAre ==
  ASSUME NEW deps, NEW bad,
         NEW s \in MendedPluginDependencies(deps, <<"dependencies", "plugins">>, bad)
  PROVE  LET kept == {i \in DOMAIN deps : <<"dependencies", "plugins", i>> \notin bad}
         IN  \E p \in Ascending(kept) :
               /\ s = [k \in DOMAIN p |-> s[k]]
               /\ DOMAIN p = 1 .. Cardinality(kept)
               /\ \A k \in DOMAIN p :
                    /\ p[k] \in kept
                    /\ s[k].index_url \in Mend("index_url", deps[p[k]].index_url,
                                               <<"dependencies", "plugins", p[k], "index_url">>, bad)
                    /\ s[k].name \in Mend("name", deps[p[k]].name,
                                          <<"dependencies", "plugins", p[k], "name">>, bad)
                    /\ s[k].version \in Mend("range", deps[p[k]].version,
                                             <<"dependencies", "plugins", p[k], "version">>, bad)
<1> DEFINE path == <<"dependencies", "plugins">>
           at(i) == <<"dependencies", "plugins", i>>
           given == {i \in DOMAIN deps : Append(path, i) \notin bad}
           kept == {i \in DOMAIN deps : at(i) \notin bad}
           Dependency(i) == MendedDependency(deps[i], Append(path, i), bad)
<1>1. \A i : Append(path, i) = at(i)
  BY Appended
<1>2. given = kept
  <2> DEFINE to(i) == Append(path, i)
  <2>1. /\ \A i : to(i) = at(i)
        /\ given = {i \in DOMAIN deps : to(i) \notin bad}
    BY <1>1
  <2> HIDE DEF to, at
  <2> QED BY <2>1
<1>3. PICK p \in Ascending(given) :
        /\ s \in [DOMAIN p -> UNION {Dependency(i) : i \in given}]
        /\ \A k \in DOMAIN p : s[k] \in Dependency(p[k])
  BY DEF MendedPluginDependencies
<1>4. p \in [1 .. Cardinality(given) -> given]
  BY <1>3 DEF Ascending
<1>5. ASSUME NEW k \in DOMAIN p
      PROVE  /\ p[k] \in kept
             /\ s[k].index_url \in Mend("index_url", deps[p[k]].index_url,
                                        <<"dependencies", "plugins", p[k], "index_url">>, bad)
             /\ s[k].name \in Mend("name", deps[p[k]].name,
                                   <<"dependencies", "plugins", p[k], "name">>, bad)
             /\ s[k].version \in Mend("range", deps[p[k]].version,
                                      <<"dependencies", "plugins", p[k], "version">>, bad)
  <2>1. p[k] \in kept
    BY <1>2, <1>4
  <2> DEFINE i == p[k]
             url == <<"dependencies", "plugins", i, "index_url">>
             name == <<"dependencies", "plugins", i, "name">>
             version == <<"dependencies", "plugins", i, "version">>
  <2>2. Append(at(i), "index_url") = url /\ Append(at(i), "name") = name
        /\ Append(at(i), "version") = version
    BY Appended
  <2>3. s[k] \in MendedDependency(deps[i], at(i), bad)
    BY <1>1, <1>3
  <2> HIDE DEF at, i, url, name, version
  <2>4. /\ s[k].index_url \in Mend("index_url", deps[i].index_url, url, bad)
        /\ s[k].name \in Mend("name", deps[i].name, name, bad)
        /\ s[k].version \in Mend("range", deps[i].version, version, bad)
    BY <2>2, <2>3 DEF MendedDependency
  <2> QED BY <2>1, <2>4 DEF i, url, name, version
<1>6. s = [k \in DOMAIN p |-> s[k]] /\ DOMAIN p = 1 .. Cardinality(kept) /\ p \in Ascending(kept)
  BY <1>2, <1>3, <1>4
<1> QED BY <1>5, <1>6

\* What an array is: a function on the positions up to its length.
LEMMA ArrayIs ==
  ASSUME NEW s, IsArray(s)
  PROVE  /\ Len(s) \in Nat /\ DOMAIN s = 1 .. Len(s)
         /\ s = << >> <=> DOMAIN s = {}
BY DEF IsArray

\* Such a function is an array.
LEMMA ArrayMade ==
  ASSUME NEW n \in Nat, NEW s, s = [i \in 1 .. n |-> s[i]]
  PROVE  IsArray(s) /\ Len(s) = n
<1>1. \A i \in 1 .. n : s[i] \in EntriesOf(s)
  BY DEF EntriesOf
<1>2. s \in Seq(EntriesOf(s))
  BY <1>1
<1> QED BY <1>2 DEF IsArray

\* There are finitely many items in a part of an array.
LEMMA KeptFinite ==
  ASSUME NEW s, IsArray(s), NEW S \in SUBSET DOMAIN s
  PROVE  Cardinality(S) \in Nat
<1>1. Len(s) \in Nat /\ DOMAIN s = 1 .. Len(s)
  BY ArrayIs
<1>2. IsFiniteSet(1 .. Len(s))
  BY <1>1, FS_Interval
<1> QED BY <1>1, <1>2, FS_Subset, FS_CardinalityType

\* A mended manifest has its arrays.
LEMMA MendedIsRaw ==
  ASSUME NEW m0, IsRawManifest(m0), NEW bad, NEW m \in MendedManifests(m0, bad)
  PROVE  IsRawManifest(m)
<1>1. IsDescription(m.plugin.description)
  <2>1. m.plugin.description
          \in Mend("description", m0.plugin.description, <<"plugin", "description">>, bad)
    BY MendedFields
  <2>2. m.plugin.description \in Mended["description"] \/ m.plugin.description = m0.plugin.description
    BY <2>1 DEF Mend
  <2> QED BY <2>2, MendedAssumption DEF IsRawManifest, IsDescription
<1>2. IsArray(m.plugin.triggers)
  <2>1. CASE <<"plugin", "triggers">> \in bad
    <3>3. m.plugin.triggers \in {<<t>> : t \in Mended["trigger"]}
      BY <2>1, MendedFields
    <3>1. PICK t \in Mended["trigger"] : m.plugin.triggers = <<t>>
      BY <3>3
    <3>2. \A x : <<x>> = [i \in 1 .. 1 |-> <<x>>[i]]
      OBVIOUS
    <3> QED BY <3>1, <3>2, ArrayMade
  <2>2. CASE <<"plugin", "triggers">> \notin bad
    <3>1. m.plugin.triggers
            \in MendEach("trigger", m0.plugin.triggers, <<"plugin", "triggers">>, bad)
      BY <2>2, MendedFields
    <3>2. m.plugin.triggers = [i \in DOMAIN m0.plugin.triggers |-> m.plugin.triggers[i]]
      BY <3>1 DEF MendEach
    <3>3. DOMAIN m0.plugin.triggers = 1 .. Len(m0.plugin.triggers)
          /\ Len(m0.plugin.triggers) \in Nat
      BY ArrayIs DEF IsRawManifest
    <3> QED BY <3>2, <3>3, ArrayMade
  <2> QED BY <2>1, <2>2
<1>3. IsArray(m.dependencies.python)
  <2> DEFINE s == m.dependencies.python
             s0 == m0.dependencies.python
  <2>1. s \in MendEach("requirement", s0, <<"dependencies", "python">>, bad)
    BY MendedFields
  <2>2. s = [i \in DOMAIN s0 |-> s[i]]
    BY <2>1 DEF MendEach
  <2>3. DOMAIN s0 = 1 .. Len(s0) /\ Len(s0) \in Nat
    BY ArrayIs DEF IsRawManifest
  <2> QED BY <2>2, <2>3, ArrayMade
<1>4. IsArray(m.dependencies.plugins)
  <2> DEFINE s == m.dependencies.plugins
             s0 == m0.dependencies.plugins
             kept == {i \in DOMAIN s0 : <<"dependencies", "plugins", i>> \notin bad}
  <2>1. s \in MendedPluginDependencies(s0, <<"dependencies", "plugins">>, bad)
    BY MendedFields
  <2> HIDE DEF s, s0
  <2>2. PICK p \in Ascending(kept) :
          s = [k \in DOMAIN p |-> s[k]] /\ DOMAIN p = 1 .. Cardinality(kept)
    BY <2>1, MendedDependenciesAre
  <2>3. Cardinality(kept) \in Nat
    <3> USE DEF s0, kept
    <3>1. IsArray(s0) /\ kept \in SUBSET DOMAIN s0
      BY DEF IsRawManifest
    <3> HIDE DEF s0, kept
    <3> QED BY <3>1, KeptFinite
  <2> HIDE DEF kept
  <2>4. IsArray(s)
    BY <2>2, <2>3, ArrayMade
  <2> QED BY <2>4 DEF s
<1> QED BY <1>1, <1>2, <1>3, <1>4 DEF IsRawManifest

-----------------------------------------------------------------------------
(* What a reader accepts.                                                    *)

TriggersAccepted(triggers) ==
  /\ triggers # << >>
  /\ \A i \in DOMAIN triggers : TriggerType_from_str(triggers[i]) = {}

PluginsAccepted(deps) ==
  \A i \in DOMAIN deps :
    /\ IndexUrl_try_new(deps[i].index_url) = {}
    /\ validate(deps[i].name) = {}
    /\ deps[i].version \in Ranges
    /\ ~RepeatsDependency(deps, i)

EntryAccepted(e) ==
  /\ validate(e.name) = {}
  /\ e.version \in Versions
  /\ e.published_at \in Times
  /\ Description_try_new(e.description) = {}
  /\ TriggersAccepted(e.triggers)
  /\ \A f \in {"homepage", "repository", "documentation"} : parse_optional_http_url(e[f]) = {}
  /\ e.dependencies.database_version \in Ranges
  /\ \A i \in DOMAIN e.dependencies.python : e.dependencies.python[i] \in Requirements
  /\ PluginsAccepted(e.dependencies.plugins)
  /\ e.hash \in Hashes

\* There is no error at a place when its text has none.
LEMMA NoErrors == \A path, X : At(path, X) = {} <=> X = {}
BY DEF At

\* Triggers, links, requirements and plugin dependencies are accepted at any
\* place alike.
LEMMA NoTriggerErrors ==
  ASSUME NEW path, NEW triggers
  PROVE  TriggersErrors(path, triggers) = {} <=> TriggersAccepted(triggers)
<1> DEFINE none == triggers = << >>
           each(i) == Append(path, i)
<1>1. TriggersErrors(path, triggers)
        = IF none THEN At(path, {"EmptyTriggers"})
          ELSE UNION {At(each(i), TriggerType_from_str(triggers[i])) : i \in DOMAIN triggers}
  BY DEF TriggersErrors, AtEach
<1>2. TriggersAccepted(triggers)
        <=> ~none /\ \A i \in DOMAIN triggers : TriggerType_from_str(triggers[i]) = {}
  BY DEF TriggersAccepted
<1> HIDE DEF none, each
<1>3. CASE none
  <2>1. {"EmptyTriggers"} # {}
    OBVIOUS
  <2> QED BY <1>1, <1>2, <1>3, <2>1, NoErrors
<1>4. CASE ~none
  <2>1. TriggersErrors(path, triggers) = {}
          <=> \A i \in DOMAIN triggers : At(each(i), TriggerType_from_str(triggers[i])) = {}
    BY <1>1, <1>4
  <2>2. \A i : At(each(i), TriggerType_from_str(triggers[i])) = {}
                 <=> TriggerType_from_str(triggers[i]) = {}
    BY NoErrors
  <2> QED BY <1>2, <1>4, <2>1, <2>2
<1> QED BY <1>3, <1>4

\* Links.
LEMMA NoLinkErrors ==
  ASSUME NEW fields, NEW path
  PROVE  LinksErrors(fields, path) = {} <=>
           \A f \in {"homepage", "repository", "documentation"} :
             parse_optional_http_url(fields[f]) = {}
<1> DEFINE Links == {"homepage", "repository", "documentation"}
           each(f) == Append(path, f)
<1>1. LinksErrors(fields, path)
        = UNION {At(each(f), parse_optional_http_url(fields[f])) : f \in Links}
  BY DEF LinksErrors
<1> HIDE DEF Links, each
<1>2. LinksErrors(fields, path) = {}
        <=> \A f \in Links : At(each(f), parse_optional_http_url(fields[f])) = {}
  BY <1>1
<1>3. LinksErrors(fields, path) = {} <=> \A f \in Links : parse_optional_http_url(fields[f]) = {}
  BY <1>2, NoErrors
<1> QED BY <1>3 DEF Links

\* Python requirements.
LEMMA NoRequirementErrors ==
  ASSUME NEW path, NEW texts
  PROVE  AtEach(path, PythonRequirement_try_new, texts) = {}
           <=> \A i \in DOMAIN texts : texts[i] \in Requirements
<1> DEFINE error(i) == ErrorUnless(texts[i] \in Requirements, "InvalidPythonRequirement")
           errors == AtEach(path, PythonRequirement_try_new, texts)
<1>1. errors = UNION {At(Append(path, i), error(i)) : i \in DOMAIN texts}
  BY DEF AtEach, PythonRequirement_try_new
<1>2. \A i : error(i) = {} <=> texts[i] \in Requirements
  BY DEF ErrorUnless
<1> HIDE DEF error, errors
<1>3. errors = {} <=> \A i \in DOMAIN texts : At(Append(path, i), error(i)) = {}
  BY <1>1
<1>4. errors = {} <=> \A i \in DOMAIN texts : texts[i] \in Requirements
  BY <1>2, <1>3, NoErrors
<1> QED BY <1>4 DEF errors

\* Plugin dependencies.
LEMMA NoDependencyErrors ==
  ASSUME NEW deps, NEW path
  PROVE  validate_raw_plugin_dependencies(deps, path) = {} <=> PluginsAccepted(deps)
<1> DEFINE at(i) == path \o <<"plugins", i>>
           range(i) == ErrorUnless(deps[i].version \in Ranges, "InvalidPluginDependencyVersion")
           again(i) == ErrorUnless(~RepeatsDependency(deps, i), "DuplicatePluginDependency")
           Errors(i) == At(Append(at(i), "index_url"), IndexUrl_try_new(deps[i].index_url))
                        \cup At(Append(at(i), "name"), validate(deps[i].name))
                        \cup At(Append(at(i), "version"), range(i))
                        \cup At(at(i), again(i))
<1>1. validate_raw_plugin_dependencies(deps, path) = UNION {Errors(i) : i \in DOMAIN deps}
  BY DEF validate_raw_plugin_dependencies
<1>2. \A i : (range(i) = {} <=> deps[i].version \in Ranges)
             /\ (again(i) = {} <=> ~RepeatsDependency(deps, i))
  BY DEF ErrorUnless
<1> HIDE DEF at, range, again
<1>3. ASSUME NEW i
      PROVE  Errors(i) = {} <=> /\ IndexUrl_try_new(deps[i].index_url) = {}
                                /\ validate(deps[i].name) = {}
                                /\ range(i) = {} /\ again(i) = {}
  <2> DEFINE A == At(Append(at(i), "index_url"), IndexUrl_try_new(deps[i].index_url))
             B == At(Append(at(i), "name"), validate(deps[i].name))
             C == At(Append(at(i), "version"), range(i))
             D == At(at(i), again(i))
  <2>1. /\ A = {} <=> IndexUrl_try_new(deps[i].index_url) = {}
        /\ B = {} <=> validate(deps[i].name) = {}
        /\ C = {} <=> range(i) = {}
        /\ D = {} <=> again(i) = {}
    BY NoErrors
  <2>2. Errors(i) = A \cup B \cup C \cup D
    OBVIOUS
  <2> HIDE DEF A, B, C, D, Errors
  <2> QED BY <2>1, <2>2
<1> HIDE DEF Errors
<1>4. validate_raw_plugin_dependencies(deps, path) = {} <=> \A i \in DOMAIN deps : Errors(i) = {}
  BY <1>1
<1> QED BY <1>2, <1>3, <1>4 DEF PluginsAccepted

\* An entry is accepted or refused wherever in the document it stands.
LEMMA EntryErrorsAre ==
  ASSUME NEW e, NEW path
  PROVE  validate_raw_entry(e, path) = {} <=> EntryAccepted(e)
<1> DEFINE deps == path \o <<"dependencies">>
           A == At(path \o <<"name">>, validate(e.name))
           B == At(path \o <<"version">>, ErrorUnless(e.version \in Versions, "InvalidVersion"))
           C == At(path \o <<"published_at">>, PublishedAt_try_new(e.published_at))
           D == At(path \o <<"description">>, Description_try_new(e.description))
           E == TriggersErrors(path \o <<"triggers">>, e.triggers)
           F == LinksErrors(e, path)
           G == At(deps \o <<"database_version">>,
                   ErrorUnless(e.dependencies.database_version \in Ranges,
                               "InvalidDatabaseVersion"))
           H == AtEach(deps \o <<"python">>, PythonRequirement_try_new, e.dependencies.python)
           I == validate_raw_plugin_dependencies(e.dependencies.plugins, deps)
           J == At(path \o <<"hash">>, ArtifactHash_try_new(e.hash))
<1>1. validate_raw_entry(e, path)
        = A \cup B \cup C \cup D \cup E \cup F \cup G \cup H \cup I \cup J
  BY DEF validate_raw_entry
<1>2. /\ A = {} <=> validate(e.name) = {}
      /\ B = {} <=> e.version \in Versions
      /\ C = {} <=> e.published_at \in Times
      /\ D = {} <=> Description_try_new(e.description) = {}
      /\ G = {} <=> e.dependencies.database_version \in Ranges
      /\ J = {} <=> e.hash \in Hashes
  BY NoErrors DEF PublishedAt_try_new, ArtifactHash_try_new, ErrorUnless
<1>3. /\ E = {} <=> TriggersAccepted(e.triggers)
      /\ I = {} <=> PluginsAccepted(e.dependencies.plugins)
  BY NoTriggerErrors, NoDependencyErrors
<1>4. F = {} <=> \A f \in {"homepage", "repository", "documentation"} :
                   parse_optional_http_url(e[f]) = {}
  BY NoLinkErrors
<1>5. H = {} <=> \A i \in DOMAIN e.dependencies.python :
                   e.dependencies.python[i] \in Requirements
  BY NoRequirementErrors
<1> HIDE DEF A, B, C, D, E, F, G, H, I, J
<1>6. validate_raw_entry(e, path) = {}
        <=> /\ A = {} /\ B = {} /\ C = {} /\ D = {} /\ E = {} /\ F = {} /\ G = {}
            /\ H = {} /\ I = {} /\ J = {}
  BY <1>1
<1> QED BY <1>2, <1>3, <1>4, <1>5, <1>6 DEF EntryAccepted

\* An entry that package makes of an accepted manifest is one to accept.
LEMMA ManifestMakesEntry ==
  ASSUME NEW m, parse_toml(m) = {}, NEW h \in Hashes, NEW t \in Times
  PROVE  EntryAccepted(RawEntry(m, h, t))
<1> DEFINE p == m.plugin
           d == m.dependencies
           e == RawEntry(m, h, t)
           at == <<"plugin">>
           deps == <<"dependencies">>
<1>1. PluginErrors(p) = {} /\ DependenciesErrors(d) = {}
  <2>1. ASSUME ~m.wellformed PROVE FALSE
    BY <2>1 DEF parse_toml, At
  <2>2. ASSUME ManifestVersion_from_str(m.manifest_schema_version) # {} PROVE FALSE
    BY <2>1, <2>2 DEF parse_toml, At
  <2> QED BY <2>1, <2>2 DEF parse_toml
<1>2. /\ validate(p.name) = {}
      /\ p.version \in Versions
      /\ Description_try_new(p.description) = {}
      /\ TriggersErrors(at \o <<"triggers">>, p.triggers) = {}
      /\ LinksErrors(p, at) = {}
  <2> DEFINE A == At(at \o <<"name">>, validate(p.name))
             B == At(at \o <<"version">>, ErrorUnless(p.version \in Versions, "InvalidVersion"))
             C == At(at \o <<"description">>, Description_try_new(p.description))
             D == TriggersErrors(at \o <<"triggers">>, p.triggers)
             E == LinksErrors(p, at)
  <2>1. PluginErrors(p) = A \cup B \cup C \cup D \cup E
    BY DEF PluginErrors
  <2>2. /\ A = {} <=> validate(p.name) = {}
        /\ B = {} <=> p.version \in Versions
        /\ C = {} <=> Description_try_new(p.description) = {}
    BY NoErrors DEF ErrorUnless
  <2> HIDE DEF A, B, C, p, at
  <2> QED BY <1>1, <2>1, <2>2
<1>3. /\ d.database_version \in Ranges
      /\ AtEach(deps \o <<"python">>, PythonRequirement_try_new, d.python) = {}
      /\ validate_raw_plugin_dependencies(d.plugins, deps) = {}
  <2> DEFINE A == At(deps \o <<"database_version">>,
                     ErrorUnless(d.database_version \in Ranges, "InvalidDatabaseVersion"))
             B == AtEach(deps \o <<"python">>, PythonRequirement_try_new, d.python)
             C == validate_raw_plugin_dependencies(d.plugins, deps)
  <2>1. DependenciesErrors(d) = A \cup B \cup C
    BY DEF DependenciesErrors
  <2>2. A = {} <=> d.database_version \in Ranges
    BY NoErrors DEF ErrorUnless
  <2>3. A = {} /\ B = {} /\ C = {}
    <3> HIDE DEF A, B, C, d
    <3> QED BY <1>1, <2>1
  <2> QED BY <2>2, <2>3
<1>4. TriggersAccepted(p.triggers) /\ PluginsAccepted(d.plugins)
  BY <1>2, <1>3, NoTriggerErrors, NoDependencyErrors
<1>5. \A f \in {"homepage", "repository", "documentation"} : parse_optional_http_url(p[f]) = {}
  BY <1>2, NoLinkErrors
<1>6. \A i \in DOMAIN d.python : d.python[i] \in Requirements
  BY <1>3, NoRequirementErrors
<1>7. /\ e.name = p.name /\ e.version = p.version /\ e.published_at = t
      /\ e.description = p.description /\ e.triggers = p.triggers /\ e.dependencies = d
      /\ e.hash = h
      /\ \A f \in {"homepage", "repository", "documentation"} : e[f] = p[f]
  BY DEF RawEntry
<1> HIDE DEF e, p, d
<1>8. EntryAccepted(e)
  BY <1>2, <1>3, <1>4, <1>5, <1>6, <1>7 DEF EntryAccepted
<1> QED BY <1>8 DEF e

-----------------------------------------------------------------------------
(* A document that an entry is added to.                                     *)

USE DEF Positions

\* parse_json accepts a document of accepted entries that go together.
LEMMA DocumentErrorsAre ==
  ASSUME NEW doc, IsArray(doc.plugins)
  PROVE  parse_json(doc) = {} <=>
           /\ doc.wellformed
           /\ SchemaVersion_from_str(doc.index_schema_version, 2, "UnsupportedIndexMajor") = {}
           /\ ArtifactsUrl_try_new(doc.artifacts_url) = {}
           /\ \A i \in DOMAIN doc.plugins : EntryAccepted(doc.plugins[i])
           /\ Consistent(doc.plugins)
<1> DEFINE s == doc.plugins
           version == SchemaVersion_from_str(doc.index_schema_version, 2, "UnsupportedIndexMajor")
           url == At(<<"artifacts_url">>, ArtifactsUrl_try_new(doc.artifacts_url))
           entry(i) == validate_raw_entry(s[i], <<"plugins", i>>)
           entries == UNION {entry(i) : i \in DOMAIN s}
           across == {[path |-> <<"plugins", e[1]>>, error |-> e[2]] : e \in ParseErrors(s)}
<1>1. entries = {} <=> \A i \in DOMAIN s : EntryAccepted(s[i])
  <2>1. \A i : entry(i) = {} <=> EntryAccepted(s[i])
    BY EntryErrorsAre
  <2>2. entries = {} <=> \A i \in DOMAIN s : entry(i) = {}
    <3> HIDE DEF entry
    <3> QED OBVIOUS
  <2> QED BY <2>1, <2>2
<1>2. across = {} <=> Consistent(s)
  <2>1. across = {} <=> Parses(s)
    BY DEF Parses
  <2>2. s \in Seq(EntriesOf(s))
    BY DEF IsArray
  <2> QED BY <2>1, <2>2, ParsesIffConsistent
<1>3. url = {} <=> ArtifactsUrl_try_new(doc.artifacts_url) = {}
  BY NoErrors
<1>4. CASE ~doc.wellformed
  BY <1>4 DEF parse_json, At
<1>5. CASE doc.wellformed /\ version # {}
  <2>1. parse_json(doc) = At(<<"index_schema_version">>, version)
    BY <1>5 DEF parse_json
  <2>2. parse_json(doc) # {}
    BY <1>5, <2>1, NoErrors
  <2> QED BY <1>5, <2>2
<1>6. CASE doc.wellformed /\ version = {}
  <2>2. parse_json(doc) = IF ~doc.wellformed THEN At(<< >>, {"JsonParse"})
                          ELSE IF version # {} THEN At(<<"index_schema_version">>, version)
                          ELSE url \cup entries \cup across
    BY DEF parse_json
  <2> HIDE DEF url, entries, across, version
  <2>1. parse_json(doc) = url \cup entries \cup across
    BY <1>6, <2>2
  <2> QED BY <1>1, <1>2, <1>3, <1>6, <2>1 DEF version
<1> QED BY <1>4, <1>5, <1>6

\* An order of the positions repeats none.
LEMMA OrdersRepeatNone ==
  ASSUME NEW n \in Nat, NEW p \in [1 .. n -> 1 .. n],
         \A w \in 1 .. n : \E i \in 1 .. n : p[i] = w
  PROVE  \A i, j \in 1 .. n : p[i] = p[j] => i = j
<1> DEFINE S == 1 .. n
<1>1. IsFiniteSet(S)
  BY FS_Interval
<1>2. p \in Surjection(S, S)
  BY DEF Surjection
<1>3. p \in Injection(S, S)
  <2> HIDE DEF S
  <2> QED BY <1>1, <1>2, FS_Surjection
<1> QED BY <1>3 DEF Injection, IsInjective

\* What to_canonical_json makes of a list of accepted entries.
LEMMA WrittenEntries ==
  ASSUME NEW s, IsArray(s), \A i \in DOMAIN s : IsRawEntry(s[i]) /\ EntryAccepted(s[i]),
         Consistent(s), NEW doc \in to_canonical_json(s)
  PROVE  /\ IsArray(doc.plugins) /\ Len(doc.plugins) = Len(s)
         /\ \A i \in DOMAIN doc.plugins :
              IsRawEntry(doc.plugins[i]) /\ EntryAccepted(doc.plugins[i])
         /\ Consistent(doc.plugins)
<1> DEFINE n == Len(s)
           t == doc.plugins
<1>1. n \in Nat /\ DOMAIN s = 1 .. n
  BY ArrayIs
<1>2. PICK p \in SortOrders(s) :
        doc = [index_schema_version |-> Current,
               plugins |-> [i \in 1 .. n |-> normalize_nfc(s[p[i]])]]
  BY DEF to_canonical_json
<1>3. \A i \in 1 .. n : Nfc[s[i].description] # TooLong
  BY DEF to_canonical_json
<1>4. p \in [1 .. n -> 1 .. n] /\ \A w \in 1 .. n : \E i \in 1 .. n : p[i] = w
  BY DEF SortOrders
<1>5. \A i, j \in 1 .. n : p[i] = p[j] => i = j
  <2> HIDE DEF n
  <2> QED BY <1>1, <1>4, OrdersRepeatNone
<1>6. t = [i \in 1 .. n |-> normalize_nfc(s[p[i]])]
  BY <1>2
<1> HIDE DEF n, t
<1>7. IsArray(t) /\ Len(t) = n /\ DOMAIN t = 1 .. n
  <2>1. t = [i \in 1 .. n |-> t[i]] /\ DOMAIN t = 1 .. n
    BY <1>6
  <2> QED BY <1>1, <2>1, ArrayMade
<1>8. ASSUME NEW i \in 1 .. n
      PROVE  /\ IsRawEntry(t[i]) /\ EntryAccepted(t[i])
             /\ t[i].name = s[p[i]].name /\ t[i].version = s[p[i]].version
  <2> DEFINE e == s[p[i]]
             f == t[i]
             d == Nfc[e.description]
  <2>1. p[i] \in 1 .. n /\ IsRawEntry(e) /\ EntryAccepted(e)
    BY <1>1, <1>4
  <2>2. e.description \in Descriptions
    BY <2>1 DEF EntryAccepted, IsRawEntry, IsDescription
  <2>3. d \in Descriptions
    BY <1>3, <2>1, <2>2, ConstantsAssumption
  <2>4. f = [e EXCEPT !.description = d]
    BY <1>6 DEF normalize_nfc
  <2>5. HasFields(e, EntryFields)
    BY <2>1 DEF IsRawEntry
  <2> HIDE DEF e, f, d
  <2>6. /\ HasFields(f, EntryFields)
        /\ f.description = d
        /\ \A x \in EntryFields \ {"description"} : f[x] = e[x]
    BY <2>4, <2>5 DEF HasFields, EntryFields
  <2>7. /\ f.name = e.name /\ f.version = e.version /\ f.published_at = e.published_at
        /\ f.triggers = e.triggers /\ f.dependencies = e.dependencies /\ f.hash = e.hash
        /\ \A x \in {"homepage", "repository", "documentation"} : f[x] = e[x]
    BY <2>6 DEF EntryFields
  <2>8. Description_try_new(d) = {}
    BY <2>3, DocumentsAssumption
  <2>9. EntryAccepted(f)
    BY <2>1, <2>6, <2>7, <2>8 DEF EntryAccepted
  <2>10. IsRawEntry(f)
    BY <2>3, <2>6 DEF IsRawEntry, IsDescription
  <2> QED BY <2>7, <2>9, <2>10 DEF e, f
<1>9. ASSUME NEW i \in 1 .. n, NEW j \in 1 .. n, i # j, SameCanonical(t[i], t[j])
      PROVE  t[i].name = t[j].name /\ t[i].version # t[j].version
  <2>1. p[i] \in 1 .. n /\ p[j] \in 1 .. n /\ p[i] # p[j]
    BY <1>4, <1>5, <1>9
  <2>2. SameCanonical(s[p[i]], s[p[j]])
    BY <1>8, <1>9 DEF SameCanonical
  <2>3. s[p[i]].name = s[p[j]].name /\ s[p[i]].version # s[p[j]].version
    BY <2>1, <2>2 DEF Consistent, n
  <2> QED BY <1>8, <2>3
<1>10. Consistent(t)
  BY <1>7, <1>9 DEF Consistent
<1> QED BY <1>7, <1>8, <1>10 DEF n, t

-----------------------------------------------------------------------------
(* The documents at hand have their fields and arrays.                       *)

Documents ==
  /\ IsRawManifest(manifest)
  /\ IsRawIndex(index)
  /\ Len(index.plugins) <= MaxEntries

\* What package writes has its fields, keeps within the bound, and is
\* accepted.
LEMMA PackageWrites ==
  ASSUME Documents, NEW h \in Hashes, NEW t \in Times, Package(h, t)
  PROVE  Documents' /\ parse_json(index') = {}
<1> DEFINE s == index.plugins
           e == RawEntry(manifest, h, t)
           u == Append(s, e)
           S == EntriesOf(s) \cup {e}
           version == SchemaVersion_from_str(index.index_schema_version, 2,
                                             "UnsupportedIndexMajor")
<1>1. /\ Len(s) < MaxEntries /\ parse_json(index) = {} /\ parse_toml(manifest) = {}
      /\ check_entry_insert(s, e) = "Ok"
      /\ manifest' = manifest
  BY DEF Package
<1>2. PICK written \in to_canonical_json(push_entry(s, e)) :
        index' = [index EXCEPT !.index_schema_version = CURRENT, !.plugins = written.plugins]
  BY DEF Package
<1>3. IsArray(s) /\ \A i \in DOMAIN s : IsRawEntry(s[i])
  BY DEF Documents, IsRawIndex
<1>4. /\ index.wellformed
      /\ ArtifactsUrl_try_new(index.artifacts_url) = {}
      /\ \A i \in DOMAIN s : EntryAccepted(s[i])
      /\ Consistent(s)
  BY <1>1, <1>3, DocumentErrorsAre
<1>5. IsRawEntry(e) /\ EntryAccepted(e)
  <2>1. EntryAccepted(e)
    BY <1>1, ManifestMakesEntry
  <2>2. HasFields(e, EntryFields)
    BY DEF RawEntry, HasFields, EntryFields
  <2>3. IsDescription(e.description)
    BY DEF RawEntry, Documents, IsRawManifest
  <2> QED BY <2>1, <2>2, <2>3 DEF IsRawEntry
<1>6. /\ s \in Seq(S) /\ e \in S
  <2>1. s \in Seq(EntriesOf(s))
    BY <1>3 DEF IsArray
  <2> HIDE DEF s, e
  <2> QED BY <2>1
<1> HIDE DEF e, s, S, u
<1>7. push_entry(s, e) = u
  BY <1>1 DEF push_entry, u
<1>8. /\ Len(u) = Len(s) + 1 /\ Len(s) \in Nat /\ DOMAIN u = 1 .. Len(u)
      /\ u[Len(s) + 1] = e /\ \A i \in 1 .. Len(s) : u[i] = s[i]
      /\ DOMAIN s = 1 .. Len(s)
  BY <1>6 DEF u
<1>9. IsArray(u)
  <2>1. u \in Seq(S)
    BY <1>6 DEF u
  <2>2. u \in [1 .. Len(u) -> S]
    BY <2>1, LenProperties
  <2>3. u = [i \in 1 .. Len(u) |-> u[i]]
    BY <2>2
  <2> QED BY <1>8, <2>3, ArrayMade
<1>10. \A i \in DOMAIN u : IsRawEntry(u[i]) /\ EntryAccepted(u[i])
  BY <1>3, <1>4, <1>5, <1>8
<1>11. Consistent(u)
  BY <1>1, <1>4, <1>6, AppendConsistent DEF u
<1>12. /\ IsArray(written.plugins) /\ Len(written.plugins) = Len(u)
       /\ \A i \in DOMAIN written.plugins :
            IsRawEntry(written.plugins[i]) /\ EntryAccepted(written.plugins[i])
       /\ Consistent(written.plugins)
  BY <1>2, <1>7, <1>9, <1>10, <1>11, WrittenEntries
<1>13. /\ HasFields(index', {"wellformed", "index_schema_version", "artifacts_url", "plugins"})
       /\ index'.wellformed = index.wellformed
       /\ index'.index_schema_version = CURRENT
       /\ index'.artifacts_url = index.artifacts_url
       /\ index'.plugins = written.plugins
  BY <1>2 DEF Documents, IsRawIndex, HasFields
<1>14. SchemaVersion_from_str(CURRENT, 2, "UnsupportedIndexMajor") = {}
  BY DEF SchemaVersion_from_str, CURRENT
<1> DEFINE new == index'
<1>15. parse_json(new) = {}
  <2>1. /\ IsArray(new.plugins) /\ new.wellformed
        /\ SchemaVersion_from_str(new.index_schema_version, 2, "UnsupportedIndexMajor") = {}
        /\ ArtifactsUrl_try_new(new.artifacts_url) = {}
        /\ \A i \in DOMAIN new.plugins : EntryAccepted(new.plugins[i])
        /\ Consistent(new.plugins)
    BY <1>4, <1>12, <1>13, <1>14
  <2> HIDE DEF new
  <2> QED BY <2>1, DocumentErrorsAre
<1>16. IsRawIndex(index') /\ Len(index'.plugins) <= MaxEntries
  <2>1. MaxEntries \in Nat
    BY DocumentsAssumption
  <2> QED BY <1>1, <1>8, <1>12, <1>13, <2>1 DEF IsRawIndex, s
<1>17. IsRawManifest(manifest')
  BY <1>1 DEF Documents
<1> QED BY <1>15, <1>16, <1>17 DEF Documents

\* So documents keep their fields and arrays.
LEMMA DocumentsKept == Spec => []Documents
<1>1. Init => Documents
  BY DocumentsAssumption DEF Init, Documents
<1>2. Documents /\ [Next]_vars => Documents'
  <2> SUFFICES ASSUME Documents, [Next]_vars PROVE Documents'
    OBVIOUS
  <2>1. CASE Validate
    BY <2>1 DEF Validate, Documents
  <2>2. CASE Repair
    BY <2>2, MendedIsRaw DEF Repair, Documents
  <2>3. ASSUME NEW h \in Hashes, NEW t \in Times, Package(h, t) PROVE Documents'
    BY <2>3, PackageWrites
  <2>4. CASE UNCHANGED vars
    BY <2>4 DEF vars, Documents
  <2> QED BY <2>1, <2>2, <2>3, <2>4 DEF Next
<1> QED BY <1>1, <1>2, PTL DEF Spec

\* TypeOK: a report names, at a place of the manifest, errors that a manifest
\* can have, whatever the manifest says; the index keeps within its bound.
THEOREM TypeCorrect == Spec => []TypeOK
<1> DEFINE Typed == /\ stage \in {"draft", "validated", "mended"}
                    /\ \A e \in report :
                         /\ e.error \in ManifestErrors
                         /\ \/ e.path = << >>
                            \/ e.path[1] \in {"manifest_schema_version", "plugin", "dependencies"}
                    /\ stage = "draft" => report = {}
<1>1. Init => Typed
  BY DEF Init
<1>2. Typed /\ [Next]_vars => Typed'
  <2> SUFFICES ASSUME Typed, [Next]_vars PROVE Typed'
    OBVIOUS
  <2>1. CASE Validate
    <3>1. report' = parse_toml(manifest) /\ stage' = "validated"
      BY <2>1 DEF Validate
    <3> QED BY <3>1, ErrorsTyped
  <2>2. CASE Repair
    BY <2>2 DEF Repair
  <2>3. ASSUME NEW h \in Hashes, NEW t \in Times, Package(h, t) PROVE Typed'
    BY <2>3 DEF Package
  <2>4. CASE UNCHANGED vars
    BY <2>4 DEF vars
  <2> HIDE DEF Typed
  <2> QED BY <2>1, <2>2, <2>3, <2>4 DEF Next
<1>3. Documents /\ Typed => TypeOK
  <2> SUFFICES ASSUME Documents, Typed PROVE TypeOK
    OBVIOUS
  <2>1. \A p \in PathsOf(report) \ {<< >>} :
          p[1] \in {"manifest_schema_version", "plugin", "dependencies"}
    BY DEF PathsOf
  <2>2. Len(index.plugins) \in 0 .. MaxEntries
    <3>1. Len(index.plugins) \in Nat
      BY ArrayIs DEF Documents, IsRawIndex
    <3> QED BY <3>1, DocumentsAssumption DEF Documents
  <2> QED BY <2>1, <2>2 DEF TypeOK
<1> HIDE DEF Typed
<1> QED BY <1>1, <1>2, <1>3, DocumentsKept, PTL DEF Spec

\* StaysReadable: package turns an index that parses into one that parses,
\* whatever the manifest, the index and Unicode normalization.
THEOREM RegistryStaysReadable == Spec => StaysReadable
<1>1. Documents /\ [Next]_vars => [parse_json(index) = {} => parse_json(index') = {}]_index
  <2> SUFFICES ASSUME Documents, [Next]_vars, index' # index
               PROVE  parse_json(index') = {}
    OBVIOUS
  <2>1. PICK h \in Hashes, t \in Times : Package(h, t)
    BY DEF Next, Validate, Repair, vars
  <2> QED BY <2>1, PackageWrites
<1> QED BY <1>1, DocumentsKept, PTL DEF Spec, StaysReadable

-----------------------------------------------------------------------------
(* Mending all that a report names.                                          *)

\* What is left to report of a manifest when each place with an error was
\* mended: dependencies that now, or at last, repeat each other.
LEMMA MendedFieldsPass ==
  ASSUME NEW m0, IsRawManifest(m0), NEW bad,
         \A path, error : FieldError(m0, path, error) => path \in bad,
         NEW m \in MendedManifests(m0, bad),
         NEW path, NEW error, FieldError(m, path, error)
  PROVE  error = "DuplicatePluginDependency"
<1> DEFINE Repeated == error = "DuplicatePluginDependency"
<1>1. ASSUME error \in validate(m.plugin.name)
      PROVE  Repeated
  <2> DEFINE at == <<"plugin", "name">>
  <2>1. m.plugin.name \in Mend("name", m0.plugin.name, at, bad)
    BY MendedFields
  <2>2. m.plugin.name \notin Mended["name"]
    BY <1>1, MendedAssumption
  <2>3. ASSUME m.plugin.name = m0.plugin.name PROVE FieldError(m0, at, error)
    BY <1>1, <2>3 DEF FieldError, PluginError
  <2> HIDE DEF at
  <2> QED BY <2>1, <2>2, <2>3 DEF Mend
<1>2. ASSUME m.plugin.version \notin Versions, error = "InvalidVersion"
      PROVE  Repeated
  <2> DEFINE at == <<"plugin", "version">>
  <2>1. m.plugin.version \in Mend("version", m0.plugin.version, at, bad)
    BY MendedFields
  <2>2. m.plugin.version \notin Mended["version"]
    BY <1>2, MendedAssumption
  <2>3. ASSUME m.plugin.version = m0.plugin.version PROVE FieldError(m0, at, error)
    BY <1>2, <2>3 DEF FieldError, PluginError
  <2> HIDE DEF at
  <2> QED BY <2>1, <2>2, <2>3 DEF Mend
<1>3. ASSUME error \in Description_try_new(m.plugin.description)
      PROVE  Repeated
  <2> DEFINE at == <<"plugin", "description">>
  <2>1. m.plugin.description \in Mend("description", m0.plugin.description, at, bad)
    BY MendedFields
  <2>2. m.plugin.description \notin Mended["description"]
    BY <1>3, MendedAssumption, DocumentsAssumption
  <2>3. ASSUME m.plugin.description = m0.plugin.description PROVE FieldError(m0, at, error)
    BY <1>3, <2>3 DEF FieldError, PluginError
  <2> HIDE DEF at
  <2> QED BY <2>1, <2>2, <2>3 DEF Mend
<1>4. ASSUME NEW f \in {"homepage", "repository", "documentation"},
             error \in parse_optional_http_url(m.plugin[f])
      PROVE  Repeated
  <2> DEFINE at == <<"plugin", f>>
  <2>1. m.plugin[f] \in Mend("link", m0.plugin[f], at, bad)
    BY MendedFields
  <2>2. m.plugin[f] \notin Mended["link"]
    BY <1>4, MendedAssumption
  <2>3. ASSUME m.plugin[f] = m0.plugin[f] PROVE FieldError(m0, at, error)
    BY <1>4, <2>3 DEF FieldError, PluginError
  <2> HIDE DEF at
  <2> QED BY <2>1, <2>2, <2>3 DEF Mend
<1>5. ASSUME m.plugin.triggers = << >>, error = "EmptyTriggers"
      PROVE  Repeated
  <2> DEFINE at == <<"plugin", "triggers">>
             s == m.plugin.triggers
             s0 == m0.plugin.triggers
  <2>1. s \in IF at \in bad THEN {<<t>> : t \in Mended["trigger"]}
              ELSE MendEach("trigger", s0, at, bad)
    BY MendedFields
  <2>2. ASSUME s0 = << >> PROVE FieldError(m0, at, error)
    BY <1>5, <2>2 DEF FieldError, TriggerError
  <2>3. DOMAIN s = {}
    BY <1>5
  <2>4. IsArray(s0)
    BY DEF IsRawManifest
  <2>5. \A t : <<t>> # << >>
    OBVIOUS
  <2> HIDE DEF at, s0
  <2>6. at \notin bad
    BY <1>5, <2>1, <2>5
  <2>7. DOMAIN s0 = {}
    BY <2>1, <2>3, <2>6 DEF MendEach
  <2> QED BY <2>2, <2>4, <2>6, <2>7, ArrayIs
<1>6. ASSUME NEW i \in DOMAIN m.plugin.triggers,
             error \in TriggerType_from_str(m.plugin.triggers[i])
      PROVE  Repeated
  <2> DEFINE at == <<"plugin", "triggers">>
             each(k) == <<"plugin", "triggers", k>>
             s == m.plugin.triggers
             s0 == m0.plugin.triggers
  <2>1. s \in IF at \in bad THEN {<<t>> : t \in Mended["trigger"]}
              ELSE MendEach("trigger", s0, at, bad)
    BY MendedFields
  <2>2. s[i] \notin Mended["trigger"]
    BY <1>6, MendedAssumption
  <2>3. CASE at \in bad
    <3>1. s \in {<<t>> : t \in Mended["trigger"]}
      BY <2>1, <2>3
    <3>2. PICK t \in Mended["trigger"] : s = <<t>>
      BY <3>1
    <3>3. s[i] = t
      BY <1>6, <3>2
    <3> QED BY <2>2, <3>2, <3>3
  <2>4. CASE at \notin bad
    <3>1. s \in MendEach("trigger", s0, at, bad)
      BY <2>1, <2>4
    <3>2. DOMAIN s = DOMAIN s0
      BY <3>1 DEF MendEach
    <3>3. s[i] \in Mend("trigger", s0[i], each(i), bad)
      BY <1>6, <3>1, <3>2, MendEachIs
    <3>4. ASSUME s[i] = s0[i] PROVE FieldError(m0, each(i), error)
      <4>1. i \in DOMAIN s0 /\ s0 # << >>
        BY <1>6, <3>2
      <4> QED BY <1>6, <3>4, <4>1 DEF FieldError, TriggerError
    <3> HIDE DEF at, each
    <3> QED BY <2>2, <3>3, <3>4 DEF Mend
  <2> QED BY <2>3, <2>4
<1>7. ASSUME m.dependencies.database_version \notin Ranges, error = "InvalidDatabaseVersion"
      PROVE  Repeated
  <2> DEFINE at == <<"dependencies", "database_version">>
  <2>1. m.dependencies.database_version \in Mend("range", m0.dependencies.database_version, at, bad)
    BY MendedFields
  <2>2. m.dependencies.database_version \notin Mended["range"]
    BY <1>7, MendedAssumption
  <2>3. ASSUME m.dependencies.database_version = m0.dependencies.database_version PROVE FieldError(m0, at, error)
    BY <1>7, <2>3 DEF FieldError, RequirementError
  <2> HIDE DEF at
  <2> QED BY <2>1, <2>2, <2>3 DEF Mend
<1>8. ASSUME NEW i \in DOMAIN m.dependencies.python,
             m.dependencies.python[i] \notin Requirements, error = "InvalidPythonRequirement"
      PROVE  Repeated
  <2> DEFINE each(k) == <<"dependencies", "python", k>>
             s == m.dependencies.python
             s0 == m0.dependencies.python
  <2>1. s \in MendEach("requirement", s0, <<"dependencies", "python">>, bad)
    BY MendedFields
  <2>2. DOMAIN s = DOMAIN s0
    BY <2>1 DEF MendEach
  <2>3. s[i] \in Mend("requirement", s0[i], each(i), bad)
    BY <1>8, <2>1, <2>2, MendEachIs
  <2>4. s[i] \notin Mended["requirement"]
    BY <1>8, MendedAssumption
  <2>5. ASSUME s[i] = s0[i] PROVE FieldError(m0, each(i), error)
    BY <1>8, <2>2, <2>5 DEF FieldError, RequirementError
  <2> HIDE DEF each
  <2> QED BY <2>3, <2>4, <2>5 DEF Mend
<1>9. ASSUME NEW k \in DOMAIN m.dependencies.plugins,
             DependencyError(m.dependencies.plugins, k, path, error)
      PROVE  Repeated
  <2> DEFINE s == m.dependencies.plugins
             s0 == m0.dependencies.plugins
             kept == {i \in DOMAIN s0 : <<"dependencies", "plugins", i>> \notin bad}
  <2>1. s \in MendedPluginDependencies(s0, <<"dependencies", "plugins">>, bad)
    BY MendedFields
  <2>2. PICK p \in Ascending(kept) :
          /\ s = [j \in DOMAIN p |-> s[j]]
          /\ \A j \in DOMAIN p :
               /\ p[j] \in kept
               /\ s[j].index_url \in Mend("index_url", s0[p[j]].index_url,
                                          <<"dependencies", "plugins", p[j], "index_url">>, bad)
               /\ s[j].name \in Mend("name", s0[p[j]].name,
                                     <<"dependencies", "plugins", p[j], "name">>, bad)
               /\ s[j].version \in Mend("range", s0[p[j]].version,
                                        <<"dependencies", "plugins", p[j], "version">>, bad)
    <3> HIDE DEF s, s0
    <3> QED BY <2>1, MendedDependenciesAre
  <2> DEFINE i == p[k]
             url == <<"dependencies", "plugins", i, "index_url">>
             name == <<"dependencies", "plugins", i, "name">>
             version == <<"dependencies", "plugins", i, "version">>
  <2>3. k \in DOMAIN p /\ i \in DOMAIN s0
    BY <1>9, <2>2
  <2>4. /\ s[k].index_url \in Mend("index_url", s0[i].index_url, url, bad)
        /\ s[k].name \in Mend("name", s0[i].name, name, bad)
        /\ s[k].version \in Mend("range", s0[i].version, version, bad)
    BY <2>2, <2>3
  <2> HIDE DEF i
  <2>5. CASE error \in IndexUrl_try_new(s[k].index_url)
    <3>1. s[k].index_url \notin Mended["index_url"]
      BY <2>5, MendedAssumption
    <3>2. ASSUME s[k].index_url = s0[i].index_url PROVE FieldError(m0, url, error)
      <4>1. DependencyError(s0, i, url, error)
        BY <2>5, <3>2 DEF DependencyError
      <4> QED BY <2>3, <4>1 DEF FieldError
    <3> HIDE DEF url
    <3> QED BY <2>4, <3>1, <3>2 DEF Mend
  <2>6. CASE error \in validate(s[k].name)
    <3>1. s[k].name \notin Mended["name"]
      BY <2>6, MendedAssumption
    <3>2. ASSUME s[k].name = s0[i].name PROVE FieldError(m0, name, error)
      <4>1. DependencyError(s0, i, name, error)
        BY <2>6, <3>2 DEF DependencyError
      <4> QED BY <2>3, <4>1 DEF FieldError
    <3> HIDE DEF name
    <3> QED BY <2>4, <3>1, <3>2 DEF Mend
  <2>7. CASE s[k].version \notin Ranges /\ error = "InvalidPluginDependencyVersion"
    <3>1. s[k].version \notin Mended["range"]
      BY <2>7, MendedAssumption
    <3>2. ASSUME s[k].version = s0[i].version PROVE FieldError(m0, version, error)
      <4>1. DependencyError(s0, i, version, error)
        BY <2>7, <3>2 DEF DependencyError
      <4> QED BY <2>3, <4>1 DEF FieldError
    <3> HIDE DEF version
    <3> QED BY <2>4, <3>1, <3>2 DEF Mend
  <2> QED BY <1>9, <2>5, <2>6, <2>7 DEF DependencyError
<1> HIDE DEF Repeated
<1>10. ASSUME PluginError(m.plugin, path, error) PROVE Repeated
  BY <1>1, <1>2, <1>3, <1>4, <1>10 DEF PluginError
<1>11. ASSUME TriggerError(m.plugin.triggers, path, error) PROVE Repeated
  BY <1>5, <1>6, <1>11 DEF TriggerError
<1>12. ASSUME RequirementError(m.dependencies, path, error) PROVE Repeated
  BY <1>7, <1>8, <1>12 DEF RequirementError
<1>13. Repeated
  BY <1>9, <1>10, <1>11, <1>12 DEF FieldError
<1> QED BY <1>13 DEF Repeated

\* Where a text has an error, there is one at its place.
LEMMA SomeError ==
  ASSUME NEW from, NEW X, X # {}
  PROVE  \E e \in At(from, X) : e.path = from
<1>1. PICK x \in X : TRUE
  OBVIOUS
<1>2. [path |-> from, error |-> x] \in At(from, X)
  BY DEF At
<1> QED BY <1>2

\* When no error is fatal, the report names the place of every error of a
\* field.
LEMMA FieldErrorsReported ==
  ASSUME NEW m, ~Fatal(parse_toml(m))
  PROVE  /\ m.wellformed /\ ManifestVersion_from_str(m.manifest_schema_version) = {}
         /\ << >> \notin PathsOf(parse_toml(m))
         /\ <<"manifest_schema_version">> \notin PathsOf(parse_toml(m))
         /\ \A path, error : FieldError(m, path, error) => path \in PathsOf(parse_toml(m))
<1> DEFINE R == parse_toml(m)
           version == ManifestVersion_from_str(m.manifest_schema_version)
           at == <<"manifest_schema_version">>
           root == << >>
<1>1. root \notin PathsOf(R) /\ at \notin PathsOf(R)
  BY DEF Fatal, PathsOf
<1>2. ASSUME ~m.wellformed PROVE FALSE
  <2> DEFINE X == {"TomlParse"}
  <2>1. R = At(root, X) /\ X # {}
    BY <1>2 DEF parse_toml
  <2> HIDE DEF R, X, root
  <2>2. \E e \in R : e.path = root
    BY <2>1, SomeError
  <2> QED BY <2>2 DEF Fatal, R, root
<1>3. ASSUME version # {} PROVE FALSE
  <2>1. R = At(at, version)
    BY <1>2, <1>3 DEF parse_toml
  <2>2. \E e \in R : e.path = at
    <3> HIDE DEF at, version, R
    <3> QED BY <1>3, <2>1, SomeError
  <2> HIDE DEF at
  <2>3. \E e \in parse_toml(m) : e.path = at
    BY <2>2
  <2> QED BY <2>3 DEF Fatal, at
<1>4. R = FieldErrors(m)
  BY <1>2, <1>3 DEF parse_toml, FieldErrors
<1>5. ASSUME NEW path, NEW error, FieldError(m, path, error) PROVE path \in PathsOf(R)
  <2> DEFINE e == [path |-> path, error |-> error]
  <2>1. IsReport(e) /\ e.path = path /\ e.error = error
    BY DEF IsReport
  <2> HIDE DEF e, R
  <2>2. e \in R
    BY <1>4, <1>5, <2>1, FieldErrorsAre
  <2> QED BY <2>1, <2>2 DEF PathsOf
<1> HIDE DEF R
<1> QED BY <1>1, <1>2, <1>3, <1>5 DEF R

\* The report on a manifest that was mended at all places of a report that
\* was not fatal.
LEMMA MendedReport ==
  ASSUME NEW m0, IsRawManifest(m0), ~Fatal(parse_toml(m0)),
         NEW m \in MendedManifests(m0, PathsOf(parse_toml(m0))), NEW e \in parse_toml(m)
  PROVE  e.error = "DuplicatePluginDependency"
<1> DEFINE bad == PathsOf(parse_toml(m0))
           root == << >>
           at == <<"manifest_schema_version">>
<1>1. /\ m0.wellformed /\ ManifestVersion_from_str(m0.manifest_schema_version) = {}
      /\ root \notin bad /\ at \notin bad
      /\ \A path, error : FieldError(m0, path, error) => path \in bad
  BY FieldErrorsReported
<1>2. /\ m.wellformed \in IF root \in bad THEN {TRUE} ELSE {m0.wellformed}
      /\ m.manifest_schema_version
           \in Mend("schema_version", m0.manifest_schema_version, at, bad)
  BY MendedFields
<1>3. m \in MendedManifests(m0, bad)
  OBVIOUS
<1> HIDE DEF bad, root, at
<1>4. m.wellformed /\ m.manifest_schema_version = m0.manifest_schema_version
  BY <1>1, <1>2 DEF Mend
<1>5. FieldError(m, e.path, e.error)
  BY <1>1, <1>4, ReportsAre
<1> QED BY <1>1, <1>3, <1>5, MendedFieldsPass

\* A report is of the manifest as it is; a manifest mended by it has repeated
\* dependencies to report at most.
Reported == stage = "validated" => report = parse_toml(manifest)

Mends ==
  stage = "mended" /\ ~Fatal(report) =>
    \A e \in parse_toml(manifest) : e.error = "DuplicatePluginDependency"

\* Both hold always.
LEMMA ReportsKept == Spec => [](Reported /\ Mends)
<1>1. Init => Reported /\ Mends
  BY DEF Init, Reported, Mends
<1>2. Documents /\ Reported /\ Mends /\ [Next]_vars => (Reported /\ Mends)'
  <2> SUFFICES ASSUME Documents, Reported, Mends, [Next]_vars PROVE (Reported /\ Mends)'
    OBVIOUS
  <2>1. CASE Validate
    BY <2>1 DEF Validate, Reported, Mends
  <2>2. CASE Repair
    <3>1. /\ report = parse_toml(manifest) /\ report' = report /\ stage' = "mended"
          /\ manifest' \in MendedManifests(manifest, PathsOf(report))
      BY <2>2 DEF Repair, Reported
    <3>2. ASSUME ~Fatal(report), NEW e \in parse_toml(manifest')
          PROVE  e.error = "DuplicatePluginDependency"
      BY <3>1, <3>2, MendedReport DEF Documents
    <3> QED BY <3>1, <3>2 DEF Reported, Mends
  <2>3. ASSUME NEW h \in Hashes, NEW t \in Times, Package(h, t) PROVE (Reported /\ Mends)'
    BY <2>3 DEF Package, Reported, Mends
  <2>4. CASE UNCHANGED vars
    BY <2>4 DEF vars, Reported, Mends
  <2> QED BY <2>1, <2>2, <2>3, <2>4 DEF Next
<1> QED BY <1>1, <1>2, DocumentsKept, PTL DEF Spec

\* OnePass: when syntax and schema version are in order, one report names all
\* there is to mend, up to dependencies that repeat each other only after it.
THEOREM OnePassIsEnough == Spec => OnePass
<1>1. Mends /\ [Next]_vars =>
        [stage = "mended" /\ stage' = "validated" /\ ~Fatal(report) =>
           \A e \in report' : e.error = "DuplicatePluginDependency"]_vars
  <2> SUFFICES ASSUME Mends, [Next]_vars, stage = "mended", stage' = "validated", ~Fatal(report)
               PROVE  \A e \in report' : e.error = "DuplicatePluginDependency"
    OBVIOUS
  <2>1. report' = parse_toml(manifest)
    BY DEF Next, Validate, Repair, Package, vars
  <2> QED BY <2>1 DEF Mends
<1> QED BY <1>1, ReportsKept, PTL DEF Spec, OnePass

-----------------------------------------------------------------------------
(* Mending all but one of the places that a report names.                    *)

\* Which errors can stand at the places of a dependency.
LEMMA DependencyPlaces ==
  ASSUME NEW m, NEW i, NEW error
  PROVE  /\ FieldError(m, <<"dependencies", "plugins", i>>, error)
              => RepeatsDependency(m.dependencies.plugins, i)
         /\ FieldError(m, <<"dependencies", "plugins", i, "index_url">>, error)
              => error \in IndexUrl_try_new(m.dependencies.plugins[i].index_url)
         /\ FieldError(m, <<"dependencies", "plugins", i, "name">>, error)
              => error \in validate(m.dependencies.plugins[i].name)
<1>1. ASSUME FieldError(m, <<"dependencies", "plugins", i>>, error)
      PROVE  RepeatsDependency(m.dependencies.plugins, i)
  BY <1>1 DEF FieldError, PluginError, TriggerError, RequirementError, DependencyError
<1>2. ASSUME FieldError(m, <<"dependencies", "plugins", i, "index_url">>, error)
      PROVE  error \in IndexUrl_try_new(m.dependencies.plugins[i].index_url)
  BY <1>2 DEF FieldError, PluginError, TriggerError, RequirementError, DependencyError
<1>3. ASSUME FieldError(m, <<"dependencies", "plugins", i, "name">>, error)
      PROVE  error \in validate(m.dependencies.plugins[i].name)
  BY <1>3 DEF FieldError, PluginError, TriggerError, RequirementError, DependencyError
<1> QED BY <1>1, <1>2, <1>3

\* The first items of a sequence.
LEMMA PrefixIs ==
  ASSUME NEW S, NEW s \in Seq(S), NEW u \in Seq(S), Len(u) <= Len(s),
         \A i \in 1 .. Len(u) : s[i] = u[i]
  PROVE  SubSeq(s, 1, Len(u)) = u
<1> DEFINE v == SubSeq(s, 1, Len(u))
<1>1. Len(u) \in Nat /\ Len(s) \in Nat /\ \A i \in 1 .. Len(u) : s[i] \in S
  OBVIOUS
<1>2. v \in Seq(S) /\ Len(v) = Len(u) /\ \A i \in 1 .. Len(u) : v[i] = s[i]
  BY <1>1, SubSeqProperties
<1> HIDE DEF v
<1>3. v = u
  BY <1>2, SeqEqual
<1> QED BY <1>3 DEF v

\* The places that stand around others.
LEMMA Around ==
  ASSUME NEW i, NEW f, NEW paths
  PROVE  /\ <<"plugin", "triggers">> \in paths
              => GoesWithAnother(<<"plugin", "triggers", i>>, paths)
         /\ <<"dependencies", "plugins", i>> \in paths
              => GoesWithAnother(<<"dependencies", "plugins", i, f>>, paths)
<1>1. ASSUME NEW a, NEW b, NEW c, <<a, b>> \in paths
      PROVE  GoesWithAnother(<<a, b, c>>, paths)
  <2> DEFINE S == {a, b, c}
             s == <<a, b, c>>
             u == <<a, b>>
  <2>1. s \in Seq(S) /\ u \in Seq(S)
    OBVIOUS
  <2>2. Len(u) = 2 /\ Len(s) = 3 /\ \A k \in 1 .. Len(u) : s[k] = u[k]
    OBVIOUS
  <2>3. u \in paths
    BY <1>1
  <2> HIDE DEF S, s, u
  <2>4. SubSeq(s, 1, 2) = u
    BY <2>1, <2>2, PrefixIs
  <2>5. GoesWithAnother(s, paths)
    <3> SUFFICES \E n \in 1 .. Len(s) - 1 : SubSeq(s, 1, n) \in paths
      BY DEF GoesWithAnother
    <3>1. 2 \in 1 .. Len(s) - 1
      BY <2>2
    <3> WITNESS 2 \in 1 .. Len(s) - 1
    <3> QED BY <2>3, <2>4
  <2> QED BY <2>5 DEF s
<1>2. ASSUME NEW a, NEW b, NEW c, NEW d, <<a, b, c>> \in paths
      PROVE  GoesWithAnother(<<a, b, c, d>>, paths)
  <2> DEFINE S == {a, b, c, d}
             s == <<a, b, c, d>>
             u == <<a, b, c>>
  <2>1. s \in Seq(S) /\ u \in Seq(S)
    OBVIOUS
  <2>2. Len(u) = 3 /\ Len(s) = 4 /\ \A k \in 1 .. Len(u) : s[k] = u[k]
    OBVIOUS
  <2>3. u \in paths
    BY <1>2
  <2> HIDE DEF S, s, u
  <2>4. SubSeq(s, 1, 3) = u
    BY <2>1, <2>2, PrefixIs
  <2>5. GoesWithAnother(s, paths)
    <3> SUFFICES \E n \in 1 .. Len(s) - 1 : SubSeq(s, 1, n) \in paths
      BY DEF GoesWithAnother
    <3>1. 3 \in 1 .. Len(s) - 1
      BY <2>2
    <3> WITNESS 3 \in 1 .. Len(s) - 1
    <3> QED BY <2>3, <2>4
  <2> QED BY <2>5 DEF s
<1> QED BY <1>1, <1>2

\* A dependency that is kept stands at a place of its own, with what of its
\* URL and name is not mended; two that are kept stand as they stood.
LEMMA KeptDependencies ==
  ASSUME NEW m0, IsRawManifest(m0), NEW bad, NEW m \in MendedManifests(m0, bad)
  PROVE  LET s0 == m0.dependencies.plugins
             s == m.dependencies.plugins
         IN  \E p :
               /\ \A i \in DOMAIN s0 :
                    <<"dependencies", "plugins", i>> \notin bad => \E k \in DOMAIN s : p[k] = i
               /\ \A k \in DOMAIN s :
                    /\ <<"dependencies", "plugins", p[k], "index_url">> \notin bad
                         => s[k].index_url = s0[p[k]].index_url
                    /\ <<"dependencies", "plugins", p[k], "name">> \notin bad
                         => s[k].name = s0[p[k]].name
                    /\ <<"dependencies", "plugins", p[k], "version">> \notin bad
                         => s[k].version = s0[p[k]].version
               /\ \A j, k \in DOMAIN s : p[j] < p[k] => j < k
               /\ DOMAIN s \subseteq Nat \ {0}
<1> DEFINE s0 == m0.dependencies.plugins
           s == m.dependencies.plugins
           kept == {i \in DOMAIN s0 : <<"dependencies", "plugins", i>> \notin bad}
<1>1. s \in MendedPluginDependencies(s0, <<"dependencies", "plugins">>, bad)
  BY MendedFields
<1>2. IsArray(s0)
  BY DEF IsRawManifest
<1>3. PICK p \in Ascending(kept) :
        /\ s = [k \in DOMAIN p |-> s[k]]
        /\ DOMAIN p = 1 .. Cardinality(kept)
        /\ \A k \in DOMAIN p :
             /\ p[k] \in kept
             /\ s[k].index_url \in Mend("index_url", s0[p[k]].index_url,
                                        <<"dependencies", "plugins", p[k], "index_url">>, bad)
             /\ s[k].name \in Mend("name", s0[p[k]].name,
                                   <<"dependencies", "plugins", p[k], "name">>, bad)
             /\ s[k].version \in Mend("range", s0[p[k]].version,
                                      <<"dependencies", "plugins", p[k], "version">>, bad)
  <2> HIDE DEF s, s0
  <2> QED BY <1>1, MendedDependenciesAre
<1>4. DOMAIN s = DOMAIN p
  <2> HIDE DEF s, s0, kept
  <2> QED BY <1>3
<1>5. ASSUME NEW i \in DOMAIN s0, <<"dependencies", "plugins", i>> \notin bad
      PROVE  \E k \in DOMAIN s : p[k] = i
  <2>1. i \in kept
    BY <1>5
  <2> HIDE DEF s, s0, kept
  <2> QED BY <1>3, <1>4, <2>1 DEF Ascending
<1>6. ASSUME NEW k \in DOMAIN s
      PROVE  /\ <<"dependencies", "plugins", p[k], "index_url">> \notin bad
                  => s[k].index_url = s0[p[k]].index_url
             /\ <<"dependencies", "plugins", p[k], "name">> \notin bad
                  => s[k].name = s0[p[k]].name
             /\ <<"dependencies", "plugins", p[k], "version">> \notin bad
                  => s[k].version = s0[p[k]].version
  <2> DEFINE url == <<"dependencies", "plugins", p[k], "index_url">>
             name == <<"dependencies", "plugins", p[k], "name">>
             version == <<"dependencies", "plugins", p[k], "version">>
  <2>1. /\ s[k].index_url \in Mend("index_url", s0[p[k]].index_url, url, bad)
        /\ s[k].name \in Mend("name", s0[p[k]].name, name, bad)
        /\ s[k].version \in Mend("range", s0[p[k]].version, version, bad)
    BY <1>3, <1>4
  <2> HIDE DEF url, name, version, s, s0
  <2>2. /\ url \notin bad => s[k].index_url = s0[p[k]].index_url
        /\ name \notin bad => s[k].name = s0[p[k]].name
        /\ version \notin bad => s[k].version = s0[p[k]].version
    BY <2>1 DEF Mend
  <2> QED BY <2>2 DEF url, name, version
<1>7. DOMAIN s \subseteq Nat \ {0} /\ \A k \in DOMAIN s : p[k] \in Nat
  <2>1. Cardinality(kept) \in Nat
    <3>1. kept \in SUBSET DOMAIN s0
      OBVIOUS
    <3> HIDE DEF kept, s0
    <3> QED BY <1>2, <3>1, KeptFinite
  <2>2. DOMAIN s0 \subseteq Nat
    <3> HIDE DEF s0
    <3> QED BY <1>2, ArrayIs
  <2>3. kept \subseteq Nat
    BY <2>2
  <2> DEFINE n == Cardinality(kept)
  <2>4. DOMAIN s = 1 .. n /\ \A k \in DOMAIN s : p[k] \in kept
    <3> HIDE DEF s, s0, kept
    <3> QED BY <1>3, <1>4
  <2>5. n \in Nat
    BY <2>1
  <2> HIDE DEF s, s0, kept, n
  <2>6. DOMAIN s \subseteq Nat \ {0}
    <3>1. \A k \in 1 .. n : k \in Nat \ {0}
      BY <2>5
    <3> QED BY <2>4, <3>1
  <2>7. \A k \in DOMAIN s : p[k] \in Nat
    BY <2>3, <2>4
  <2> QED BY <2>6, <2>7
<1>8. ASSUME NEW j \in DOMAIN s, NEW k \in DOMAIN s, p[j] < p[k]
      PROVE  j < k
  <2>1. j \in Nat /\ k \in Nat /\ p[j] \in Nat /\ p[k] \in Nat
    BY <1>7
  <2>2. k < j => p[k] < p[j]
    <3> HIDE DEF s, s0, kept
    <3> QED BY <1>3, <1>4 DEF Ascending
  <2>3. p[j] # p[k]
    BY <1>8, <2>1
  <2> HIDE DEF s
  <2> QED BY <1>8, <2>1, <2>2, <2>3
<1> HIDE DEF s, s0, kept
<1>9. \E q :
        /\ \A i \in DOMAIN s0 :
             <<"dependencies", "plugins", i>> \notin bad => \E k \in DOMAIN s : q[k] = i
        /\ \A k \in DOMAIN s :
             /\ <<"dependencies", "plugins", q[k], "index_url">> \notin bad
                  => s[k].index_url = s0[q[k]].index_url
             /\ <<"dependencies", "plugins", q[k], "name">> \notin bad
                  => s[k].name = s0[q[k]].name
             /\ <<"dependencies", "plugins", q[k], "version">> \notin bad
                  => s[k].version = s0[q[k]].version
        /\ \A j, k \in DOMAIN s : q[j] < q[k] => j < k
        /\ DOMAIN s \subseteq Nat \ {0}
  <2> WITNESS p
  <2> QED BY <1>5, <1>6, <1>7, <1>8
<1> QED BY <1>9 DEF s, s0

\* Among the dependencies that are kept, the first one after another with the
\* same key repeats it still: no error names the URL or the name of either.
LEMMA RepeatIsKept ==
  ASSUME NEW m0, IsRawManifest(m0), NEW bad,
         \A path \in bad : \E error : FieldError(m0, path, error),
         NEW m \in MendedManifests(m0, bad),
         NEW i \in DOMAIN m0.dependencies.plugins,
         RepeatsDependency(m0.dependencies.plugins, i),
         <<"dependencies", "plugins", i>> \notin bad
  PROVE  \E k \in DOMAIN m.dependencies.plugins : RepeatsDependency(m.dependencies.plugins, k)
<1> DEFINE s0 == m0.dependencies.plugins
           s == m.dependencies.plugins
           at(x) == <<"dependencies", "plugins", x>>
           url(x) == <<"dependencies", "plugins", x, "index_url">>
           name(x) == <<"dependencies", "plugins", x, "name">>
           Earlier == {x \in 1 .. i - 1 : KeyParses(s0[x]) /\ KeyOf(s0[x]) = KeyOf(s0[i])}
<1>1. DOMAIN s0 = 1 .. Len(s0) /\ Len(s0) \in Nat
  <2>1. IsArray(s0)
    BY DEF IsRawManifest
  <2> HIDE DEF s0
  <2> QED BY <2>1, ArrayIs
<1>2. KeyParses(s0[i]) /\ Earlier # {}
  BY DEF RepeatsDependency
<1>3. PICK j \in Earlier : \A x \in Earlier : j <= x
  <2>1. Earlier \subseteq Nat
    BY <1>1
  <2> HIDE DEF Earlier
  <2>2. PICK x \in Earlier : TRUE
    BY <1>2
  <2> QED BY <2>1, <2>2, LeastNatural
<1>4. /\ j \in DOMAIN s0 /\ j < i /\ i \in Nat /\ j \in Nat
      /\ KeyParses(s0[j]) /\ KeyOf(s0[j]) = KeyOf(s0[i])
  BY <1>1, <1>3
<1>5. ~RepeatsDependency(s0, j)
  <2> SUFFICES ASSUME NEW x \in 1 .. j - 1, KeyParses(s0[x]), KeyOf(s0[x]) = KeyOf(s0[j])
               PROVE  FALSE
    BY DEF RepeatsDependency
  <2>1. x \in Earlier /\ x < j
    BY <1>4
  <2> HIDE DEF Earlier
  <2> QED BY <1>3, <1>4, <2>1
<1> HIDE DEF Earlier
<1>6. at(j) \notin bad
  <2>1. \A error : ~FieldError(m0, at(j), error)
    BY <1>5, DependencyPlaces
  <2> HIDE DEF at
  <2> QED BY <2>1
<1>7. ASSUME NEW x, KeyParses(s0[x]) PROVE url(x) \notin bad /\ name(x) \notin bad
  <2>1. \A error : ~FieldError(m0, url(x), error) /\ ~FieldError(m0, name(x), error)
    BY <1>7, DependencyPlaces DEF KeyParses
  <2> HIDE DEF url, name
  <2> QED BY <2>1
<1>8. PICK p :
        /\ \A x \in DOMAIN s0 : at(x) \notin bad => \E k \in DOMAIN s : p[k] = x
        /\ \A k \in DOMAIN s :
             /\ url(p[k]) \notin bad => s[k].index_url = s0[p[k]].index_url
             /\ name(p[k]) \notin bad => s[k].name = s0[p[k]].name
             /\ <<"dependencies", "plugins", p[k], "version">> \notin bad
                  => s[k].version = s0[p[k]].version
        /\ \A k, l \in DOMAIN s : p[k] < p[l] => k < l
        /\ DOMAIN s \subseteq Nat \ {0}
  BY KeptDependencies
<1>9. at(i) \notin bad
  OBVIOUS
<1> HIDE DEF s0, s, at, url, name
<1>10. PICK k \in DOMAIN s, l \in DOMAIN s : p[k] = j /\ p[l] = i
  <2>1. i \in DOMAIN s0
    BY DEF s0
  <2> QED BY <1>4, <1>6, <1>8, <1>9, <2>1
<1>11. /\ s[k].index_url = s0[j].index_url /\ s[k].name = s0[j].name
       /\ s[l].index_url = s0[i].index_url /\ s[l].name = s0[i].name
  BY <1>2, <1>4, <1>7, <1>8, <1>10
<1>12. KeyParses(s[k]) /\ KeyParses(s[l]) /\ KeyOf(s[k]) = KeyOf(s[l])
  BY <1>2, <1>4, <1>11 DEF KeyParses, KeyOf
<1>13. k \in 1 .. l - 1
  BY <1>4, <1>8, <1>10
<1>14. RepeatsDependency(s, l)
  BY <1>12, <1>13 DEF RepeatsDependency
<1> QED BY <1>14 DEF s

\* A manifest that keeps one of the errors of its fields, when all that a
\* report names besides is mended, is refused.
LEMMA OneKeptRefuses ==
  ASSUME NEW m0, IsRawManifest(m0), NEW paths,
         \A path \in paths : \E error : FieldError(m0, path, error),
         NEW path, NEW error, FieldError(m0, path, error), ~GoesWithAnother(path, paths),
         NEW m \in MendedManifests(m0, paths \ {path})
  PROVE  parse_toml(m) # {}
<1> DEFINE bad == paths \ {path}
           Refused == parse_toml(m) # {}
<1>0. path \notin bad /\ bad \subseteq paths
  OBVIOUS
<1>1. ASSUME path = <<"plugin", "name">>, error \in validate(m0.plugin.name)
      PROVE  Refused
  <2> DEFINE at == <<"plugin", "name">>
  <2>1. m.plugin.name \in Mend("name", m0.plugin.name, at, bad)
    BY MendedFields
  <2>2. ASSUME m.plugin.name = m0.plugin.name PROVE FieldError(m, at, error)
    BY <1>1, <2>2 DEF FieldError, PluginError
  <2>3. path = at
    BY <1>1
  <2> HIDE DEF at, bad
  <2>4. FieldError(m, at, error)
    BY <1>0, <2>1, <2>2, <2>3 DEF Mend
  <2> QED BY <2>4, FieldErrorsRefuse
<1>2. ASSUME path = <<"plugin", "version">>, m0.plugin.version \notin Versions, error = "InvalidVersion"
      PROVE  Refused
  <2> DEFINE at == <<"plugin", "version">>
  <2>1. m.plugin.version \in Mend("version", m0.plugin.version, at, bad)
    BY MendedFields
  <2>2. ASSUME m.plugin.version = m0.plugin.version PROVE FieldError(m, at, error)
    BY <1>2, <2>2 DEF FieldError, PluginError
  <2>3. path = at
    BY <1>2
  <2> HIDE DEF at, bad
  <2>4. FieldError(m, at, error)
    BY <1>0, <2>1, <2>2, <2>3 DEF Mend
  <2> QED BY <2>4, FieldErrorsRefuse
<1>3. ASSUME path = <<"plugin", "description">>, error \in Description_try_new(m0.plugin.description)
      PROVE  Refused
  <2> DEFINE at == <<"plugin", "description">>
  <2>1. m.plugin.description \in Mend("description", m0.plugin.description, at, bad)
    BY MendedFields
  <2>2. ASSUME m.plugin.description = m0.plugin.description PROVE FieldError(m, at, error)
    BY <1>3, <2>2 DEF FieldError, PluginError
  <2>3. path = at
    BY <1>3
  <2> HIDE DEF at, bad
  <2>4. FieldError(m, at, error)
    BY <1>0, <2>1, <2>2, <2>3 DEF Mend
  <2> QED BY <2>4, FieldErrorsRefuse
<1>4. ASSUME NEW f \in {"homepage", "repository", "documentation"},
             path = <<"plugin", f>>, error \in parse_optional_http_url(m0.plugin[f])
      PROVE  Refused
  <2> DEFINE at == <<"plugin", f>>
  <2>1. m.plugin[f] \in Mend("link", m0.plugin[f], at, bad)
    BY MendedFields
  <2>2. ASSUME m.plugin[f] = m0.plugin[f] PROVE FieldError(m, at, error)
    BY <1>4, <2>2 DEF FieldError, PluginError
  <2>3. path = at
    BY <1>4
  <2> HIDE DEF at, bad
  <2>4. FieldError(m, at, error)
    BY <1>0, <2>1, <2>2, <2>3 DEF Mend
  <2> QED BY <2>4, FieldErrorsRefuse
<1>5. ASSUME path = <<"plugin", "triggers">>, m0.plugin.triggers = << >>, error = "EmptyTriggers"
      PROVE  Refused
  <2> DEFINE at == <<"plugin", "triggers">>
             s == m.plugin.triggers
             s0 == m0.plugin.triggers
  <2>1. s \in IF at \in bad THEN {<<t>> : t \in Mended["trigger"]}
              ELSE MendEach("trigger", s0, at, bad)
    BY MendedFields
  <2>2. ASSUME s = << >> PROVE FieldError(m, at, error)
    BY <1>5, <2>2 DEF FieldError, TriggerError
  <2>3. path = at /\ DOMAIN s0 = {}
    BY <1>5
  <2>4. IsArray(s)
    BY MendedIsRaw DEF IsRawManifest
  <2> HIDE DEF at, s, s0, bad
  <2>5. DOMAIN s = {}
    BY <1>0, <2>1, <2>3 DEF MendEach
  <2>6. FieldError(m, at, error)
    BY <2>2, <2>4, <2>5, ArrayIs
  <2> QED BY <2>6, FieldErrorsRefuse
<1>6. ASSUME NEW i \in DOMAIN m0.plugin.triggers, m0.plugin.triggers # << >>,
             path = <<"plugin", "triggers", i>>,
             error \in TriggerType_from_str(m0.plugin.triggers[i])
      PROVE  Refused
  <2> DEFINE at == <<"plugin", "triggers">>
             each(k) == <<"plugin", "triggers", k>>
             s == m.plugin.triggers
             s0 == m0.plugin.triggers
  <2>1. s \in IF at \in bad THEN {<<t>> : t \in Mended["trigger"]}
              ELSE MendEach("trigger", s0, at, bad)
    BY MendedFields
  <2>2. at \notin paths
    BY <1>6, Around
  <2>3. path = each(i)
    BY <1>6
  <2>4. s \in MendEach("trigger", s0, at, bad)
    <3> HIDE DEF at, bad
    <3> QED BY <1>0, <2>1, <2>2
  <2>5. DOMAIN s = DOMAIN s0
    BY <2>4 DEF MendEach
  <2>6. s[i] \in Mend("trigger", s0[i], each(i), bad)
    BY <1>6, <2>4, MendEachIs
  <2>7. ASSUME s[i] = s0[i] PROVE FieldError(m, each(i), error)
    <3>1. i \in DOMAIN s /\ s # << >>
      BY <1>6, <2>5
    <3> QED BY <1>6, <2>7, <3>1 DEF FieldError, TriggerError
  <2> HIDE DEF each, bad, s, s0
  <2>8. FieldError(m, each(i), error)
    BY <1>0, <2>3, <2>6, <2>7 DEF Mend
  <2> QED BY <2>8, FieldErrorsRefuse
<1>7. ASSUME path = <<"dependencies", "database_version">>, m0.dependencies.database_version \notin Ranges, error = "InvalidDatabaseVersion"
      PROVE  Refused
  <2> DEFINE at == <<"dependencies", "database_version">>
  <2>1. m.dependencies.database_version \in Mend("range", m0.dependencies.database_version, at, bad)
    BY MendedFields
  <2>2. ASSUME m.dependencies.database_version = m0.dependencies.database_version PROVE FieldError(m, at, error)
    BY <1>7, <2>2 DEF FieldError, RequirementError
  <2>3. path = at
    BY <1>7
  <2> HIDE DEF at, bad
  <2>4. FieldError(m, at, error)
    BY <1>0, <2>1, <2>2, <2>3 DEF Mend
  <2> QED BY <2>4, FieldErrorsRefuse
<1>8. ASSUME NEW i \in DOMAIN m0.dependencies.python, path = <<"dependencies", "python", i>>,
             m0.dependencies.python[i] \notin Requirements, error = "InvalidPythonRequirement"
      PROVE  Refused
  <2> DEFINE each(k) == <<"dependencies", "python", k>>
             s == m.dependencies.python
             s0 == m0.dependencies.python
  <2>1. s \in MendEach("requirement", s0, <<"dependencies", "python">>, bad)
    BY MendedFields
  <2>2. DOMAIN s = DOMAIN s0
    BY <2>1 DEF MendEach
  <2>3. s[i] \in Mend("requirement", s0[i], each(i), bad)
    BY <1>8, <2>1, <2>2, MendEachIs
  <2>4. path = each(i)
    BY <1>8
  <2>5. ASSUME s[i] = s0[i] PROVE FieldError(m, each(i), error)
    BY <1>8, <2>2, <2>5 DEF FieldError, RequirementError
  <2> HIDE DEF each, bad, s, s0
  <2>6. FieldError(m, each(i), error)
    BY <1>0, <2>3, <2>4, <2>5 DEF Mend
  <2> QED BY <2>6, FieldErrorsRefuse
<1>9. ASSUME NEW i \in DOMAIN m0.dependencies.plugins,
             DependencyError(m0.dependencies.plugins, i, path, error)
      PROVE  Refused
  <2> DEFINE s0 == m0.dependencies.plugins
             s == m.dependencies.plugins
             at == <<"dependencies", "plugins", i>>
             place(x, f) == <<"dependencies", "plugins", x, f>>
  <2>1. ASSUME path = at, RepeatsDependency(s0, i)
        PROVE  Refused
    <3>1. \A x \in bad : \E err : FieldError(m0, x, err)
      OBVIOUS
    <3>2. at \notin bad
      BY <2>1
    <3>3. \E k \in DOMAIN s : RepeatsDependency(s, k)
      <4> HIDE DEF bad
      <4> QED BY <2>1, <3>1, <3>2, RepeatIsKept DEF bad
    <3>4. PICK k \in DOMAIN s : RepeatsDependency(s, k)
      BY <3>3
    <3> DEFINE it == <<"dependencies", "plugins", k>>
    <3>5. DependencyError(s, k, it, "DuplicatePluginDependency")
      BY <3>4 DEF DependencyError
    <3>6. FieldError(m, it, "DuplicatePluginDependency")
      BY <3>5 DEF FieldError
    <3> QED BY <3>6, FieldErrorsRefuse
  <2>2. ASSUME NEW f, path = place(i, f)
        PROVE  \E k \in DOMAIN s :
                 /\ f = "index_url" => s[k].index_url = s0[i].index_url
                 /\ f = "name" => s[k].name = s0[i].name
                 /\ f = "version" => s[k].version = s0[i].version
    <3>1. at \notin bad
      BY <2>2, Around
    <3>2. PICK p :
            /\ \A x \in DOMAIN s0 :
                 <<"dependencies", "plugins", x>> \notin bad => \E k \in DOMAIN s : p[k] = x
            /\ \A k \in DOMAIN s :
                 /\ <<"dependencies", "plugins", p[k], "index_url">> \notin bad
                      => s[k].index_url = s0[p[k]].index_url
                 /\ <<"dependencies", "plugins", p[k], "name">> \notin bad
                      => s[k].name = s0[p[k]].name
                 /\ <<"dependencies", "plugins", p[k], "version">> \notin bad
                      => s[k].version = s0[p[k]].version
            /\ \A j, k \in DOMAIN s : p[j] < p[k] => j < k
            /\ DOMAIN s \subseteq Nat \ {0}
      BY KeptDependencies
    <3>3. PICK k \in DOMAIN s : p[k] = i
      <4>1. i \in DOMAIN s0
        OBVIOUS
      <4> HIDE DEF s0, s, bad
      <4> QED BY <3>1, <3>2, <4>1
    <3>4. /\ place(i, "index_url") \notin bad => s[k].index_url = s0[i].index_url
          /\ place(i, "name") \notin bad => s[k].name = s0[i].name
          /\ place(i, "version") \notin bad => s[k].version = s0[i].version
      BY <3>2, <3>3
    <3>5. path = place(i, f)
      BY <2>2
    <3> HIDE DEF place, s, s0, bad
    <3>6. place(i, f) \notin bad
      BY <1>0, <3>5
    <3> QED BY <3>4, <3>6
  <2>3. ASSUME NEW f, NEW k \in DOMAIN s, DependencyError(s, k, place(k, f), error)
        PROVE  Refused
    <3>1. FieldError(m, place(k, f), error)
      BY <2>3 DEF FieldError
    <3> QED BY <3>1, FieldErrorsRefuse
  <2>4. ASSUME path = place(i, "index_url"), error \in IndexUrl_try_new(s0[i].index_url)
        PROVE  Refused
    <3>1. PICK k \in DOMAIN s : s[k].index_url = s0[i].index_url
      BY <2>2, <2>4
    <3>2. DependencyError(s, k, place(k, "index_url"), error)
      BY <2>4, <3>1 DEF DependencyError
    <3> QED BY <2>3, <3>2
  <2>5. ASSUME path = place(i, "name"), error \in validate(s0[i].name)
        PROVE  Refused
    <3>1. PICK k \in DOMAIN s : s[k].name = s0[i].name
      BY <2>2, <2>5
    <3>2. DependencyError(s, k, place(k, "name"), error)
      BY <2>5, <3>1 DEF DependencyError
    <3> QED BY <2>3, <3>2
  <2>6. ASSUME path = place(i, "version"), s0[i].version \notin Ranges,
               error = "InvalidPluginDependencyVersion"
        PROVE  Refused
    <3>1. PICK k \in DOMAIN s : s[k].version = s0[i].version
      BY <2>2, <2>6
    <3>2. DependencyError(s, k, place(k, "version"), error)
      BY <2>6, <3>1 DEF DependencyError
    <3> QED BY <2>3, <3>2
  <2> HIDE DEF Refused
  <2> QED BY <1>9, <2>1, <2>4, <2>5, <2>6 DEF DependencyError
<1> HIDE DEF Refused
<1>10. ASSUME PluginError(m0.plugin, path, error) PROVE Refused
  BY <1>1, <1>2, <1>3, <1>4, <1>10 DEF PluginError
<1>11. ASSUME TriggerError(m0.plugin.triggers, path, error) PROVE Refused
  BY <1>5, <1>6, <1>11 DEF TriggerError
<1>12. ASSUME RequirementError(m0.dependencies, path, error) PROVE Refused
  BY <1>7, <1>8, <1>12 DEF RequirementError
<1>13. Refused
  BY <1>9, <1>10, <1>11, <1>12 DEF FieldError
<1> QED BY <1>13 DEF Refused

\* The same of all three kinds of error.
LEMMA OneErrorRefuses ==
  ASSUME NEW m0, IsRawManifest(m0), NEW e \in parse_toml(m0),
         ~GoesWithAnother(e.path, PathsOf(parse_toml(m0))),
         NEW m \in MendedManifests(m0, PathsOf(parse_toml(m0)) \ {e.path})
  PROVE  parse_toml(m) # {}
<1> DEFINE paths == PathsOf(parse_toml(m0))
           p == e.path
           bad == paths \ {p}
           root == << >>
           at == <<"manifest_schema_version">>
           version == ManifestVersion_from_str(m.manifest_schema_version)
<1>1. /\ m.wellformed \in IF root \in bad THEN {TRUE} ELSE {m0.wellformed}
      /\ m.manifest_schema_version
           \in Mend("schema_version", m0.manifest_schema_version, at, bad)
  <2>1. m \in MendedManifests(m0, bad)
    OBVIOUS
  <2> HIDE DEF bad
  <2> QED BY <2>1, MendedFields
<1>2. p \notin bad
  OBVIOUS
<1>3. ASSUME ~m.wellformed PROVE parse_toml(m) # {}
  BY <1>3, NoErrors DEF parse_toml
<1>4. ASSUME m.wellformed, version # {} PROVE parse_toml(m) # {}
  <2>1. parse_toml(m) = At(at, version)
    BY <1>4 DEF parse_toml
  <2> HIDE DEF at, version
  <2> QED BY <1>4, <2>1, NoErrors
<1>5. CASE ~m0.wellformed /\ p = root
  <2> HIDE DEF root, bad, p
  <2>1. m.wellformed = m0.wellformed
    BY <1>1, <1>2, <1>5
  <2> QED BY <1>3, <1>5, <2>1
<1>6. CASE p = at /\ e.error \in ManifestVersion_from_str(m0.manifest_schema_version)
  <2> HIDE DEF at, bad, p
  <2>1. m.manifest_schema_version = m0.manifest_schema_version
    BY <1>1, <1>2, <1>6 DEF Mend
  <2>2. version # {}
    BY <1>6, <2>1
  <2> QED BY <1>3, <1>4, <2>2
<1>7. CASE /\ m0.wellformed /\ ManifestVersion_from_str(m0.manifest_schema_version) = {}
           /\ FieldError(m0, p, e.error)
  <2>1. parse_toml(m0) = FieldErrors(m0)
    BY <1>7 DEF parse_toml, FieldErrors
  <2>2. \A path \in paths : \E error : FieldError(m0, path, error)
    BY <2>1, FieldErrorsAre DEF PathsOf
  <2>3. ~GoesWithAnother(p, paths) /\ m \in MendedManifests(m0, paths \ {p})
    OBVIOUS
  <2> HIDE DEF paths, p
  <2> QED BY <1>7, <2>2, <2>3, OneKeptRefuses
<1> QED BY <1>5, <1>6, <1>7, ReportsAre

\* EveryErrorCounts: each error of a report stands for a defect of its own,
\* which mending all the rest does not mend, whatever texts the author takes.
THEOREM NoFalseAlarm == Spec => []EveryErrorCounts
<1>1. Documents /\ Reported => EveryErrorCounts
  <2> SUFFICES ASSUME Documents, Reported, stage = "validated", NEW p \in PathsOf(report),
                      ~GoesWithAnother(p, PathsOf(report)),
                      NEW m \in MendedManifests(manifest, PathsOf(report) \ {p})
               PROVE  parse_toml(m) # {}
    BY DEF EveryErrorCounts
  <2>1. report = parse_toml(manifest) /\ IsRawManifest(manifest)
    BY DEF Reported, Documents
  <2>2. PICK e \in report : e.path = p
    BY DEF PathsOf
  <2> QED BY <2>1, <2>2, OneErrorRefuses
<1> QED BY <1>1, DocumentsKept, ReportsKept, PTL

-----------------------------------------------------------------------------
(* The texts of hashes and times.                                            *)

\* The sixteen nibbles have sixteen different digits.
LEMMA Nibbles ==
  /\ \A n \in 0 .. 15 : IsLowerHex(nibble_to_hex(n))
  /\ \A m, n \in 0 .. 15 : nibble_to_hex(m) = nibble_to_hex(n) => m = n
BY DEF nibble_to_hex, IsLowerHex, IsDigit, Digit

\* A byte is its two nibbles.
LEMMA Halves ==
  ASSUME NEW b \in Byte
  PROVE  b \div 16 \in 0 .. 15 /\ b % 16 \in 0 .. 15 /\ b = 16 * (b \div 16) + (b % 16)
BY DEF Byte

\* The hexadecimal form of a digest: 64 digits, two for each byte.
LEMMA Hex ==
  ASSUME NEW digest \in Digest
  PROVE  /\ Len(digest) = 32
         /\ encode_lowercase_hex(digest) \in Seq(Int)
         /\ Len(encode_lowercase_hex(digest)) = 64
         /\ \A k \in 1 .. 32 :
              /\ encode_lowercase_hex(digest)[2 * k - 1] = nibble_to_hex(digest[k] \div 16)
              /\ encode_lowercase_hex(digest)[2 * k] = nibble_to_hex(digest[k] % 16)
         /\ \A i \in 1 .. 64 : IsLowerHex(encode_lowercase_hex(digest)[i])
<1> DEFINE hex == encode_lowercase_hex(digest)
           half(i) == IF i % 2 = 1 THEN digest[(i + 1) \div 2] \div 16
                                   ELSE digest[(i + 1) \div 2] % 16
<1>1. Len(digest) = 32
  BY DEF Digest
<1>2. hex = [i \in 1 .. 64 |-> nibble_to_hex(half(i))]
  BY <1>1 DEF encode_lowercase_hex
<1>3. \A i \in 1 .. 64 : half(i) \in 0 .. 15
  <2>1. \A i \in 1 .. 64 : digest[(i + 1) \div 2] \in Byte
    BY DEF Digest
  <2> QED BY <2>1, Halves
<1>4. \A i \in 1 .. 64 : hex[i] = nibble_to_hex(half(i))
  BY <1>2
<1>5. \A i \in 1 .. 64 : IsLowerHex(hex[i]) /\ hex[i] \in Int
  <2> HIDE DEF half, hex
  <2>1. \A i \in 1 .. 64 : IsLowerHex(hex[i])
    BY <1>3, <1>4, Nibbles
  <2> QED BY <2>1 DEF IsLowerHex, IsDigit, Digit
<1>6. \A k \in 1 .. 32 : /\ half(2 * k - 1) = digest[k] \div 16
                         /\ half(2 * k) = digest[k] % 16
  OBVIOUS
<1>7. \A k \in 1 .. 32 : 2 * k - 1 \in 1 .. 64 /\ 2 * k \in 1 .. 64
  OBVIOUS
<1>8. hex \in Seq(Int) /\ Len(hex) = 64
  <2> HIDE DEF hex, half
  <2>1. hex \in [1 .. 64 -> Int]
    BY <1>2, <1>5
  <2>2. \A f \in [1 .. 64 -> Int] : f \in Seq(Int) /\ Len(f) = 64
    <3> SUFFICES ASSUME NEW f \in [1 .. 64 -> Int] PROVE f \in Seq(Int) /\ Len(f) = 64
      OBVIOUS
    <3>1. f \in Seq(Int)
      BY SeqDef
    <3>2. DOMAIN f = 1 .. 64
      OBVIOUS
    <3> QED BY <3>1, <3>2, LenProperties
  <2> QED BY <2>1, <2>2
<1>9. \A k \in 1 .. 32 : /\ hex[2 * k - 1] = nibble_to_hex(digest[k] \div 16)
                         /\ hex[2 * k] = nibble_to_hex(digest[k] % 16)
  <2> HIDE DEF hex, half
  <2> QED BY <1>4, <1>6, <1>7
<1>10. \A i \in 1 .. 64 : IsLowerHex(hex[i])
  BY <1>5
<1> HIDE DEF hex, half
<1> QED BY <1>1, <1>8, <1>9, <1>10 DEF hex

\* hash.rs: "digest is always canonical form", so sha256_of_bytes and
\* zero_hash do not panic, and two digests have two texts.
THEOREM DigestsAreCanonical ==
  /\ ArtifactHash_accepts(zero_hash)
  /\ \A digest \in Digest : ArtifactHash_accepts(sha256_text(digest))
  /\ \A d, e \in Digest : sha256_text(d) = sha256_text(e) => d = e
<1>1. PREFIX \in Seq(Int) /\ Len(PREFIX) = 7
  BY DEF PREFIX
<1>2. ASSUME NEW hex \in Seq(Int), Len(hex) = 64, \A i \in 1 .. 64 : IsLowerHex(hex[i])
      PROVE  ArtifactHash_accepts(PREFIX \o hex)
  <2> DEFINE raw == PREFIX \o hex
  <2>1. /\ Len(raw) = 71
        /\ \A i \in 1 .. 71 : raw[i] = IF i <= 7 THEN PREFIX[i] ELSE hex[i - 7]
    <3>1. /\ Len(raw) = Len(PREFIX) + Len(hex)
          /\ \A i \in 1 .. Len(PREFIX) + Len(hex) :
               raw[i] = IF i <= Len(PREFIX) THEN PREFIX[i] ELSE hex[i - Len(PREFIX)]
      <4>1. \A u, v \in Seq(Int) :
              /\ Len(u \o v) = Len(u) + Len(v)
              /\ \A i \in 1 .. Len(u) + Len(v) :
                   (u \o v)[i] = IF i <= Len(u) THEN u[i] ELSE v[i - Len(u)]
        BY ConcatProperties
      <4> QED BY <1>1, <1>2, <4>1, Zenon
    <3> HIDE DEF raw
    <3> QED BY <1>1, <1>2, <3>1
  <2> HIDE DEF raw
  <2>2. ASSUME NEW i \in 8 .. 71 PROVE IsLowerHex(raw[i])
    <3>1. i - 7 \in 1 .. 64 /\ i \in 1 .. 71 /\ ~(i <= 7)
      BY <2>2
    <3>2. raw[i] = hex[i - 7]
      BY <2>1, <3>1
    <3> QED BY <1>2, <3>1, <3>2
  <2>3. ASSUME NEW i \in 1 .. 7 PROVE raw[i] = PREFIX[i]
    <3>1. i \in 1 .. 71 /\ i <= 7
      BY <2>3
    <3> QED BY <2>1, <3>1
  <2>4. /\ Len(raw) = Len(PREFIX) + 64
        /\ 1 .. Len(PREFIX) = 1 .. 7 /\ Len(PREFIX) + 1 .. Len(raw) = 8 .. 71
    BY <1>1, <2>1
  <2>5. ArtifactHash_accepts(raw)
    BY <2>2, <2>3, <2>4 DEF ArtifactHash_accepts
  <2> QED BY <2>5 DEF raw
<1>3. ArtifactHash_accepts(zero_hash)
  <2> DEFINE zeros == [i \in 1 .. 64 |-> Digit(0)]
  <2>1. zeros \in Seq(Int) /\ Len(zeros) = 64
    BY DEF Digit
  <2>2. \A i \in 1 .. 64 : IsLowerHex(zeros[i])
    BY DEF IsLowerHex, IsDigit, Digit
  <2> HIDE DEF zeros
  <2> QED BY <1>2, <2>1, <2>2 DEF zero_hash, zeros
<1>4. \A digest \in Digest : ArtifactHash_accepts(sha256_text(digest))
  BY <1>2, Hex DEF sha256_text
<1>5. ASSUME NEW d \in Digest, NEW e \in Digest, sha256_text(d) = sha256_text(e)
      PROVE  d = e
  <2> DEFINE x == encode_lowercase_hex(d)
             y == encode_lowercase_hex(e)
  <2>1. x \in Seq(Int) /\ Len(x) = 64 /\ y \in Seq(Int) /\ Len(y) = 64
    BY Hex
  <2>2. \A i \in 1 .. 64 : x[i] = y[i]
    <3>1. PREFIX \o x = PREFIX \o y
      BY <1>5 DEF sha256_text
    <3> HIDE DEF x, y
    <3>2. x = y
      BY <1>1, <2>1, <3>1, ConcatSimplifications
    <3> QED BY <3>2
  <2>3. \A k \in 1 .. 32 : d[k] = e[k]
    <3>1. SUFFICES ASSUME NEW k \in 1 .. 32 PROVE d[k] = e[k]
      OBVIOUS
    <3>2. d[k] \in Byte /\ e[k] \in Byte
      BY DEF Digest
    <3>3. 2 * k - 1 \in 1 .. 64 /\ 2 * k \in 1 .. 64
      OBVIOUS
    <3>4. /\ nibble_to_hex(d[k] \div 16) = nibble_to_hex(e[k] \div 16)
          /\ nibble_to_hex(d[k] % 16) = nibble_to_hex(e[k] % 16)
      <4>1. x[2 * k - 1] = nibble_to_hex(d[k] \div 16) /\ x[2 * k] = nibble_to_hex(d[k] % 16)
        BY <3>1, Hex
      <4>2. y[2 * k - 1] = nibble_to_hex(e[k] \div 16) /\ y[2 * k] = nibble_to_hex(e[k] % 16)
        BY <3>1, Hex
      <4> HIDE DEF x, y
      <4>3. x[2 * k - 1] = y[2 * k - 1] /\ x[2 * k] = y[2 * k]
        BY <2>2, <3>3
      <4> QED BY <4>1, <4>2, <4>3
    <3>5. d[k] \div 16 = e[k] \div 16 /\ d[k] % 16 = e[k] % 16
      BY <3>2, <3>4, Halves, Nibbles
    <3> QED BY <3>2, <3>5, Halves
  <2> QED BY <2>3 DEF Digest
<1> QED BY <1>3, <1>4, <1>5

-----------------------------------------------------------------------------

\* Two decimal digits give back what was written with them.
LEMMA TwoDigits ==
  ASSUME NEW n \in 0 .. 99
  PROVE  /\ IsDigit(Tens(n)) /\ IsDigit(Ones(n))
         /\ 10 * (Tens(n) - Digit(0)) + Ones(n) - Digit(0) = n
BY DEF Tens, Ones, IsDigit, Digit

\* So do four.
LEMMA FourDigits ==
  ASSUME NEW n \in Int, 0 <= n, n <= 9999
  PROVE  /\ IsDigit(Thousands(n)) /\ IsDigit(Hundreds(n))
         /\ IsDigit(Tens(n)) /\ IsDigit(Ones(n))
         /\ 100 * (10 * (Thousands(n) - Digit(0)) + Hundreds(n) - Digit(0))
              + (10 * (Tens(n) - Digit(0)) + Ones(n) - Digit(0)) = n
<1> DEFINE q == n \div 100
           r == n % 100
<1>1. q \in 0 .. 99 /\ r \in 0 .. 99 /\ n = 100 * q + r
  <2>1. r \in 0 .. 99
    OBVIOUS
  <2>2. n = 100 * q + r /\ q \in Int
    OBVIOUS
  <2> HIDE DEF q, r
  <2>3. q \in 0 .. 99
    BY <2>1, <2>2
  <2> QED BY <2>1, <2>2, <2>3
<1> HIDE DEF q, r
<1>2. n \div 100 = q /\ n \div 1000 = q \div 10
  BY <1>1
<1>3. (n \div 10) % 10 = r \div 10 /\ n % 10 = r % 10
  BY <1>1
<1> DEFINE a == q \div 10
           b == q % 10
           c == r \div 10
           d == r % 10
<1>4. /\ a \in 0 .. 9 /\ b \in 0 .. 9 /\ q = 10 * a + b
      /\ c \in 0 .. 9 /\ d \in 0 .. 9 /\ r = 10 * c + d
  BY <1>1
<1>5. /\ Thousands(n) = 48 + a /\ Hundreds(n) = 48 + b
      /\ Tens(n) = 48 + c /\ Ones(n) = 48 + d /\ n = 1000 * a + 100 * b + 10 * c + d
  BY <1>1, <1>2, <1>3, <1>4 DEF Digit, Thousands, Hundreds, Tens, Ones
<1> HIDE DEF a, b, c, d
<1> QED BY <1>4, <1>5 DEF IsDigit, Digit

\* index.rs: from_utc_datetime writes, without asking try_new, a text that
\* try_new accepts and that gives back every field: an entry that package adds
\* never makes the next parse_json of the index fail on its published_at.
THEOREM TimesAreReadable ==
  ASSUME NEW t \in DateTime, NEW raw \in from_utc_datetime(t)
  PROVE  /\ PublishedAt_accepts(raw)
         /\ Year(raw) = t.year /\ Two(raw, 6) = t.month /\ Two(raw, 9) = t.day
         /\ Two(raw, 12) = t.hour /\ Two(raw, 15) = t.minute /\ Two(raw, 18) = t.second
<1>1. /\ t.year \in Int /\ 0 <= t.year /\ t.year <= 9999
      /\ t.month \in 1 .. 12 /\ t.day \in 1 .. 31
      /\ t.hour \in 0 .. 23 /\ t.minute \in 0 .. 59 /\ t.second \in 0 .. 59
  BY DEF DateTime, from_utc_datetime
<1>2. IsTime(t.year, t.month, t.day, t.hour, t.minute, t.second)
  BY DEF DateTime
<1>3. raw = <<Thousands(t.year), Hundreds(t.year), Tens(t.year), Ones(t.year),
              Dash, Tens(t.month), Ones(t.month), Dash, Tens(t.day), Ones(t.day),
              T, Tens(t.hour), Ones(t.hour), Colon, Tens(t.minute), Ones(t.minute),
              Colon, Tens(t.second), Ones(t.second), Z>>
  BY DEF from_utc_datetime
<1>4. /\ IsDigit(Thousands(t.year)) /\ IsDigit(Hundreds(t.year))
      /\ IsDigit(Tens(t.year)) /\ IsDigit(Ones(t.year))
      /\ 100 * (10 * (Thousands(t.year) - Digit(0)) + Hundreds(t.year) - Digit(0))
           + (10 * (Tens(t.year) - Digit(0)) + Ones(t.year) - Digit(0)) = t.year
  BY <1>1, FourDigits
<1>5. /\ t.month \in 0 .. 99 /\ t.day \in 0 .. 99 /\ t.hour \in 0 .. 99
      /\ t.minute \in 0 .. 99 /\ t.second \in 0 .. 99
  BY <1>1
<1>6. /\ IsDigit(Tens(t.month)) /\ IsDigit(Ones(t.month))
      /\ IsDigit(Tens(t.day)) /\ IsDigit(Ones(t.day))
      /\ IsDigit(Tens(t.hour)) /\ IsDigit(Ones(t.hour))
      /\ IsDigit(Tens(t.minute)) /\ IsDigit(Ones(t.minute))
      /\ IsDigit(Tens(t.second)) /\ IsDigit(Ones(t.second))
  BY <1>5, TwoDigits
<1>7. has_cargo_pubtime_shape(raw)
  BY <1>3, <1>4, <1>6 DEF has_cargo_pubtime_shape
<1>8. Year(raw) = t.year
  BY <1>3, <1>4 DEF Year, Two
<1>9. /\ Two(raw, 6) = t.month /\ Two(raw, 9) = t.day
      /\ Two(raw, 12) = t.hour /\ Two(raw, 15) = t.minute /\ Two(raw, 18) = t.second
  BY <1>5, <1>3, TwoDigits DEF Two
<1> QED BY <1>2, <1>7, <1>8, <1>9 DEF PublishedAt_accepts

=============================================================================
