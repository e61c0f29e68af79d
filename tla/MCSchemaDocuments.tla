-------------------------- MODULE MCSchemaDocuments --------------------------
(* Manifests with up to two places changed, for TLC.                        *)
EXTENDS SchemaDocuments

NameText(stem, upper, hyphen, length) ==
  [stem |-> stem, upper |-> upper, hyphen |-> hyphen, length |-> length,
   letter_first |-> length > 0, word_rest |-> TRUE]

FooBar   == NameText(2, FALSE, TRUE, 7)                \* foo-bar
RespellF == NameText(2, TRUE, FALSE, 7)                \* Foo_bar
Baz      == NameText(1, FALSE, FALSE, 64)              \* of full length
Nul      == NameText(3, TRUE, FALSE, 3)                \* NUL
TooLongN == NameText(1, FALSE, FALSE, 65)
Empty    == NameText(0, FALSE, FALSE, 0)
Digit    == [NameText(2, FALSE, FALSE, 7) EXCEPT !.letter_first = FALSE]
Dotted   == [NameText(2, FALSE, FALSE, 7) EXCEPT !.word_rest = FALSE]

MCNames == {[stem |-> n.stem, upper |-> n.upper, hyphen |-> n.hyphen] :
              n \in {FooBar, RespellF, Baz}}

V1 == [release |-> 1, build |-> 0]
V2 == [release |-> 2, build |-> 0]
MCVersions == {V1, V2}
BadVersion == [release |-> 0, build |-> 0]

DescriptionText(length, nfc, one_line) ==
  [length |-> length, nfc |-> nfc, one_line |-> one_line]

Full    == DescriptionText(200, 200, TRUE)
Shrinks == DescriptionText(201, 200, TRUE)   \* in NFC it would fit
Grows   == DescriptionText(200, 201, TRUE)   \* in NFC it does not fit
Lines   == DescriptionText(201, 201, FALSE)
NoText  == DescriptionText(0, 0, TRUE)
Short   == DescriptionText(10, 9, TRUE)

MCDescriptions == {Full, Grows, Short, [Short EXCEPT !.length = 9]}
MCTooLong == DescriptionText(201, 201, TRUE)
MCNfc == [d \in MCDescriptions |->
            IF d.nfc > 200 THEN MCTooLong ELSE [d EXCEPT !.length = d.nfc]]

Version(wellformed, major) ==
  [wellformed |-> wellformed, major |-> major, minor |-> 0]

Url(parses, scheme, url) == [parses |-> parses, scheme |-> scheme, url |-> url]

Home == Url(TRUE, "https", "home")
RegA == Url(TRUE, "https", "a")
RegB == Url(TRUE, "file", "b")
Ftp  == Url(TRUE, "ftp", "a")
NoUrl == Url(FALSE, "", "a")

Dep(url, name, range) == [index_url |-> url, name |-> name, version |-> range]

Base ==
  [wellformed |-> TRUE, manifest_schema_version |-> Version(TRUE, 1),
   plugin |-> [name |-> FooBar, version |-> V1, description |-> Short,
               triggers |-> <<"process_writes">>,
               homepage |-> {}, repository |-> {}, documentation |-> {}],
   dependencies |-> [database_version |-> "range", python |-> << >>, plugins |-> << >>]]

Changes(m) ==
  {[m EXCEPT !.wellformed = FALSE]}
  \cup {[m EXCEPT !.manifest_schema_version = t] : t \in {Version(TRUE, 2), Version(FALSE, 1)}}
  \cup {[m EXCEPT !.plugin.name = n] :
          n \in {RespellF, Baz, Nul, TooLongN, Empty, Digit, Dotted}}
  \cup {[m EXCEPT !.plugin.version = v] : v \in {V2, BadVersion}}
  \cup {[m EXCEPT !.plugin.description = d] : d \in {Full, Shrinks, Grows, Lines, NoText}}
  \cup {[m EXCEPT !.plugin.triggers = s] :
          s \in {<< >>, <<"process_reads">>, <<"process_request", "process_reads">>}}
  \cup {[m EXCEPT !.plugin.homepage = {u}] : u \in {Home, Ftp, [Home EXCEPT !.scheme = "http"]}}
  \cup {[m EXCEPT !.plugin.repository = {NoUrl}], [m EXCEPT !.plugin.documentation = {RegB}]}
  \cup {[m EXCEPT !.dependencies.database_version = "nonsense"]}
  \cup {[m EXCEPT !.dependencies.python = s] :
          s \in {<<"requests">>, <<"requests", ">=1">>}}
  \cup {[m EXCEPT !.dependencies.plugins = s] :
          s \in {<<Dep(RegA, FooBar, "range"), Dep(RegA, RespellF, "range")>>,
                 <<Dep(RegA, Baz, "range"), Dep(RegA, Baz, "nonsense"), Dep(RegA, Baz, "range")>>,
                 <<Dep(RegA, FooBar, "nonsense"), Dep(RegB, FooBar, "range")>>,
                 <<Dep(Ftp, Baz, "range"), Dep(RegA, Baz, "nonsense")>>,
                 <<Dep(RegA, Digit, "range"), Dep(RegA, Digit, "range")>>,
                 <<Dep(NoUrl, Baz, "range"), Dep(Ftp, Nul, "range")>>}}

MCDrafts == {Base} \cup Changes(Base) \cup UNION {Changes(m) : m \in Changes(Base)}

MCMended ==
  [kind \in {"schema_version", "name", "version", "description", "trigger", "link",
             "index_url", "range", "requirement"} |->
     CASE kind = "schema_version" -> {Version(TRUE, 1)}
       [] kind = "name" -> {FooBar, Baz}
       [] kind = "version" -> {V2}
       [] kind = "description" -> {Full, Grows}
       [] kind = "trigger" -> {"process_request"}
       [] kind = "link" -> {{}, {Home}}
       [] kind = "index_url" -> {RegA, RegB}
       [] kind = "range" -> {"range"}
       [] kind = "requirement" -> {"requests"}]

Document(version, plugins) ==
  [wellformed |-> TRUE, index_schema_version |-> version,
   artifacts_url |-> RegB, plugins |-> plugins]

\* An index of an earlier minor version that lists one plugin; one with an
\* entry that does not parse; one of a later major version.
MCRegistries ==
  LET listed == RawEntry(Base, "h1", "t1")
  IN  {Document(Version(TRUE, 2), <<listed>>),
       Document(Version(TRUE, 2),
                <<[listed EXCEPT !.description = NoText, !.hash = "md5"]>>),
       Document(Version(TRUE, 3), << >>)}

\* The texts of Times and Hashes, as the tool writes them: turns of months and
\* years, and digests with every nibble.
Texts == INSTANCE WireTexts

ASSUME TimesAssumption ==
  \A year \in {0, 4, 1900, 2000, 2023, 2024, 9999}, month \in 1 .. 12, day \in 28 .. 31 :
    Texts!IsTime(year, month, day, 23, 59, 59) =>
      \A raw \in Texts!from_utc_datetime(
           [year |-> year, month |-> month, day |-> day,
            hour |-> 23, minute |-> 59, second |-> 59]) :
        Texts!PublishedAt_accepts(raw) /\ Texts!Year(raw) = year /\ Texts!Two(raw, 9) = day

ASSUME HashesAssumption ==
  \A first \in Texts!Byte :
    Texts!ArtifactHash_accepts(Texts!sha256_text([i \in 1 .. 32 |-> (first + i) % 256]))

=============================================================================
