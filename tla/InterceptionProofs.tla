------------------------- MODULE InterceptionProofs -------------------------
(***************************************************************************)
(* What interception rests on: the authority that signs for the hosts, the *)
(* shell's block that trusts it, and the rules a decrypted request passes. *)
(*                                                                         *)
(* PairMatches, for every number of concurrent runs, alone and beside the  *)
(* commands that install and uninstall the block, is not inductive: it     *)
(* says nothing of a run that is on its way to the key.  PairInv adds that *)
(* such a run owns the certificate, and that there is no key before it has *)
(* one.                                                                    *)
(*                                                                         *)
(* AuthorityKept and MessagesKept, for every configuration, CONNECT,       *)
(* request and response, need what a stage has found out: RulesInv.        *)
(*                                                                         *)
(* UserLinesKept, for any number of commands, needs what the commands that *)
(* are under way have in common, ShellInv: one text without a block, which *)
(* what they write, and the file, begin with and only add lines to that    *)
(* are not the user's.                                                     *)
(***************************************************************************)
EXTENDS ShellIntegration, RequestRules, SequenceFacts

Stages == {"cert absent", "key absent", "create cert", "write cert", "create key",
           "write key", "end"}
Files == {NoFile} \union [of : Runs, whole : BOOLEAN]

AuthorityTypeOK ==
  /\ at \in [Runs -> Stages]
  /\ cert \in Files /\ key \in Files /\ disturbed \in BOOLEAN

\* What a run that has got so far may count on.
OnTheWay(r) ==
  /\ at[r] = "create cert" /\ key # NoFile => cert # NoFile
  /\ at[r] \in {"write cert", "create key"} => cert.of = r /\ key = NoFile
  /\ at[r] = "write key" => cert.of = r /\ key.of = r

PairInv ==
  /\ AuthorityTypeOK
  /\ disturbed \/ (PairMatches /\ \A r \in Runs : OnTheWay(r))

-----------------------------------------------------------------------------
\* The name that stands for no file is no run.
LEMMA FileOwner ==
  /\ NoFile \in Files /\ NoFile.of \notin Runs
  /\ \A r \in Runs :
       /\ Empty(r) \in Files /\ Empty(r).of = r /\ Empty(r) # NoFile
       /\ Whole(r) \in Files /\ Whole(r).of = r /\ Whole(r) # NoFile
BY RunsAssumption DEF NoFile, Empty, Whole, Files

\* A run writes what it has created: the owner stays.
LEMMA StepOfARun ==
  ASSUME PairInv, NEW r \in Runs,
         \/ CertAbsent(r) \/ KeyAbsent(r) \/ CreateCert(r) \/ WriteCert(r)
         \/ CreateKey(r) \/ WriteKey(r) \/ StopRun(r)
  PROVE  PairInv'
<1> USE FileOwner DEF PairInv, AuthorityTypeOK, PairMatches, OnTheWay, Goes, Stages
<1>1. CASE CertAbsent(r)
  BY <1>1 DEF CertAbsent, FindAbsent
<1>2. CASE KeyAbsent(r)
  <2>1. /\ at[r] = "key absent" /\ UNCHANGED <<cert, key, disturbed>>
        /\ \/ at' = [at EXCEPT ![r] = "end"]
           \/ key = NoFile /\ at' = [at EXCEPT ![r] = "create cert"]
    BY <1>2 DEF KeyAbsent, FindAbsent
  <2>2. AuthorityTypeOK'
    BY <2>1
  <2>3. ASSUME ~disturbed, NEW q \in Runs
        PROVE  OnTheWay(q)'
    <3>1. /\ OnTheWay(q)
          /\ at'[q] \in {at[q], "end"} \/ (key = NoFile /\ at'[q] = "create cert")
      BY <2>1, <2>3
    <3> QED
      BY <2>1, <3>1
  <2>4. ASSUME ~disturbed
        PROVE  PairMatches'
    BY <2>1, <2>4
  <2> QED
    BY <2>1, <2>2, <2>3, <2>4
<1>3. CASE CreateCert(r)
  <2>1. Empty(r) \in Files /\ Empty(r).of = r /\ Empty(r) # NoFile
    OBVIOUS
  <2>2. CASE cert = NoFile
    <3>1. at[r] = "create cert" /\ at' = [at EXCEPT ![r] = "write cert"] /\ cert' = Empty(r)
      BY <1>3, <2>2 DEF CreateCert, Creatable
    <3>2. AuthorityTypeOK'
      BY <1>3, <2>1, <3>1 DEF CreateCert
    <3>3. ASSUME ~disturbed, NEW q \in Runs
          PROVE  OnTheWay(q)'
      BY <1>3, <2>1, <2>2, <3>1, <3>3 DEF CreateCert
    <3>4. ASSUME ~disturbed
          PROVE  PairMatches'
      BY <1>3, <2>1, <2>2, <3>1, <3>4 DEF CreateCert
    <3> QED
      BY <1>3, <3>2, <3>3, <3>4 DEF CreateCert
  <2>3. CASE cert # NoFile
    BY <1>3, <2>3 DEF CreateCert, Creatable
  <2> QED
    BY <2>2, <2>3
<1>4. CASE WriteCert(r)
  BY <1>4 DEF WriteCert
<1>5. CASE CreateKey(r)
  <2>1. Empty(r) \in Files /\ Empty(r).of = r /\ Empty(r) # NoFile
    OBVIOUS
  <2>2. CASE key = NoFile
    <3>1. at[r] = "create key" /\ at' = [at EXCEPT ![r] = "write key"] /\ key' = Empty(r)
      BY <1>5, <2>2 DEF CreateKey, Creatable
    <3>2. AuthorityTypeOK'
      BY <1>5, <2>1, <3>1 DEF CreateKey
    <3>3. ASSUME ~disturbed, NEW q \in Runs
          PROVE  OnTheWay(q)'
      <4>1. cert.of = r /\ cert # NoFile /\ OnTheWay(q) /\ cert' = cert
        <5>1. cert' = cert /\ OnTheWay(q) /\ OnTheWay(r) /\ at[r] = "create key"
          BY <1>5, <3>1, <3>3 DEF CreateKey
        <5>2. cert.of = r
          BY <5>1
        <5> QED
          BY <5>1, <5>2
      <4>2. CASE q = r
        BY <2>1, <3>1, <4>1, <4>2
      <4>3. CASE q # r
        <5>1. at'[q] = at[q] /\ at[q] \notin {"write cert", "create key", "write key"}
          BY <3>1, <4>1, <4>3
        <5> QED
          BY <4>1, <5>1
      <4> QED
        BY <4>2, <4>3
    <3>4. ASSUME ~disturbed
          PROVE  PairMatches'
      BY <1>5, <2>1, <2>2, <3>1, <3>4 DEF CreateKey
    <3> QED
      BY <1>5, <3>2, <3>3, <3>4 DEF CreateKey
  <2>3. CASE key # NoFile
    BY <1>5, <2>3 DEF CreateKey, Creatable
  <2> QED
    BY <2>2, <2>3
<1>6. CASE WriteKey(r)
  BY <1>6 DEF WriteKey
<1>7. CASE StopRun(r)
  BY <1>7 DEF StopRun
<1> QED
  BY <1>1, <1>2, <1>3, <1>4, <1>5, <1>6, <1>7

\* The operator may delete anything while nothing is under way.
LEMMA StepOfTheOperator ==
  ASSUME PairInv, Delete
  PROVE  PairInv'
BY FileOwner DEF PairInv, AuthorityTypeOK, PairMatches, OnTheWay, Delete, Stages

\* init_ca, in any number of processes: a certificate and a key that are both
\* there are of one run, and a run on its way owns the certificate.
THEOREM PairInvariant == AuthoritySpec => []PairInv
<1>1. AuthorityInit => PairInv
  BY FileOwner DEF AuthorityInit, PairInv, AuthorityTypeOK, PairMatches, OnTheWay, Stages
<1>2. PairInv /\ [AuthorityNext]_authority => PairInv'
  <2> SUFFICES ASSUME PairInv, [AuthorityNext]_authority
               PROVE  PairInv'
    OBVIOUS
  <2>1. CASE UNCHANGED authority
    BY <2>1 DEF authority, PairInv, AuthorityTypeOK, PairMatches, OnTheWay
  <2>2. CASE AuthorityNext
    BY <2>2, StepOfARun, StepOfTheOperator DEF AuthorityNext
  <2> QED
    BY <2>1, <2>2
<1> QED
  BY <1>1, <1>2, PTL DEF AuthoritySpec

\* PairMatches (init_ca refuses to overwrite): no two runs make a pair whose
\* key is not the certificate's, unless a file is deleted under a run.
THEOREM PairAlwaysMatches == AuthoritySpec => []PairMatches
<1>1. PairInv /\ ~disturbed => PairMatches
  BY DEF PairInv
<1>2. PairInv => PairMatches
  BY <1>1 DEF PairMatches, PairInv
<1> QED
  BY <1>2, PairInvariant, PTL

-----------------------------------------------------------------------------
(* Beside install and uninstall.                                           *)

\* install and uninstall (codex_env.rs) look at the certificate and leave both
\* files as they are: what the authority's files go through beside them is what
\* they go through without them.
THEOREM SetupIsAuthority == Spec => AuthoritySpec
<1>1. Init => AuthorityInit
  BY DEF Init
<1>2. [Next]_vars => [AuthorityNext]_authority
  BY DEF Next, vars
<1> QED
  BY <1>1, <1>2, PTL DEF Spec, AuthoritySpec

\* PairMatches of the whole set-up: any number of runs of init_ca, of commands
\* and of edits of the shell file, interrupted wherever they may be.
THEOREM PairMatchesInSetup == Spec => []PairMatches
BY SetupIsAuthority, PairAlwaysMatches, PTL

-----------------------------------------------------------------------------
(* The rules of a decrypted request.                                       *)

\* What handle_connect lets through to the checks.
Intercepted ==
  connect # Nothing /\ connect.host.marks = {} /\ connect.port \notin {"none", "bad"}

Accepted ==
  /\ request \in Requests
  /\ verdict = Check(request) /\ verdict \in {"forward", "websocket"}

Rewritten == IF verdict = "forward" THEN UpstreamRequest(request) ELSE UpstreamUpgrade(request)

Answered == IF verdict = "websocket" /\ response.status = "101"
            THEN ClientSwitch(response) ELSE ClientResponse(response)

RulesInv ==
  /\ stage = "connect" => Validate(config)
  /\ stage \in {"check", "forward", "respond"} => Intercepted
  /\ stage \in {"forward", "respond"} => Accepted
  /\ stage \in {"load", "connect", "check", "forward"} => ~Forwarded
  /\ stage = "respond" \/ Forwarded => Intercepted /\ Accepted /\ upstream = Rewritten
  /\ answer # Nothing => Forwarded /\ response \in Responses /\ answer = Answered

\* Each action establishes what the next one counts on.
THEOREM RulesInvariant == RulesSpec => []RulesInv
<1>1. RulesInit => RulesInv
  BY DEF RulesInit, RulesInv, Forwarded
<1>2. RulesInv /\ [RulesNext]_rules => RulesInv'
  <2> SUFFICES ASSUME RulesInv, [RulesNext]_rules
               PROVE  RulesInv'
    OBVIOUS
  <2> USE DEF RulesInv, Forwarded
  <2>1. CASE LoadConfig
    BY <2>1 DEF LoadConfig
  <2>2. CASE Connect
    <3>1. stage = "connect" /\ upstream = Nothing /\ answer = Nothing /\ Validate(config)
      BY <2>2 DEF Connect
    <3>2. stage' \in {"check", "end"} /\ upstream' = Nothing /\ answer' = Nothing
      BY <2>2, <3>1 DEF Connect
    <3>3. ASSUME stage' = "check"
          PROVE  Intercepted'
      <4>1. PICK asked \in Connects :
              /\ connect' = ParseAuthority(asked, "443") /\ connect' # Nothing
              /\ ConnectAction(config, connect'.host) = "mitm"
        BY <2>2, <3>3 DEF Connect
      <4>2. connect'.host \in config.allow_hosts
        BY <4>1 DEF ConnectAction
      <4>3. connect'.host.marks = {}
        BY <3>1, <4>2 DEF Validate, ValidateAllowHost
      <4>4. connect'.port \notin {"none", "bad"}
        BY <4>1 DEF ParseAuthority
      <4> QED
        BY <4>1, <4>3, <4>4 DEF Intercepted
    <3> QED
      BY <3>2, <3>3
  <2>3. CASE CheckRequest
    <3>1. stage = "check" /\ upstream = Nothing /\ answer = Nothing /\ Intercepted
      BY <2>3 DEF CheckRequest
    <3>2. /\ stage' \in {"forward", "end"} /\ upstream' = Nothing /\ answer' = Nothing
          /\ UNCHANGED <<config, connect>>
      BY <2>3, <3>1 DEF CheckRequest
    <3>3. Intercepted'
      BY <3>1, <3>2 DEF Intercepted
    <3>4. ASSUME stage' = "forward"
          PROVE  Accepted'
      <4>1. /\ request' \in Requests /\ verdict' = Check(request')
            /\ verdict' \in {"forward", "websocket"}
        BY <2>3, <3>4 DEF CheckRequest
      <4>2. Check(request)' = Check(request')
        BY <3>2 DEF Check, ValidAuthority, EachHostMatches, AuthorityMatches
      <4> QED
        BY <4>1, <4>2 DEF Accepted
    <3> QED
      BY <3>2, <3>3, <3>4
  <2>4. CASE Forward
    <3>1. /\ stage = "forward" /\ stage' = "respond" /\ upstream' = Rewritten
          /\ UNCHANGED <<config, connect, request, verdict, response, answer>>
      BY <2>4 DEF Forward, Rewritten
    <3>2. Intercepted /\ Accepted /\ answer = Nothing
      BY <3>1
    <3>3. Intercepted'
      BY <3>1, <3>2 DEF Intercepted
    <3>4. Accepted'
      BY <3>1, <3>2 DEF Accepted, Check, ValidAuthority, EachHostMatches, AuthorityMatches
    <3>5. Rewritten' = Rewritten
      BY <3>1 DEF Rewritten, UpstreamRequest, UpstreamUpgrade, AddedHost, HostHeader
    <3> QED
      BY <3>1, <3>2, <3>3, <3>4, <3>5
  <2>5. CASE Respond
    <3>1. /\ stage = "respond" /\ stage' = "end"
          /\ response' \in Responses
          /\ UNCHANGED <<config, connect, request, verdict, upstream>>
      BY <2>5 DEF Respond
    <3>2. Intercepted /\ Accepted /\ upstream = Rewritten
      BY <3>1
    <3>3. Intercepted'
      BY <3>1, <3>2 DEF Intercepted
    <3>4. Accepted'
      BY <3>1, <3>2 DEF Accepted, Check, ValidAuthority, EachHostMatches, AuthorityMatches
    <3>5. Rewritten' = Rewritten
      BY <3>1 DEF Rewritten, UpstreamRequest, UpstreamUpgrade, AddedHost, HostHeader
    <3>6. answer' = Answered'
      BY <2>5, <3>1 DEF Respond, Answered
    <3>7. upstream # Nothing
      BY <3>2 DEF Rewritten, UpstreamRequest, UpstreamUpgrade, Nothing
    <3> QED
      BY <3>1, <3>2, <3>3, <3>4, <3>5, <3>6, <3>7
  <2>6. CASE UNCHANGED rules
    <3>1. UNCHANGED <<stage, config, connect, request, verdict, upstream, response, answer>>
      BY <2>6 DEF rules
    <3>2. /\ Intercepted' = Intercepted /\ Accepted' = Accepted
          /\ Rewritten' = Rewritten /\ Answered' = Answered
      BY <3>1 DEF Intercepted, Accepted, Check, ValidAuthority, EachHostMatches, AuthorityMatches,
                  Rewritten, UpstreamRequest, UpstreamUpgrade, AddedHost, HostHeader, Answered
    <3> QED
      BY <3>1, <3>2
  <2> QED
    BY <2>1, <2>2, <2>3, <2>4, <2>5, <2>6 DEF RulesNext
<1> QED
  BY <1>1, <1>2, PTL DEF RulesSpec

-----------------------------------------------------------------------------
(* What the filters leave and add, header by header.                       *)

\* Values and Without, as what each header becomes.
Kind(S, name) == [h \in S |-> IF h.name = name THEN <<h.value>> ELSE <<>>]
Stays(S, names) == [h \in S |-> IF h.name \in names THEN <<>> ELSE <<h>>]
ValuesOf(S) == {h.value : h \in S}

LEMMA KindType ==
  ASSUME NEW S, NEW name
  PROVE  Kind(S, name) \in [S -> Seq(ValuesOf(S))]
<1>1. ASSUME NEW h \in S
      PROVE  (IF h.name = name THEN <<h.value>> ELSE <<>>) \in Seq(ValuesOf(S))
  <2>1. h.value \in ValuesOf(S)
    BY DEF ValuesOf
  <2>2. <<h.value>> \in Seq(ValuesOf(S)) /\ <<>> \in Seq(ValuesOf(S))
    BY <2>1
  <2> QED
    BY <2>2
<1> QED
  BY <1>1 DEF Kind

LEMMA StaysType ==
  ASSUME NEW S, NEW names
  PROVE  Stays(S, names) \in [S -> Seq(S)]
<1>1. ASSUME NEW h \in S
      PROVE  <<h>> \in Seq(S) /\ <<>> \in Seq(S)
  OBVIOUS
<1> QED
  BY <1>1 DEF Stays

LEMMA ValuesEach ==
  ASSUME NEW S, NEW headers \in Seq(S), NEW name
  PROVE  /\ Values(headers, name) = Each(Kind(S, name), headers)
         /\ Values(headers, name) \in Seq(ValuesOf(S))
<1>1. \A i \in DOMAIN headers : headers[i] \in S
  BY LenProperties, ElementOfSeq
<1>2. [i \in DOMAIN headers |->
         IF headers[i].name = name THEN <<headers[i].value>> ELSE <<>>]
        = [i \in DOMAIN headers |-> Kind(S, name)[headers[i]]]
  BY <1>1 DEF Kind
<1>3. Values(headers, name) = Each(Kind(S, name), headers)
  BY <1>2 DEF Values, Each
<1>4. Each(Kind(S, name), headers) \in Seq(ValuesOf(S))
  BY KindType, EachType
<1> QED
  BY <1>3, <1>4

LEMMA WithoutEach ==
  ASSUME NEW S, NEW headers \in Seq(S), NEW names
  PROVE  /\ Without(headers, names) = Each(Stays(S, names), headers)
         /\ Without(headers, names) \in Seq(S)
<1>1. \A i \in DOMAIN headers : headers[i] \in S
  BY LenProperties, ElementOfSeq
<1>2. [i \in DOMAIN headers |->
         IF headers[i].name \in names THEN <<>> ELSE <<headers[i]>>]
        = [i \in DOMAIN headers |-> Stays(S, names)[headers[i]]]
  BY <1>1 DEF Stays
<1>3. Without(headers, names) = Each(Stays(S, names), headers)
  BY <1>2 DEF Without, Each
<1>4. Each(Stays(S, names), headers) \in Seq(S)
  BY StaysType, EachType
<1> QED
  BY <1>3, <1>4

\* A header is there if it has a value.
LEMMA HasValues ==
  ASSUME NEW S, NEW headers \in Seq(S), NEW name
  PROVE  Has(headers, name) <=> Values(headers, name) # <<>>
<1>1. \A i \in DOMAIN headers : headers[i] \in S
  BY LenProperties, ElementOfSeq
<1>2. \A i \in DOMAIN headers : Kind(S, name)[headers[i]] # <<>> <=> headers[i].name = name
  BY <1>1 DEF Kind
<1>3. Each(Kind(S, name), headers) # <<>>
        <=> \E i \in DOMAIN headers : Kind(S, name)[headers[i]] # <<>>
  <2> DEFINE f == Kind(S, name)
  <2>1. f \in [S -> Seq(ValuesOf(S))]
    BY KindType
  <2> HIDE DEF f
  <2>2. Each(f, headers) # <<>> <=> \E i \in DOMAIN headers : f[headers[i]] # <<>>
    BY <2>1, EachNonempty DEF HasPart
  <2> QED
    BY <2>2 DEF f
<1> QED
  BY <1>2, <1>3, ValuesEach DEF Has

\* One header, and two lists of them.
LEMMA ValuesOne ==
  ASSUME NEW name, NEW value, NEW other
  PROVE  Values(<<Header(name, value)>>, other) = IF name = other THEN <<value>> ELSE <<>>
<1> DEFINE h == Header(name, value)
           S == {h}
<1>1. h \in S /\ <<h>> \in Seq(S)
  OBVIOUS
<1>2. Kind(S, other)[h] = IF name = other THEN <<value>> ELSE <<>>
  BY DEF Kind, Header
<1> HIDE DEF S, h
<1>3. Values(<<h>>, other) = Each(Kind(S, other), <<h>>)
  BY <1>1, ValuesEach
<1>4. Each(Kind(S, other), <<h>>) = Kind(S, other)[h]
  BY <1>1, KindType, EachOne
<1> QED
  BY <1>2, <1>3, <1>4 DEF h

ValuesJoin(s, t, name) == Values(s \o t, name) = Values(s, name) \o Values(t, name)

LEMMA ValuesConcat ==
  ASSUME NEW S, NEW s \in Seq(S), NEW t \in Seq(S), NEW name
  PROVE  ValuesJoin(s, t, name)
<1>1. Joins(Kind(S, name), s, t)
  BY KindType, EachConcat
<1>2. s \o t \in Seq(S)
  BY ConcatProperties
<1>3. Values(s \o t, name) = Each(Kind(S, name), s \o t)
  BY <1>2, ValuesEach
<1>4. Values(s, name) = Each(Kind(S, name), s) /\ Values(t, name) = Each(Kind(S, name), t)
  BY ValuesEach
<1> QED
  BY <1>1, <1>3, <1>4 DEF Joins, ValuesJoin

\* A filter takes the values of its names and leaves those of the others.
LEMMA ValuesWithout ==
  ASSUME NEW S, NEW headers \in Seq(S), NEW names, NEW name
  PROVE  Values(Without(headers, names), name)
           = IF name \in names THEN <<>> ELSE Values(headers, name)
<1> DEFINE f == Stays(S, names)
           g == Kind(S, name)
           h == [x \in S |-> IF name \in names THEN <<>> ELSE g[x]]
<1>1. f \in [S -> Seq(S)] /\ g \in [S -> Seq(ValuesOf(S))]
  BY KindType, StaysType
<1>2. h \in [S -> Seq(ValuesOf(S))]
  BY <1>1
<1>3. ASSUME NEW x \in S
      PROVE  h[x] = Each(g, f[x])
  <2>1. CASE x.name \in names
    <3>1. f[x] = <<>>
      BY <2>1 DEF Stays
    <3>2. h[x] = <<>>
      BY <2>1 DEF Kind
    <3> QED
      BY <3>1, <3>2, EachEmpty
  <2>2. CASE x.name \notin names
    <3>1. f[x] = <<x>>
      BY <2>2 DEF Stays
    <3>2. h[x] = g[x]
      BY <2>2 DEF Kind
    <3>3. Each(g, <<x>>) = g[x]
      <4> HIDE DEF g
      <4> QED
        BY <1>1, EachOne
    <3> QED
      BY <3>1, <3>2, <3>3
  <2> QED
    BY <2>1, <2>2
<1>4. Each(g, Each(f, headers)) = Each(h, headers)
  <2>1. \A x \in S : h[x] = Each(g, f[x])
    BY <1>3
  <2> HIDE DEF f, g, h
  <2>2. Composes(g, f, h, headers)
    BY <1>1, <1>2, <2>1, EachOfEach
  <2> QED
    BY <2>2 DEF Composes
<1>5. Values(Without(headers, names), name) = Each(g, Each(f, headers))
  <2>1. Without(headers, names) = Each(f, headers) /\ Without(headers, names) \in Seq(S)
    BY WithoutEach
  <2> QED
    BY <2>1, ValuesEach
<1>6. CASE name \in names
  <2> DEFINE none == [x \in S |-> <<>>]
  <2>1. h = none /\ none \in [S -> Seq(ValuesOf(S))]
    BY <1>2, <1>6
  <2>2. Each(none, headers) # <<>> <=> \E i \in DOMAIN headers : none[headers[i]] # <<>>
    <3> HIDE DEF none
    <3> QED
      BY <2>1, EachNonempty DEF HasPart
  <2>3. \A i \in DOMAIN headers : none[headers[i]] = <<>>
    BY LenProperties, ElementOfSeq
  <2> QED
    BY <1>4, <1>5, <1>6, <2>1, <2>2, <2>3
<1>7. CASE name \notin names
  <2>1. h = g
    BY <1>7 DEF Kind
  <2> QED
    BY <1>4, <1>5, <1>7, <2>1, ValuesEach
<1> QED
  BY <1>6, <1>7

\* What a filter leaves and what is put behind it.
Kept(headers, names, name) == IF name \in names THEN <<>> ELSE Values(headers, name)

FilteredTo(headers, names, more, name) ==
  /\ Values(more, name) = <<>> =>
       Values(Without(headers, names) \o more, name) = Kept(headers, names, name)
  /\ Kept(headers, names, name) = <<>> =>
       Values(Without(headers, names) \o more, name) = Values(more, name)

LEMMA FilteredValues ==
  ASSUME NEW S, NEW headers \in Seq(S), NEW more \in Seq(S), NEW names, NEW name
  PROVE  FilteredTo(headers, names, more, name)
<1> DEFINE rest == Without(headers, names)
           kept == Kept(headers, names, name)
<1>1. rest \in Seq(S)
  BY WithoutEach
<1>2. Values(rest, name) = kept
  BY ValuesWithout DEF Kept
<1>3. ValuesJoin(rest, more, name)
  <2> HIDE DEF rest
  <2> QED
    BY <1>1, ValuesConcat
<1>4. kept \in Seq(ValuesOf(S)) /\ Values(more, name) \in Seq(ValuesOf(S))
  <2>1. Values(rest, name) \in Seq(ValuesOf(S))
    <3> HIDE DEF rest
    <3> QED
      BY <1>1, ValuesEach
  <2> QED
    BY <1>2, <2>1, ValuesEach
<1>5. kept \o <<>> = kept /\ <<>> \o Values(more, name) = Values(more, name)
  <2> DEFINE a == kept
             b == Values(more, name)
  <2>1. a \in Seq(ValuesOf(S)) /\ b \in Seq(ValuesOf(S))
    BY <1>4
  <2> HIDE DEF a, b
  <2>2. a \o <<>> = a /\ <<>> \o b = b
    BY <2>1, ConcatEmptySeq
  <2> QED
    BY <2>2 DEF a, b
<1>6. Values(rest \o more, name) = kept \o Values(more, name)
  BY <1>2, <1>3 DEF ValuesJoin
<1> HIDE DEF rest, kept
<1>7. /\ Values(more, name) = <<>> => Values(rest \o more, name) = kept
      /\ kept = <<>> => Values(rest \o more, name) = Values(more, name)
  BY <1>5, <1>6
<1> QED
  BY <1>7 DEF FilteredTo, rest, kept

\* No header, and two.
LEMMA ValuesNone == \A name : Values(<<>>, name) = <<>>
BY FlattenEmpty DEF Values

TwoValues(a, x, b, y, name) ==
  /\ name # a => Values(<<Header(a, x), Header(b, y)>>, name) = Values(<<Header(b, y)>>, name)
  /\ name # b => Values(<<Header(a, x), Header(b, y)>>, name) = Values(<<Header(a, x)>>, name)

LEMMA ValuesTwo ==
  ASSUME NEW a, NEW x, NEW b, NEW y, NEW name
  PROVE  TwoValues(a, x, b, y, name)
<1> DEFINE h == Header(a, x)
           k == Header(b, y)
           S == {h, k}
<1>1. <<h>> \in Seq(S) /\ <<k>> \in Seq(S)
  OBVIOUS
<1>2. <<h>> \o <<k>> = <<h, k>>
  <2>1. h \in S /\ k \in S
    OBVIOUS
  <2> HIDE DEF h, k, S
  <2>2. <<h>> \o <<k>> \in Seq(S) /\ <<h, k>> \in Seq(S)
    BY <2>1
  <2>3. Len(<<h>> \o <<k>>) = 2 /\ Len(<<h, k>>) = 2
    OBVIOUS
  <2>4. \A i \in 1..2 : (<<h>> \o <<k>>)[i] = <<h, k>>[i]
    OBVIOUS
  <2> QED
    BY <2>2, <2>3, <2>4, SeqEqual
<1>3. /\ Values(<<h>>, name) = IF a = name THEN <<x>> ELSE <<>>
      /\ Values(<<k>>, name) = IF b = name THEN <<y>> ELSE <<>>
  BY ValuesOne
<1> HIDE DEF h, k, S
<1>4. ValuesJoin(<<h>>, <<k>>, name)
  BY <1>1, ValuesConcat
<1>5. Values(<<h, k>>, name) = Values(<<h>>, name) \o Values(<<k>>, name)
  BY <1>2, <1>4 DEF ValuesJoin
<1>6. <<x>> \o <<>> = <<x>> /\ <<>> \o <<y>> = <<y>> /\ <<>> \o <<>> = <<>>
  OBVIOUS
<1>7. /\ name # a => Values(<<h, k>>, name) = Values(<<k>>, name)
      /\ name # b => Values(<<h, k>>, name) = Values(<<h>>, name)
  BY <1>3, <1>5, <1>6
<1> QED
  BY <1>7 DEF TwoValues, h, k

-----------------------------------------------------------------------------
(* The request that goes upstream.                                         *)

LEMMA AddedValues ==
  ASSUME NEW r, NEW name
  PROVE  Values(AddedHost(r), name)
           = IF name = "host" /\ ~Has(r.headers, "host") THEN <<HostHeader.value>> ELSE <<>>
<1>1. CASE Has(r.headers, "host")
  BY <1>1, ValuesNone DEF AddedHost
<1>2. CASE ~Has(r.headers, "host")
  <2> DEFINE value == HostHeader.value
  <2>1. HostHeader = Header("host", value)
    BY DEF HostHeader, Header
  <2> HIDE DEF value
  <2>2. Values(<<Header("host", value)>>, name) = IF "host" = name THEN <<value>> ELSE <<>>
    BY ValuesOne
  <2> QED
    BY <1>2, <2>1, <2>2 DEF AddedHost, value
<1> QED
  BY <1>1, <1>2

\* The filtered headers, a Host if there was none, and what makes the last.
Cleaned(r, names, last) == Without(r.headers, names) \o AddedHost(r) \o last

CleanedTo(r, names, last, name) ==
  /\ name # "host" /\ Values(last, name) = <<>> =>
       Values(Cleaned(r, names, last), name) = Kept(r.headers, names, name)
  /\ name # "host" /\ name \in names =>
       Values(Cleaned(r, names, last), name) = Values(last, name)
  /\ name = "host" /\ Values(last, name) = <<>> =>
       Values(Cleaned(r, names, last), name)
         = IF Has(r.headers, "host") THEN Kept(r.headers, names, name)
           ELSE <<HostHeader.value>>

LEMMA CleanedValues ==
  ASSUME NEW r \in Requests, NEW L, NEW last \in Seq(L), NEW names, NEW name
  PROVE  CleanedTo(r, names, last, name)
<1> DEFINE S == ToSet(r.headers) \union {HostHeader} \union L
           headers == r.headers
           rest == Without(headers, names)
           added == AddedHost(r)
           more == added \o last
<1>1. headers \in Seq(S)
  <2>1. headers \in Seq(ToSet(headers))
    BY HeadsAssumption
  <2>2. ToSet(headers) \subseteq S
    OBVIOUS
  <2> HIDE DEF headers, S
  <2> QED
    BY <2>1, <2>2, SeqMonotonic
<1>2. last \in Seq(S)
  BY SeqMonotonic
<1>3. added \in Seq(S)
  <2>1. HostHeader \in S
    OBVIOUS
  <2> HIDE DEF S
  <2>2. <<HostHeader>> \in Seq(S) /\ <<>> \in Seq(S)
    BY <2>1
  <2> QED
    BY <2>2 DEF AddedHost
<1>4. Values(added, name)
        = IF name = "host" /\ ~Has(headers, "host") THEN <<HostHeader.value>> ELSE <<>>
  BY AddedValues
<1> HIDE DEF S, headers, added
<1>5. rest \in Seq(S) /\ more \in Seq(S)
  BY <1>1, <1>2, <1>3, WithoutEach, ConcatProperties
<1>6. Cleaned(r, names, last) = rest \o more
  <2> HIDE DEF rest
  <2>1. (rest \o added) \o last = rest \o (added \o last)
    BY <1>2, <1>3, <1>5, ConcatAssociative
  <2> QED
    BY <2>1 DEF Cleaned, rest, headers, added
<1>7. FilteredTo(headers, names, more, name)
  <2> HIDE DEF more
  <2> QED
    BY <1>1, <1>5, FilteredValues
<1>8. ValuesJoin(added, last, name)
  BY <1>2, <1>3, ValuesConcat
<1> DEFINE of == Values(last, name)
<1>9. of \in Seq(ValuesOf(S))
  BY <1>2, ValuesEach
<1>10. Values(more, name) = Values(added, name) \o of
  BY <1>8 DEF ValuesJoin
<1>11. /\ <<>> \o of = of
       /\ <<HostHeader.value>> \o <<>> = <<HostHeader.value>> /\ <<>> \o <<>> = <<>>
  <2> HIDE DEF of
  <2> QED
    BY <1>9, ConcatEmptySeq
<1>12. Has(headers, "host") <=> Values(headers, "host") # <<>>
  BY <1>1, HasValues
<1> HIDE DEF of, rest, more
<1>13. /\ of = <<>> /\ name # "host" => Values(more, name) = <<>>
       /\ name # "host" => Values(more, name) = of
       /\ of = <<>> /\ name = "host" =>
            Values(more, name) = IF Has(headers, "host") THEN <<>> ELSE <<HostHeader.value>>
  BY <1>4, <1>10, <1>11
<1>14. /\ Values(more, name) = <<>> =>
            Values(Cleaned(r, names, last), name) = Kept(headers, names, name)
       /\ Kept(headers, names, name) = <<>> =>
            Values(Cleaned(r, names, last), name) = Values(more, name)
  BY <1>6, <1>7 DEF FilteredTo, rest
<1>15. /\ name \in names => Kept(headers, names, name) = <<>>
       /\ name = "host" /\ ~Has(headers, "host") => Kept(headers, names, name) = <<>>
  BY <1>12 DEF Kept
<1> QED
  BY <1>13, <1>14, <1>15 DEF CleanedTo, headers, of

\* What a request that passed the checks is known by.
LEMMA AcceptedRequest ==
  ASSUME Accepted
  PROVE  /\ ValidAuthority(request) /\ ContentLength(request.headers).form # "other"
         /\ verdict = "forward" => ~Has(request.headers, "transfer-encoding")
         /\ verdict = "websocket" => ValidWebSocket(request)
<1>1. verdict = Check(request) /\ verdict \in {"forward", "websocket"}
  BY DEF Accepted
<1>2. ValidAuthority(request)
  <2>1. ~ValidAuthority(request) =>
          Check(request) \in {"http2_unsupported", "http_version_unsupported", "authority_mismatch"}
    BY DEF Check
  <2> QED
    BY <1>1, <2>1
<1>3. verdict = "websocket" => ValidWebSocket(request)
  <2>1. ~ValidWebSocket(request) => Check(request) # "websocket"
    BY DEF Check
  <2> QED
    BY <1>1, <2>1
<1>4. verdict = "forward" => ~Has(request.headers, "transfer-encoding")
  <2>1. Has(request.headers, "transfer-encoding") => Check(request) # "forward"
    BY DEF Check
  <2> QED
    BY <1>1, <2>1
<1>5. ContentLength(request.headers).form # "other"
  <2>1. ContentLength(request.headers).form = "other" => Check(request) # "forward"
    BY DEF Check
  <2> QED
    BY <1>1, <1>3, <2>1 DEF ValidWebSocket
<1> QED
  BY <1>2, <1>3, <1>4, <1>5

\* The lists that come last, name by name.
Close == <<Header("connection", {"close"})>>
Switch(r) == <<Header("upgrade", HeaderValue(r.headers, "upgrade")),
               Header("connection", {"upgrade"})>>

LEMMA CloseValues ==
  \A name : Values(Close, name) = IF name = "connection" THEN <<{"close"}>> ELSE <<>>
BY ValuesOne DEF Close

LEMMA SwitchValues ==
  ASSUME NEW r, NEW name
  PROVE  Values(Switch(r), name) = IF name = "upgrade" THEN <<HeaderValue(r.headers, "upgrade")>>
                                   ELSE IF name = "connection" THEN <<{"upgrade"}>> ELSE <<>>
<1> DEFINE up == HeaderValue(r.headers, "upgrade")
<1>1. /\ Values(<<Header("upgrade", up)>>, name) = IF "upgrade" = name THEN <<up>> ELSE <<>>
      /\ Values(<<Header("connection", {"upgrade"})>>, name)
           = IF "connection" = name THEN <<{"upgrade"}>> ELSE <<>>
  <2> HIDE DEF up
  <2>1. Values(<<Header("upgrade", up)>>, name) = IF "upgrade" = name THEN <<up>> ELSE <<>>
    BY ValuesOne
  <2> DEFINE connection == {"upgrade"}
  <2> HIDE DEF connection
  <2>2. Values(<<Header("connection", connection)>>, name)
          = IF "connection" = name THEN <<connection>> ELSE <<>>
    BY ValuesOne
  <2> QED
    BY <2>1, <2>2 DEF connection
<1>2. TwoValues("upgrade", up, "connection", {"upgrade"}, name)
  BY ValuesTwo
<1> QED
  BY <1>1, <1>2 DEF TwoValues, Switch

\* What each of the two filters takes away.
Taken == IF verdict = "forward"
         THEN ProxyHeaders \union {"transfer-encoding"} \union ConnectionTokens(request.headers)
         ELSE ProxyHeaders \union {"transfer-encoding"}
Ending == IF verdict = "forward" THEN Close ELSE Switch(request)

LEMMA RewrittenValues ==
  ASSUME Accepted, upstream = Rewritten, NEW name
  PROVE  /\ upstream.headers = Cleaned(request, Taken, Ending)
         /\ CleanedTo(request, Taken, Ending, name)
<1>1. upstream.headers = Cleaned(request, Taken, Ending)
  BY DEF Accepted, Rewritten, UpstreamRequest, UpstreamUpgrade, FilterRequest, FilterWebSocket,
         Cleaned, Taken, Ending, Close, Switch
<1>2. request \in Requests
  BY DEF Accepted
<1>3. \E L : Ending \in Seq(L)
  <2> DEFINE a == Header("connection", {"close"})
             b == Header("upgrade", HeaderValue(request.headers, "upgrade"))
             c == Header("connection", {"upgrade"})
             L == {a, b, c}
  <2>1. a \in L /\ b \in L /\ c \in L
    OBVIOUS
  <2> HIDE DEF a, b, c, L
  <2>2. <<a>> \in Seq(L) /\ <<b, c>> \in Seq(L)
    BY <2>1
  <2>3. Ending \in Seq(L)
    BY <2>2 DEF Ending, Close, Switch, a, b, c
  <2> QED
    BY <2>3
<1> QED
  BY <1>1, <1>2, <1>3, CleanedValues

-----------------------------------------------------------------------------
\* AuthorityKept (validate_mitm_request_authority, the header filters and
\* authority_for_host_header): whatever the configuration, the CONNECT and the
\* request, no host but the CONNECT's is named to the upstream.
LEMMA OwnHost ==
  ASSUME Intercepted
  PROVE  AuthorityMatches(ParseAuthority(HostHeader.value, "443"))
<1> DEFINE value == HostHeader.value
<1>1. value = [host |-> connect.host, bracket |-> FALSE, user |-> FALSE,
               port |-> IF connect.port = "443" THEN "none" ELSE connect.port]
  BY DEF HostHeader, Header
<1>2. connect.port # "bad" /\ connect.port # "none" /\ "colon" \notin connect.host.marks
  BY DEF Intercepted
<1>3. ParseAuthority(value, "443") = [host |-> connect.host, port |-> connect.port]
  <2>1. /\ value.host = connect.host /\ ~value.bracket
        /\ value.port = IF connect.port = "443" THEN "none" ELSE connect.port
    <3> DEFINE port == IF connect.port = "443" THEN "none" ELSE connect.port
    <3>1. value = [host |-> connect.host, bracket |-> FALSE, user |-> FALSE, port |-> port]
      BY <1>1
    <3> HIDE DEF value, port
    <3>2. value.host = connect.host /\ value.port = port
      BY <3>1
    <3>3. value.bracket = FALSE
      BY <3>1
    <3> QED
      BY <3>2, <3>3 DEF port
  <2> HIDE DEF value
  <2>2. /\ value.port # "bad" /\ "colon" \notin value.host.marks
        /\ (IF value.port = "none" THEN "443" ELSE value.port) = connect.port
    BY <1>2, <2>1
  <2> QED
    BY <2>1, <2>2 DEF ParseAuthority
<1>4. [host |-> connect.host, port |-> connect.port] # Nothing
  BY DEF Nothing
<1> HIDE DEF value
<1>5. AuthorityMatches(ParseAuthority(value, "443"))
  <2> DEFINE parsed == ParseAuthority(value, "443")
  <2>1. parsed # Nothing /\ parsed.host = connect.host /\ parsed.port = connect.port
    BY <1>3, <1>4
  <2> HIDE DEF parsed
  <2>2. SameIgnoringCase(connect.host, parsed.host)
    BY <2>1 DEF SameIgnoringCase
  <2>3. AuthorityMatches(parsed)
    BY <2>1, <2>2 DEF AuthorityMatches
  <2> QED
    BY <2>3 DEF parsed
<1> QED
  BY <1>5 DEF value

\* AuthorityKept (validate_mitm_request_authority, the header filters and
\* write_upstream_request): for any configuration, CONNECT and request, the
\* upstream is told no host but the one that the tunnel was opened to.
THEOREM UpstreamNamesTheTarget == RulesSpec => []AuthorityKept
<1>1. RulesInv => AuthorityKept
  <2> SUFFICES ASSUME RulesInv, Forwarded
               PROVE  AuthorityKept
    BY DEF AuthorityKept
  <2>1. Intercepted /\ Accepted /\ upstream = Rewritten
    BY DEF RulesInv
  <2>2. ValidAuthority(request)
    BY <2>1, AcceptedRequest
  <2> DEFINE hosts == Values(upstream.headers, "host")
             given == Values(request.headers, "host")
             target == upstream.target
  <2>3. /\ hosts = IF Has(request.headers, "host") THEN Kept(request.headers, Taken, "host")
                   ELSE <<HostHeader.value>>
    <3>1. Values(Ending, "host") = <<>>
      BY CloseValues, SwitchValues DEF Ending
    <3>2. /\ upstream.headers = Cleaned(request, Taken, Ending)
          /\ CleanedTo(request, Taken, Ending, "host")
      BY <2>1, RewrittenValues
    <3> QED
      BY <3>1, <3>2 DEF CleanedTo
  <2>4. \A i \in DOMAIN hosts : AuthorityMatches(ParseAuthority(hosts[i], "443"))
    <3>1. \A i \in DOMAIN given : AuthorityMatches(ParseAuthority(given[i], "443"))
      BY <2>2 DEF ValidAuthority, EachHostMatches
    <3>2. AuthorityMatches(ParseAuthority(HostHeader.value, "443"))
      BY <2>1, OwnHost
    <3>3. hosts \in {<<>>, given, <<HostHeader.value>>}
      BY <2>3 DEF Kept
    <3>4. DOMAIN <<>> = {} /\ DOMAIN <<HostHeader.value>> = {1}
      OBVIOUS
    <3> HIDE DEF hosts, given
    <3> QED
      BY <3>1, <3>2, <3>3, <3>4
  <2>5. target = UpstreamTarget(request)
    BY <2>1 DEF Rewritten, UpstreamRequest, UpstreamUpgrade
  <2>6. IsHttp(target.scheme) =>
          AuthorityMatches(ParseAuthority(target.authority, DefaultPort(target.scheme)))
    <3>1. ASSUME IsHttp(target.scheme)
          PROVE  target.scheme = request.scheme /\ target.authority = request.authority
      <4>1. CASE request.scheme \in {"http", "https"}
        <5>1. target.scheme = "origin"
          <6>1. UpstreamTarget(request) = [scheme |-> "origin", authority |-> Nothing]
            BY <4>1 DEF UpstreamTarget
          <6>2. target = [scheme |-> "origin", authority |-> Nothing]
            BY <2>5, <6>1
          <6> QED
            BY <6>2
        <5> HIDE DEF target
        <5> QED
          BY <3>1, <5>1 DEF IsHttp
      <4>2. CASE request.scheme \notin {"http", "https"}
        BY <2>5, <4>2 DEF UpstreamTarget
      <4> QED
        BY <4>1, <4>2
    <3>2. IsHttp(request.scheme) =>
            AuthorityMatches(ParseAuthority(request.authority, DefaultPort(request.scheme)))
      BY <2>2 DEF ValidAuthority
    <3> HIDE DEF target
    <3> QED
      BY <3>1, <3>2
  <2>7. \/ hosts # <<>> \/ IsHttp(target.scheme)
        \/ verdict = "forward" /\ "host" \in ConnectionTokens(request.headers)
    <3>1. CASE ~Has(request.headers, "host")
      <4>1. hosts = <<HostHeader.value>>
        BY <2>3, <3>1
      <4>2. <<HostHeader.value>> # <<>>
        OBVIOUS
      <4> QED
        BY <4>1, <4>2
    <3>2. CASE Has(request.headers, "host")
      <4>1. given # <<>>
        <5>1. request.headers \in Seq(ToSet(request.headers))
          BY <2>1, HeadsAssumption DEF Accepted
        <5> QED
          BY <3>2, <5>1, HasValues
      <4>2. "host" \in Taken =>
              verdict = "forward" /\ "host" \in ConnectionTokens(request.headers)
        BY DEF Taken, ProxyHeaders
      <4> QED
        BY <2>3, <3>2, <4>1, <4>2 DEF Kept
    <3> QED
      BY <3>1, <3>2
  <2> QED
    BY <2>4, <2>6, <2>7 DEF AuthorityKept
<1> QED
  BY <1>1, RulesInvariant, PTL

-----------------------------------------------------------------------------
(* Where a message ends.                                                   *)

\* A length that is accepted stands in one header, or in none.
LEMMA AcceptedLength ==
  ASSUME NEW S, NEW headers \in Seq(S), ContentLength(headers).form # "other"
  PROVE  /\ Len(Values(headers, "content-length")) <= 1
         /\ Values(headers, "content-length") = <<>> => ContentLength(headers).number = 0
         /\ Values(headers, "content-length") # <<>> =>
              Values(headers, "content-length") = <<ContentLength(headers)>>
<1> DEFINE lengths == Values(headers, "content-length")
<1>1. lengths \in Seq(ValuesOf(S))
  BY ValuesEach
<1>2. /\ Len(lengths) \in Nat
      /\ lengths = <<>> <=> Len(lengths) = 0
  <2> HIDE DEF lengths
  <2> QED
    BY <1>1, EmptySeq, LenProperties
<1>3. CASE lengths = <<>>
  <2>1. ContentLength(headers) = None
    BY <1>2, <1>3 DEF ContentLength
  <2>2. Len(lengths) <= 1
    BY <1>2, <1>3
  <2> QED
    BY <1>3, <2>1, <2>2 DEF None
<1>4. CASE Len(lengths) = 1
  <2>1. lengths # <<>>
    <3>1. 1 # 0
      OBVIOUS
    <3> HIDE DEF lengths
    <3> QED
      BY <1>2, <1>4, <3>1
  <2>2. ContentLength(headers) = Head(lengths)
    BY <1>4, <2>1 DEF ContentLength
  <2>3. lengths = <<Head(lengths)>>
    <3> HIDE DEF lengths
    <3> QED
      BY <1>1, <1>4, <2>1
  <2>4. Len(lengths) <= 1
    <3>1. 1 <= 1
      OBVIOUS
    <3> HIDE DEF lengths
    <3> QED
      BY <1>4, <3>1, Zenon
  <2> QED
    BY <2>1, <2>2, <2>3, <2>4
<1>5. CASE lengths # <<>> /\ Len(lengths) # 1
  <2>1. ContentLength(headers) = Invalid
    BY <1>5 DEF ContentLength
  <2> QED
    BY <2>1 DEF Invalid
<1> QED
  BY <1>3, <1>4, <1>5

\* The request that goes upstream has no framing of its own but a length.
LengthKept ==
  /\ ~Has(upstream.headers, "transfer-encoding")
  /\ LET lengths == Values(upstream.headers, "content-length")
     IN  \/ LengthIsRead(upstream)
         \/ verdict = "forward" /\ lengths = <<>>
              /\ "content-length" \in ConnectionTokens(request.headers)
         \/ lengths = <<[number |-> upstream.body, form |-> "signed"]>>
              /\ Values(request.headers, "content-length") = lengths

LEMMA UpstreamHeads ==
  ASSUME Accepted, upstream = Rewritten
  PROVE  \E S : upstream.headers \in Seq(S) /\ request.headers \in Seq(S)
<1> DEFINE own == ToSet(request.headers)
           a == Header("connection", {"close"})
           b == Header("upgrade", HeaderValue(request.headers, "upgrade"))
           c == Header("connection", {"upgrade"})
           S == own \union {HostHeader, a, b, c}
<1>1. request.headers \in Seq(own)
  BY HeadsAssumption DEF Accepted
<1>2. HostHeader \in S /\ a \in S /\ b \in S /\ c \in S /\ own \subseteq S
  OBVIOUS
<1> HIDE DEF own, a, b, c, S
<1>3. request.headers \in Seq(S)
  BY <1>1, <1>2, SeqMonotonic
<1>4. <<HostHeader>> \in Seq(S) /\ <<>> \in Seq(S) /\ <<a>> \in Seq(S) /\ <<b, c>> \in Seq(S)
  BY <1>2
<1>5. AddedHost(request) \in Seq(S) /\ Ending \in Seq(S)
  BY <1>4 DEF AddedHost, Ending, Close, Switch, a, b, c
<1>6. Without(request.headers, Taken) \in Seq(S)
  BY <1>3, WithoutEach
<1>7. Cleaned(request, Taken, Ending) \in Seq(S)
  BY <1>5, <1>6, ConcatProperties DEF Cleaned
<1>8. upstream.headers = Cleaned(request, Taken, Ending)
  BY RewrittenValues
<1> QED
  BY <1>3, <1>7, <1>8

LEMMA LengthIsKept ==
  ASSUME Accepted, upstream = Rewritten
  PROVE  LengthKept
<1> DEFINE lengths == Values(upstream.headers, "content-length")
           given == Values(request.headers, "content-length")
<1>1. PICK S : upstream.headers \in Seq(S) /\ request.headers \in Seq(S)
  BY UpstreamHeads
<1>2. ASSUME NEW name \in {"transfer-encoding", "content-length"}
      PROVE  Values(upstream.headers, name) = Kept(request.headers, Taken, name)
  <2>1. Values(Ending, name) = <<>> /\ name # "host"
    BY CloseValues, SwitchValues DEF Ending
  <2>2. /\ upstream.headers = Cleaned(request, Taken, Ending)
        /\ CleanedTo(request, Taken, Ending, name)
    BY RewrittenValues
  <2> QED
    BY <2>1, <2>2 DEF CleanedTo
<1>3. ~Has(upstream.headers, "transfer-encoding")
  <2>1. "transfer-encoding" \in Taken
    BY DEF Taken
  <2>2. Values(upstream.headers, "transfer-encoding") = <<>>
    BY <1>2, <2>1 DEF Kept
  <2> QED
    BY <1>1, <2>2, HasValues
<1>4. lengths = IF "content-length" \in Taken THEN <<>> ELSE given
  BY <1>2 DEF Kept
<1>5. ContentLength(request.headers).form # "other"
  BY AcceptedRequest
<1> DEFINE length == ContentLength(request.headers)
<1>6. /\ given = <<>> => length.number = 0
      /\ given # <<>> => given = <<length>>
  BY <1>1, <1>5, AcceptedLength
<1>7. upstream.body = ContentLength(request.headers).number
  <2>1. CASE verdict = "forward"
    BY <2>1 DEF Rewritten, UpstreamRequest
  <2>2. CASE verdict # "forward"
    <3>1. upstream.body = 0
      BY <2>2 DEF Rewritten, UpstreamUpgrade
    <3>2. ContentLength(request.headers).number = 0
      BY <2>2, AcceptedRequest DEF Accepted, ValidWebSocket
    <3> QED
      BY <3>1, <3>2
  <2> QED
    BY <2>1, <2>2
<1>8. "content-length" \in Taken =>
        verdict = "forward" /\ "content-length" \in ConnectionTokens(request.headers)
  BY DEF Taken, ProxyHeaders
<1>9. given # <<>> =>
        \E form \in {"digits", "signed"} : length = [number |-> length.number, form |-> form]
  <2>1. ASSUME given # <<>>
        PROVE  length \in Lengths
    <3>1. given \in Seq(Lengths) /\ given = <<length>>
      BY <1>6, <2>1, LengthsAssumption DEF Accepted
    <3> HIDE DEF given, length
    <3>2. 1 \in DOMAIN given /\ given[1] = length
      BY <3>1
    <3> QED
      BY <3>1, <3>2, ElementOfSeq, LenProperties
  <2> HIDE DEF given, length
  <2> QED
    BY <1>5, <2>1 DEF Lengths, length
<1>10. LengthIsRead(upstream) <=>
         \/ lengths = <<>> /\ upstream.body = 0
         \/ lengths = <<[number |-> upstream.body, form |-> "digits"]>>
  BY DEF LengthIsRead
<1> HIDE DEF lengths, given, length
<1>11. \/ LengthIsRead(upstream)
       \/ verdict = "forward" /\ lengths = <<>>
            /\ "content-length" \in ConnectionTokens(request.headers)
       \/ lengths = <<[number |-> upstream.body, form |-> "signed"]>> /\ given = lengths
  <2>1. CASE "content-length" \in Taken
    BY <1>4, <1>8, <2>1
  <2>2. CASE "content-length" \notin Taken
    <3>1. lengths = given /\ upstream.body = length.number
      BY <1>4, <1>7, <2>2 DEF length
    <3> QED
      BY <1>6, <1>9, <1>10, <3>1
  <2> QED
    BY <2>1, <2>2
<1> QED
  BY <1>3, <1>11 DEF LengthKept, lengths, given

\* An upgrade arrives with all that makes it one, once.
UpgradeKept ==
  verdict = "websocket" =>
    /\ Values(upstream.headers, "upgrade") = <<"websocket">>
    /\ Values(upstream.headers, "connection") = <<{"upgrade"}>>
    /\ Has(upstream.headers, "sec-websocket-key")
    /\ Has(upstream.headers, "sec-websocket-version")

LEMMA UpgradeIsKept ==
  ASSUME Accepted, upstream = Rewritten
  PROVE  UpgradeKept
<1> SUFFICES ASSUME verdict = "websocket"
             PROVE  /\ Values(upstream.headers, "upgrade") = <<"websocket">>
                    /\ Values(upstream.headers, "connection") = <<{"upgrade"}>>
                    /\ Has(upstream.headers, "sec-websocket-key")
                    /\ Has(upstream.headers, "sec-websocket-version")
  BY DEF UpgradeKept
<1>1. PICK S : upstream.headers \in Seq(S) /\ request.headers \in Seq(S)
  BY UpstreamHeads
<1>2. /\ HeaderValue(request.headers, "upgrade") = "websocket"
      /\ Has(request.headers, "sec-websocket-key")
      /\ Has(request.headers, "sec-websocket-version")
  BY AcceptedRequest DEF ValidWebSocket, IsWebSocketUpgrade
<1>3. Taken = ProxyHeaders \union {"transfer-encoding"} /\ Ending = Switch(request)
  BY DEF Taken, Ending
<1>4. upstream.headers = Cleaned(request, Taken, Ending)
  BY RewrittenValues
<1>5. Values(upstream.headers, "upgrade") = <<"websocket">>
  <2>1. CleanedTo(request, Taken, Ending, "upgrade")
    BY RewrittenValues
  <2>2. Values(Ending, "upgrade") = <<"websocket">>
    BY <1>2, <1>3, SwitchValues
  <2>3. "upgrade" \in Taken
    BY <1>3 DEF ProxyHeaders
  <2> QED
    BY <1>4, <2>1, <2>2, <2>3 DEF CleanedTo
<1>6. Values(upstream.headers, "connection") = <<{"upgrade"}>>
  <2>1. CleanedTo(request, Taken, Ending, "connection")
    BY RewrittenValues
  <2>2. Values(Ending, "connection") = <<{"upgrade"}>>
    BY <1>3, SwitchValues
  <2>3. "connection" \in Taken
    BY <1>3 DEF ProxyHeaders
  <2> QED
    BY <1>4, <2>1, <2>2, <2>3 DEF CleanedTo
<1>7. ASSUME NEW name \in {"sec-websocket-key", "sec-websocket-version"}
      PROVE  Has(upstream.headers, name)
  <2>1. CleanedTo(request, Taken, Ending, name)
    BY RewrittenValues
  <2>2. Values(Ending, name) = <<>> /\ name # "host"
    BY <1>3, SwitchValues
  <2>3. name \notin Taken
    BY <1>3 DEF ProxyHeaders
  <2>4. Values(upstream.headers, name) = Values(request.headers, name)
    BY <1>4, <2>1, <2>2, <2>3 DEF CleanedTo, Kept
  <2>5. Has(request.headers, name)
    BY <1>2
  <2>6. Values(request.headers, name) # <<>>
    BY <1>1, <2>5, HasValues
  <2> QED
    BY <1>1, <2>4, <2>6, HasValues
<1> QED
  BY <1>5, <1>6, <1>7

\* The response that goes to the client.
AnswerKept ==
  /\ Len(Values(answer.headers, "connection")) = 1
  /\ Len(Values(answer.headers, "upgrade")) =
       IF verdict = "websocket" /\ answer.status = "101" THEN 1 ELSE 0
  /\ \A name \in {"content-length", "transfer-encoding"} :
       \/ Values(answer.headers, name) = Values(response.headers, name)
       \/ name \in ConnectionTokens(response.headers)
       \/ verdict = "websocket" /\ answer.status = "101"

\* What is put behind the headers of a response that switches.
Given(r, name, default) == IF Has(r.headers, name) THEN HeaderValue(r.headers, name) ELSE default
Switched(r) == <<Header("upgrade", Given(r, "upgrade", "websocket")),
                 Header("connection", Given(r, "connection", {"upgrade"}))>>

LEMMA SwitchedValues ==
  ASSUME NEW r
  PROVE  /\ Len(Values(Switched(r), "upgrade")) = 1
         /\ Len(Values(Switched(r), "connection")) = 1
<1> DEFINE up == Given(r, "upgrade", "websocket")
           connection == Given(r, "connection", {"upgrade"})
<1> HIDE DEF up, connection
<1>1. /\ Values(<<Header("upgrade", up)>>, "upgrade") = <<up>>
      /\ Values(<<Header("connection", connection)>>, "connection") = <<connection>>
  BY ValuesOne
<1>2. /\ TwoValues("upgrade", up, "connection", connection, "upgrade")
      /\ TwoValues("upgrade", up, "connection", connection, "connection")
  BY ValuesTwo
<1>3. Switched(r) = <<Header("upgrade", up), Header("connection", connection)>>
  BY DEF Switched, up, connection
<1>4. Len(<<up>>) = 1 /\ Len(<<connection>>) = 1
  OBVIOUS
<1> QED
  BY <1>1, <1>2, <1>3, <1>4 DEF TwoValues

LEMMA AnswerIsKept ==
  ASSUME response \in Responses, answer = Answered
  PROVE  AnswerKept
<1> DEFINE headers == response.headers
           own == ToSet(headers)
<1>1. headers \in Seq(own)
  BY HeadsAssumption
<1> HIDE DEF own
<1>2. CASE verdict = "websocket" /\ response.status = "101"
  <2> DEFINE a == Header("upgrade", Given(response, "upgrade", "websocket"))
             b == Header("connection", Given(response, "connection", {"upgrade"}))
             S == own \union {a, b}
             names == ProxyHeaders \union {"transfer-encoding"}
  <2>1. Switched(response) \in Seq(S)
    <3>1. a \in S /\ b \in S
      OBVIOUS
    <3> HIDE DEF a, b, S
    <3>2. <<a, b>> \in Seq(S)
      BY <3>1
    <3> QED
      BY <3>2 DEF Switched, a, b
  <2>2. headers \in Seq(S)
    BY <1>1, SeqMonotonic
  <2> HIDE DEF S, a, b
  <2>3. /\ answer.status = "101"
        /\ answer.headers = Without(headers, names) \o Switched(response)
    BY <1>2 DEF Answered, ClientSwitch, FilterWebSocket, Switched, Given
  <2>4. "upgrade" \in names /\ "connection" \in names
    BY DEF ProxyHeaders
  <2> HIDE DEF names, headers
  <2>5. /\ FilteredTo(headers, names, Switched(response), "upgrade")
        /\ FilteredTo(headers, names, Switched(response), "connection")
    BY <2>1, <2>2, FilteredValues
  <2>6. /\ Values(answer.headers, "upgrade") = Values(Switched(response), "upgrade")
        /\ Values(answer.headers, "connection") = Values(Switched(response), "connection")
    BY <2>3, <2>4, <2>5 DEF FilteredTo, Kept
  <2> QED
    BY <1>2, <2>3, <2>6, SwitchedValues DEF AnswerKept
<1>3. CASE ~(verdict = "websocket" /\ response.status = "101")
  <2> DEFINE a == Header("connection", {"close"})
             S == own \union {a}
             names == ProxyHeaders \union ConnectionTokens(headers)
  <2>1. Close \in Seq(S)
    <3>1. a \in S
      OBVIOUS
    <3> HIDE DEF a, S
    <3>2. <<a>> \in Seq(S)
      BY <3>1
    <3> QED
      BY <3>2 DEF Close, a
  <2>2. headers \in Seq(S)
    BY <1>1, SeqMonotonic
  <2> HIDE DEF S, a
  <2>3. /\ answer.status = response.status
        /\ answer.headers = Without(headers, names) \o Close
    BY <1>3 DEF Answered, ClientResponse, FilterResponse, Close
  <2>4. /\ "upgrade" \in names /\ "connection" \in names
        /\ \A name \in {"content-length", "transfer-encoding"} :
             name \in names => name \in ConnectionTokens(headers)
    BY DEF ProxyHeaders
  <2>5. ASSUME NEW name
        PROVE  FilteredTo(headers, names, Close, name)
    <3> HIDE DEF names, headers
    <3> QED
      BY <2>1, <2>2, FilteredValues
  <2> HIDE DEF names
  <2>6. /\ Values(Close, "connection") = <<{"close"}>>
        /\ \A name \in {"upgrade", "content-length", "transfer-encoding"} :
             Values(Close, name) = <<>>
    BY CloseValues
  <2>7. /\ Values(answer.headers, "connection") = <<{"close"}>>
        /\ Values(answer.headers, "upgrade") = <<>>
    <3>1. /\ FilteredTo(headers, names, Close, "connection")
          /\ FilteredTo(headers, names, Close, "upgrade")
      BY <2>5
    <3> QED
      BY <2>3, <2>4, <2>6, <3>1 DEF FilteredTo, Kept
  <2>8. ASSUME NEW name \in {"content-length", "transfer-encoding"}
        PROVE  \/ Values(answer.headers, name) = Values(headers, name)
               \/ name \in ConnectionTokens(headers)
    <3>1. FilteredTo(headers, names, Close, name)
      BY <2>5
    <3> QED
      BY <2>3, <2>4, <2>6, <3>1 DEF FilteredTo, Kept
  <2>9. Len(<<{"close"}>>) = 1 /\ Len(<<>>) = 0
    OBVIOUS
  <2> QED
    BY <1>3, <2>3, <2>7, <2>8, <2>9 DEF AnswerKept
<1> QED
  BY <1>2, <1>3

\* MessagesKept (request_content_length, the header filters, write_upstream_-
\* request, serialize_downstream_response and their WebSocket counterparts):
\* for any request and response, whether a message is an upgrade and where it
\* ends is said once, so that who takes digits only reads it as Marsala does,
\* unless a Connection header names content-length or the request's own length
\* has a plus sign.
THEOREM MessagesReadTheSame == RulesSpec => []MessagesKept
<1>1. RulesInv => MessagesKept
  <2> SUFFICES ASSUME RulesInv, Forwarded
               PROVE  MessagesKept
    BY DEF MessagesKept
  <2>1. Accepted /\ upstream = Rewritten
    BY DEF RulesInv
  <2>2. LengthKept /\ UpgradeKept
    BY <2>1, LengthIsKept, UpgradeIsKept
  <2>3. answer # Nothing => AnswerKept
    BY AnswerIsKept DEF RulesInv
  <2> QED
    BY <2>2, <2>3 DEF MessagesKept, LengthKept, UpgradeKept, AnswerKept
<1> QED
  BY <1>1, RulesInvariant, PTL

-----------------------------------------------------------------------------
(* The shell file: what a command does to the user's lines.                *)

Extra == {"start", "exports", "end", "blank"}
Lines == UserLines \union Extra

\* The user's lines of a text that has no block in it.
Own == [l \in Lines |-> IF l \in UserLines THEN <<l>> ELSE <<>>]
Theirs(lines) == Each(Own, lines)

\* The parts of Outside.
Open(lines, i) ==
  \E s \in 1..(i - 1) : lines[s] = "start" /\ \A e \in s..i : lines[e] # "end"
Shown(lines) ==
  [i \in DOMAIN lines |->
     IF lines[i] \in UserLines /\ ~Open(lines, i) THEN <<lines[i]>> ELSE <<>>]

LEMMA OwnType == Own \in [Lines -> Seq(UserLines)]
<1>1. \A l \in UserLines : <<l>> \in Seq(UserLines)
  OBVIOUS
<1> QED
  BY <1>1 DEF Own

LEMMA TheirsOf ==
  ASSUME NEW lines \in Seq(Lines), NEW p \in Seq(Seq(UserLines)),
         Len(p) = Len(lines), \A i \in 1..Len(lines) : p[i] = Own[lines[i]]
  PROVE  FlattenSeq(p) = Theirs(lines)
<1> DEFINE f == Own
<1>1. f \in [Lines -> Seq(UserLines)] /\ \A i \in 1..Len(lines) : p[i] = f[lines[i]]
  BY OwnType
<1> HIDE DEF f
<1>2. FlattenSeq(p) = Each(f, lines)
  BY <1>1, EachOf, SMTT(30)
<1> QED
  BY <1>2 DEF f, Theirs

LEMMA ShownType ==
  ASSUME NEW lines \in Seq(Lines)
  PROVE  /\ Len(lines) \in Nat
         /\ Shown(lines) \in Seq(Seq(UserLines)) /\ Len(Shown(lines)) = Len(lines)
         /\ Outside(lines) = FlattenSeq(Shown(lines))
         /\ \A i \in 1..Len(lines) : lines[i] \in Lines
<1>1. Len(lines) \in Nat /\ DOMAIN lines = 1..Len(lines)
  BY LenProperties
<1>2. \A i \in 1..Len(lines) : lines[i] \in Lines
  BY ElementOfSeq
<1>3. ASSUME NEW i \in 1..Len(lines)
      PROVE  Shown(lines)[i] \in Seq(UserLines)
  <2>1. lines[i] \in UserLines => <<lines[i]>> \in Seq(UserLines)
    OBVIOUS
  <2> QED
    BY <1>1, <2>1 DEF Shown
<1>4. Shown(lines) = [i \in 1..Len(lines) |-> Shown(lines)[i]]
  BY <1>1 DEF Shown
<1>5. Shown(lines) \in Seq(Seq(UserLines)) /\ Len(Shown(lines)) = Len(lines)
  BY <1>1, <1>3, <1>4
<1>6. Outside(lines) = FlattenSeq(Shown(lines))
  BY DEF Outside, Shown, Open
<1> QED
  BY <1>1, <1>2, <1>5, <1>6

\* A part in which nothing is inside of a block, and one with nothing outside.
LEMMA PartShown ==
  ASSUME NEW lines \in Seq(Lines), NEW m \in 1..Len(lines) + 1, NEW n \in m - 1..Len(lines),
         NEW part \in Seq(Lines), Len(part) = (n - m) + 1,
         \A i \in 1..Len(part) : /\ part[i] = lines[(m + i) - 1]
                                 /\ ~Open(lines, (m + i) - 1)
  PROVE  FlattenSeq(SubSeq(Shown(lines), m, n)) = Theirs(part)
<1> DEFINE shown == Shown(lines)
           some == SubSeq(shown, m, n)
<1>1. /\ Len(lines) \in Nat /\ m \in Int /\ n \in Int /\ Len(part) \in Nat
      /\ shown \in Seq(Seq(UserLines)) /\ Len(shown) = Len(lines)
  BY ShownType, LenProperties
<1>2. ASSUME NEW i \in 1..Len(part)
      PROVE  shown[(m + i) - 1] = Own[part[i]]
  <2>1. (m + i) - 1 \in 1..Len(lines) /\ DOMAIN lines = 1..Len(lines)
    <3>1. (m + i) - 1 \in 1..Len(lines)
      BY <1>1
    <3> QED
      BY <3>1, LenProperties
  <2>2. part[i] = lines[(m + i) - 1] /\ ~Open(lines, (m + i) - 1) /\ part[i] \in Lines
    BY ElementOfSeq
  <2> QED
    BY <2>1, <2>2 DEF Shown, Own
<1> HIDE DEF shown
<1>3. /\ some \in Seq(Seq(UserLines)) /\ Len(some) = Len(part)
      /\ \A i \in 1..Len(part) : some[i] = shown[(m + i) - 1]
  <2>1. \A i \in m..n : shown[i] \in Seq(UserLines)
    BY <1>1, ElementOfSeq
  <2>2. /\ some \in Seq(Seq(UserLines)) /\ Len(some) = IF m <= n THEN (n - m) + 1 ELSE 0
        /\ \A i \in 1..(n - m) + 1 : some[i] = shown[(m + i) - 1]
    BY <1>1, <2>1, SubSeqProperties
  <2>3. ~(m <= n) => (n - m) + 1 = 0
    BY <1>1
  <2> QED
    BY <2>2, <2>3
<1>4. \A i \in 1..Len(part) : some[i] = Own[part[i]]
  BY <1>2, <1>3
<1> HIDE DEF some
<1>5. FlattenSeq(some) = Theirs(part)
  BY <1>3, <1>4, TheirsOf
<1> QED
  BY <1>5 DEF some, shown

LEMMA PartHidden ==
  ASSUME NEW lines \in Seq(Lines), NEW m \in 1..Len(lines) + 1, NEW n \in m - 1..Len(lines),
         \A i \in m..n : lines[i] \notin UserLines \/ Open(lines, i)
  PROVE  FlattenSeq(SubSeq(Shown(lines), m, n)) = <<>>
<1> DEFINE shown == Shown(lines)
<1>1. /\ Len(lines) \in Nat /\ m \in Int /\ n \in Int
      /\ shown \in Seq(Seq(UserLines)) /\ Len(shown) = Len(lines)
  BY ShownType
<1>2. \A i \in m..n : shown[i] = <<>> /\ shown[i] \in Seq(UserLines)
  <2> SUFFICES ASSUME NEW i \in m..n
               PROVE  shown[i] = <<>> /\ shown[i] \in Seq(UserLines)
    OBVIOUS
  <2>1. i \in 1..Len(lines) /\ DOMAIN lines = 1..Len(lines)
    BY <1>1, LenProperties
  <2>2. lines[i] \notin UserLines \/ Open(lines, i)
    OBVIOUS
  <2>3. shown[i] = <<>>
    BY <2>1, <2>2 DEF Shown
  <2> QED
    BY <2>3, EmptySeq
<1> HIDE DEF shown
<1>3. /\ SubSeq(shown, m, n) \in Seq(Seq(UserLines))
      /\ Len(SubSeq(shown, m, n)) = IF m <= n THEN (n - m) + 1 ELSE 0
      /\ \A i \in 1..(n - m) + 1 : SubSeq(shown, m, n)[i] = shown[(m + i) - 1]
  <2>1. m \in Int /\ n \in Int
    BY <1>1
  <2>2. \A i \in m..n : shown[i] \in Seq(UserLines)
    BY <1>2
  <2> QED
    BY <2>1, <2>2, SubSeqProperties
<1>4. \A i \in 1..Len(SubSeq(shown, m, n)) : SubSeq(shown, m, n)[i] = <<>>
  <2> SUFFICES ASSUME NEW i \in 1..Len(SubSeq(shown, m, n))
               PROVE  SubSeq(shown, m, n)[i] = <<>>
    OBVIOUS
  <2>1. m <= n /\ i \in 1..(n - m) + 1
    BY <1>1, <1>3
  <2>2. (m + i) - 1 \in m..n
    BY <1>1, <2>1
  <2> QED
    BY <1>2, <1>3, <2>1, <2>2
<1>5. FlattenSeq(SubSeq(shown, m, n)) = <<>>
  BY <1>3, <1>4, FlattenNothing
<1> QED
  BY <1>5 DEF shown

\* A text, and behind it only lines that are not the user's.
Extends(lines, text) ==
  /\ Len(text) <= Len(lines)
  /\ \A i \in 1..Len(text) : lines[i] = text[i]
  /\ \A i \in Len(text) + 1..Len(lines) : lines[i] \in Extra

LEMMA TheirsType ==
  ASSUME NEW lines \in Seq(Lines)
  PROVE  Theirs(lines) \in Seq(UserLines)
<1> DEFINE f == Own
<1>1. f \in [Lines -> Seq(UserLines)]
  BY OwnType
<1> HIDE DEF f
<1>2. Each(f, lines) \in Seq(UserLines)
  BY <1>1, EachType
<1> QED
  BY <1>2 DEF f, Theirs

\* Without a start marker in the text, all of its lines are outside of a block.
LEMMA OutsideOfExtension ==
  ASSUME NEW text \in Seq(Lines), NEW lines \in Seq(Lines), Extends(lines, text),
         \A i \in 1..Len(text) : text[i] # "start"
  PROVE  Outside(lines) = Theirs(text)
<1> DEFINE shown == Shown(lines)
           k == Len(text)
           n == Len(lines)
<1>1. /\ n \in Nat /\ k \in Nat /\ k <= n
      /\ shown \in Seq(Seq(UserLines)) /\ Len(shown) = n
  BY ShownType, LenProperties DEF Extends
<1>2. FlattenSeq(SubSeq(shown, 1, k)) = Theirs(text)
  <2>1. 1 \in 1..n + 1 /\ k \in 1 - 1..n /\ k = (k - 1) + 1
    BY <1>1
  <2>2. ASSUME NEW i \in 1..k
        PROVE  text[i] = lines[(1 + i) - 1] /\ ~Open(lines, (1 + i) - 1)
    <3>1. (1 + i) - 1 = i /\ text[i] = lines[i]
      BY <1>1 DEF Extends
    <3>2. ASSUME NEW s \in 1..(i - 1)
          PROVE  lines[s] # "start"
      <4>1. s \in 1..k
        BY <1>1
      <4> QED
        BY <4>1 DEF Extends
    <3> QED
      BY <3>1, <3>2 DEF Open
  <2> QED
    BY <2>1, <2>2, PartShown
<1>3. FlattenSeq(SubSeq(shown, k + 1, n)) = <<>>
  <2>1. k + 1 \in 1..n + 1 /\ n \in (k + 1) - 1..n
    BY <1>1
  <2>2. \A i \in k + 1..n : lines[i] \notin UserLines
    BY <1>1, LinesAssumption DEF Extends, Extra
  <2> QED
    BY <2>1, <2>2, PartHidden
<1>4. Theirs(text) \in Seq(UserLines) /\ Outside(lines) = FlattenSeq(shown)
  BY TheirsType, ShownType
<1>5. 1 \in 1..Len(shown) + 1 /\ k \in 1 - 1..Len(shown) /\ n \in k..Len(shown)
  BY <1>1
<1>6. SubSeq(shown, 1, n) = shown
  BY <1>1, SubSeqFull
<1> HIDE DEF shown, k, n
<1>7. FlattensAt(shown, 1, k, n)
  BY <1>1, <1>5, FlattenSplit
<1>8. FlattenSeq(shown) = Theirs(text) \o <<>>
  BY <1>2, <1>3, <1>6, <1>7 DEF FlattensAt
<1> QED
  BY <1>4, <1>8, ConcatEmptySeq

LEMMA OutsideOfText ==
  ASSUME NEW text \in Seq(Lines), \A i \in 1..Len(text) : text[i] # "start"
  PROVE  Outside(text) = Theirs(text)
<1>1. Len(text) \in Nat
  BY LenProperties
<1>2. Extends(text, text)
  BY <1>1 DEF Extends
<1> QED
  BY <1>2, OutsideOfExtension

-----------------------------------------------------------------------------
\* What the searches find.
LEMMA StartFound ==
  ASSUME NEW lines \in Seq(Lines)
  PROVE  /\ Start(lines) \in 0..Len(lines)
         /\ Start(lines) = 0 => \A i \in 1..Len(lines) : lines[i] # "start"
         /\ Start(lines) # 0 => /\ lines[Start(lines)] = "start"
                               /\ \A i \in 1..(Start(lines) - 1) : lines[i] # "start"
<1> DEFINE I == {i \in 1..Len(lines) : lines[i] = "start"}
<1>1. Len(lines) \in Nat
  BY LenProperties
<1>2. Start(lines) = IF I # {} THEN Min(I) ELSE 0
  BY DEF Start, SelectInSeq
<1>3. I # {} => Min(I) \in I /\ \A i \in I : Min(I) <= i
  <2>1. I \subseteq Nat
    BY <1>1
  <2> HIDE DEF I
  <2> QED
    BY <2>1, LeastMember
<1>4. CASE I = {}
  BY <1>1, <1>2, <1>4
<1>5. CASE I # {}
  <2> DEFINE s == Min(I)
  <2>1. s = Start(lines) /\ s \in I /\ \A i \in I : s <= i
    BY <1>2, <1>3, <1>5
  <2> HIDE DEF s
  <2> QED
    BY <1>1, <2>1
<1> QED
  BY <1>4, <1>5

LEMMA EndFound ==
  ASSUME NEW lines \in Seq(Lines), HasBlock(lines), End(lines) # 0
  PROVE  /\ End(lines) \in Start(lines) + 1..Len(lines) /\ lines[End(lines)] = "end"
         /\ \A i \in Start(lines)..(End(lines) - 1) : lines[i] # "end"
<1> DEFINE s == Start(lines)
           I == {i \in s..Len(lines) : lines[i] = "end"}
<1>1. Len(lines) \in Nat /\ s \in 1..Len(lines) /\ lines[s] = "start"
  BY LenProperties, StartFound DEF HasBlock
<1>2. End(lines) = IF I # {} THEN Min(I) ELSE 0
  BY DEF End, SelectInSubSeq
<1>3. I # {} => Min(I) \in I /\ \A i \in I : Min(I) <= i
  <2>1. I \subseteq Nat
    BY <1>1
  <2> HIDE DEF I
  <2> QED
    BY <2>1, LeastMember
<1>4. I # {}
  BY <1>2
<1> DEFINE e == Min(I)
<1>5. e = End(lines) /\ e \in I /\ \A i \in I : e <= i
  BY <1>2, <1>3, <1>4
<1> HIDE DEF e, s
<1> QED
  BY <1>1, <1>5 DEF s

\* The last line with text in it.
LastText(lines) == SelectLastInSeq(lines, LAMBDA l : l # "blank")

LEMMA LastTextFound ==
  ASSUME NEW lines \in Seq(Lines)
  PROVE  /\ LastText(lines) \in 0..Len(lines)
         /\ \A i \in LastText(lines) + 1..Len(lines) : lines[i] = "blank"
         /\ LastText(lines) # 0 => lines[LastText(lines)] # "blank"
<1> DEFINE I == {i \in 1..Len(lines) : lines[i] # "blank"}
<1>1. Len(lines) \in Nat
  BY LenProperties
<1>2. LastText(lines) = IF I # {} THEN Max(I) ELSE 0
  BY DEF LastText, SelectLastInSeq
<1>3. I # {} => Max(I) \in I /\ \A i \in I : i <= Max(I)
  <2>1. I \subseteq 0..Len(lines)
    BY <1>1
  <2> HIDE DEF I
  <2> QED
    BY <1>1, <2>1, GreatestMember
<1>4. CASE I = {}
  BY <1>1, <1>2, <1>4
<1>5. CASE I # {}
  <2> DEFINE m == Max(I)
  <2>1. m = LastText(lines) /\ m \in I /\ \A i \in I : i <= m
    BY <1>2, <1>3, <1>5
  <2> HIDE DEF m
  <2> QED
    BY <1>1, <2>1
<1> QED
  BY <1>4, <1>5

-----------------------------------------------------------------------------
\* What is left of a file without its block: the k lines before the block, but
\* for a blank one, and the lines behind it.
CutAt(lines, k) ==
  /\ k \in 0..Start(lines) - 1
  /\ \A i \in k + 1..Start(lines) - 1 : lines[i] = "blank"
  /\ Cut(lines) = SubSeq(lines, 1, k) \o SubSeq(lines, End(lines) + 1, Len(lines))

LEMMA CutFound ==
  ASSUME NEW lines \in Seq(Lines), HasBlock(lines)
  PROVE  \E k \in Nat : CutAt(lines, k)
<1> DEFINE s == Start(lines)
           before == SubSeq(lines, 1, s - 1)
           behind == SubSeq(lines, End(lines) + 1, Len(lines))
<1>1. Len(lines) \in Nat /\ s \in 1..Len(lines)
  BY LenProperties, StartFound DEF HasBlock
<1>2. /\ before \in Seq(Lines) /\ Len(before) = s - 1
      /\ \A i \in 1..s - 1 : before[i] = lines[i]
  <2>1. \A i \in 1..s - 1 : lines[i] \in Lines
    BY <1>1, ElementOfSeq
  <2>2. /\ SubSeq(lines, 1, s - 1) \in Seq(Lines)
        /\ Len(SubSeq(lines, 1, s - 1)) = IF 1 <= s - 1 THEN (s - 1) - 1 + 1 ELSE 0
        /\ \A i \in 1..(s - 1) - 1 + 1 : SubSeq(lines, 1, s - 1)[i] = lines[1 + i - 1]
    <3> HIDE DEF s
    <3> QED
      BY <1>1, <2>1, SubSeqProperties
  <2> HIDE DEF s
  <2>3. \A i \in 1..s - 1 : i \in 1..(s - 1) - 1 + 1 /\ 1 + i - 1 = i
    BY <1>1
  <2> QED
    BY <1>1, <2>2, <2>3
<1>3. CASE Len(before) > 1 /\ Last(before) = "blank"
  <2>1. s - 2 \in Nat /\ s - 2 \in 0..s - 1 /\ lines[s - 1] = "blank"
    BY <1>1, <1>2, <1>3 DEF Last
  <2>2. Front(before) = SubSeq(lines, 1, s - 2)
    <3> DEFINE front == SubSeq(before, 1, Len(before) - 1)
               same == SubSeq(lines, 1, s - 2)
    <3> HIDE DEF before, s
    <3>1. \A i \in 1..s - 2 : before[i] \in Lines /\ lines[i] \in Lines /\ before[i] = lines[i]
      BY <1>1, <1>2, ElementOfSeq
    <3>2. /\ front \in Seq(Lines) /\ Len(front) = IF 1 <= s - 2 THEN (s - 2) - 1 + 1 ELSE 0
          /\ \A i \in 1..(s - 2) - 1 + 1 : front[i] = before[1 + i - 1]
      <4>1. Len(before) - 1 = s - 2
        BY <1>1, <1>2
      <4> QED
        BY <1>1, <3>1, <4>1, SubSeqProperties
    <3>3. /\ same \in Seq(Lines) /\ Len(same) = IF 1 <= s - 2 THEN (s - 2) - 1 + 1 ELSE 0
          /\ \A i \in 1..(s - 2) - 1 + 1 : same[i] = lines[1 + i - 1]
      BY <1>1, <3>1, SubSeqProperties
    <3> HIDE DEF front, same
    <3>4. ASSUME NEW i \in 1..Len(front)
          PROVE  front[i] = same[i]
      <4>1. i \in 1..(s - 2) - 1 + 1 /\ 1 + i - 1 = i /\ i \in 1..s - 2
        BY <1>1, <3>2
      <4> QED
        BY <3>1, <3>2, <3>3, <4>1
    <3>5. front = same
      BY <3>2, <3>3, <3>4, SeqEqual
    <3> QED
      BY <3>5 DEF Front, front, same
  <2>3. \A i \in (s - 2) + 1..s - 1 : lines[i] = "blank"
    BY <1>1, <2>1
  <2>4. Cut(lines) = SubSeq(lines, 1, s - 2) \o behind
    BY <1>3, <2>2 DEF Cut
  <2>5. CutAt(lines, s - 2)
    BY <2>1, <2>3, <2>4 DEF CutAt
  <2> QED
    BY <2>1, <2>5
<1>4. CASE ~(Len(before) > 1 /\ Last(before) = "blank")
  <2>1. Cut(lines) = before \o behind
    BY <1>4 DEF Cut
  <2>2. s - 1 \in Nat /\ s - 1 \in 0..s - 1 /\ (s - 1) + 1..s - 1 = {}
    BY <1>1
  <2>3. CutAt(lines, s - 1)
    BY <2>1, <2>2 DEF CutAt
  <2> QED
    BY <2>2, <2>3
<1> QED
  BY <1>3, <1>4

LEMMA CutParts ==
  ASSUME NEW lines \in Seq(Lines), HasBlock(lines), End(lines) # 0,
         NEW k \in Nat, CutAt(lines, k)
  PROVE  /\ Cut(lines) \in Seq(Lines) /\ Len(Cut(lines)) = k + (Len(lines) - End(lines))
         /\ SubSeq(lines, 1, k) \in Seq(Lines) /\ Len(SubSeq(lines, 1, k)) = k
         /\ \A i \in 1..k : SubSeq(lines, 1, k)[i] = lines[i]
         /\ SubSeq(lines, End(lines) + 1, Len(lines)) \in Seq(Lines)
         /\ Len(SubSeq(lines, End(lines) + 1, Len(lines))) = Len(lines) - End(lines)
         /\ \A i \in 1..Len(lines) - End(lines) :
              SubSeq(lines, End(lines) + 1, Len(lines))[i] = lines[End(lines) + i]
         /\ \A i \in 1..k : Cut(lines)[i] = lines[i]
         /\ \A i \in 1..Len(lines) - End(lines) : Cut(lines)[k + i] = lines[End(lines) + i]
<1> DEFINE e == End(lines)
           n == Len(lines)
           a == SubSeq(lines, 1, k)
           b == SubSeq(lines, e + 1, n)
<1>1. n \in Nat /\ e \in 1..n /\ k < e
  BY LenProperties, StartFound, EndFound DEF CutAt
<1>2. Cut(lines) = a \o b
  BY DEF CutAt
<1>3. \A i \in 1..n : lines[i] \in Lines
  BY ElementOfSeq
<1> HIDE DEF e, n
<1>4. a \in Seq(Lines) /\ Len(a) = k /\ \A i \in 1..k : a[i] = lines[i]
  <2>1. \A i \in 1..k : lines[i] \in Lines
    BY <1>1, <1>3
  <2>2. /\ a \in Seq(Lines) /\ Len(a) = IF 1 <= k THEN k - 1 + 1 ELSE 0
        /\ \A i \in 1..k - 1 + 1 : a[i] = lines[1 + i - 1]
    BY <2>1, SubSeqProperties
  <2> HIDE DEF a
  <2>3. \A i \in 1..k : i \in 1..k - 1 + 1 /\ 1 + i - 1 = i
    OBVIOUS
  <2> QED
    BY <2>2, <2>3
<1>5. b \in Seq(Lines) /\ Len(b) = n - e /\ \A i \in 1..n - e : b[i] = lines[e + i]
  <2>1. e + 1 \in Int /\ n \in Int /\ \A i \in e + 1..n : lines[i] \in Lines
    BY <1>1, <1>3
  <2>2. /\ b \in Seq(Lines) /\ Len(b) = IF e + 1 <= n THEN n - (e + 1) + 1 ELSE 0
        /\ \A i \in 1..n - (e + 1) + 1 : b[i] = lines[(e + 1) + i - 1]
    BY <2>1, SubSeqProperties
  <2> HIDE DEF b
  <2>3. \A i \in 1..n - e : i \in 1..n - (e + 1) + 1 /\ (e + 1) + i - 1 = e + i
    BY <1>1
  <2>4. n - (e + 1) + 1 = n - e /\ (~(e + 1 <= n) => n - e = 0)
    BY <1>1
  <2> QED
    BY <2>2, <2>3, <2>4
<1> HIDE DEF a, b
<1>6. /\ a \o b \in Seq(Lines) /\ Len(a \o b) = k + (n - e)
      /\ \A i \in 1..k + (n - e) : (a \o b)[i] = IF i <= k THEN a[i] ELSE b[i - k]
  <2>1. /\ a \o b \in Seq(Lines) /\ Len(a \o b) = Len(a) + Len(b)
        /\ \A i \in 1..Len(a) + Len(b) :
             (a \o b)[i] = IF i <= Len(a) THEN a[i] ELSE b[i - Len(a)]
    BY <1>4, <1>5, ConcatProperties
  <2>2. Len(a) = k /\ Len(b) = n - e
    BY <1>4, <1>5
  <2> QED
    BY <2>1, <2>2
<1>7. \A i \in 1..k : (a \o b)[i] = lines[i]
  BY <1>1, <1>4, <1>6
<1>8. ASSUME NEW i \in 1..n - e
      PROVE  (a \o b)[k + i] = lines[e + i]
  <2>1. k + i \in 1..k + (n - e) /\ ~(k + i <= k) /\ (k + i) - k = i
    BY <1>1
  <2> QED
    BY <1>5, <1>6, <2>1
<1> QED
  BY <1>2, <1>4, <1>5, <1>6, <1>7, <1>8 DEF e, n, a, b

NoMarker(lines) == \A i \in 1..Len(lines) : lines[i] \notin {"start", "end"}

LEMMA RemovedIsClean ==
  ASSUME NEW lines \in Seq(Lines), Removable(lines)
  PROVE  /\ RemoveBlock(lines) \in Seq(Lines) /\ NoMarker(RemoveBlock(lines))
         /\ HasBlock(lines) => End(lines) # 0
<1>1. CASE HasBlock(lines)
  <2>1. End(lines) # 0 /\ ToSet(Cut(lines)) \intersect {"start", "end"} = {}
    BY <1>1 DEF Removable
  <2>2. PICK k \in Nat : CutAt(lines, k)
    BY <1>1, CutFound
  <2>3. Cut(lines) \in Seq(Lines)
    BY <1>1, <2>1, <2>2, CutParts
  <2>4. DOMAIN Cut(lines) = 1..Len(Cut(lines))
    BY <2>3, LenProperties
  <2>5. NoMarker(Cut(lines))
    BY <2>1, <2>4 DEF NoMarker, ToSet
  <2> QED
    BY <1>1, <2>1, <2>3, <2>5 DEF RemoveBlock
<1>2. CASE ~HasBlock(lines)
  <2>1. "end" \notin ToSet(lines) /\ Start(lines) = 0
    BY <1>2 DEF Removable, HasBlock
  <2>2. DOMAIN lines = 1..Len(lines) /\ \A i \in 1..Len(lines) : lines[i] # "start"
    BY <2>1, LenProperties, StartFound
  <2>3. NoMarker(lines)
    BY <2>1, <2>2 DEF NoMarker, ToSet
  <2> QED
    BY <1>2, <2>3 DEF RemoveBlock
<1> QED
  BY <1>1, <1>2

\* remove_block takes no line of the user out, and keeps their order.
LEMMA RemovalKeeps ==
  ASSUME NEW lines \in Seq(Lines), Removable(lines)
  PROVE  Outside(lines) = Theirs(RemoveBlock(lines))
<1>1. CASE ~HasBlock(lines)
  <2>1. RemoveBlock(lines) = lines /\ \A i \in 1..Len(lines) : lines[i] # "start"
    BY <1>1, StartFound DEF RemoveBlock, HasBlock
  <2> QED
    BY <2>1, OutsideOfText
<1>2. CASE HasBlock(lines)
  <2> DEFINE shown == Shown(lines)
             s == Start(lines)
             e == End(lines)
             n == Len(lines)
  <2>1. PICK k \in Nat : CutAt(lines, k)
    BY <1>2, CutFound
  <2> DEFINE a == SubSeq(lines, 1, k)
             b == SubSeq(lines, e + 1, n)
  <2>2. End(lines) # 0 /\ NoMarker(Cut(lines)) /\ RemoveBlock(lines) = Cut(lines)
    BY <1>2, RemovedIsClean DEF RemoveBlock
  <2>3. /\ n \in Nat /\ s \in 1..n /\ e \in s + 1..n /\ k \in 0..s - 1
        /\ lines[s] = "start" /\ lines[e] = "end"
        /\ \A i \in 1..s - 1 : lines[i] # "start"
        /\ \A i \in s..e - 1 : lines[i] # "end"
        /\ \A i \in k + 1..s - 1 : lines[i] = "blank"
    <3>1. /\ n \in Nat /\ s \in 1..n
          /\ lines[s] = "start" /\ \A i \in 1..s - 1 : lines[i] # "start"
      BY <1>2, LenProperties, StartFound DEF HasBlock
    <3>2. /\ e \in s + 1..n /\ lines[e] = "end" /\ \A i \in s..e - 1 : lines[i] # "end"
      BY <1>2, <2>2, <3>1, EndFound
    <3>3. k \in 0..s - 1 /\ \A i \in k + 1..s - 1 : lines[i] = "blank"
      BY <2>1, <3>1 DEF CutAt
    <3> QED
      BY <3>1, <3>2, <3>3
  <2>4. /\ a \in Seq(Lines) /\ Len(a) = k /\ \A i \in 1..k : a[i] = lines[i]
        /\ b \in Seq(Lines) /\ Len(b) = n - e /\ \A i \in 1..n - e : b[i] = lines[e + i]
        /\ Len(Cut(lines)) = k + (n - e)
        /\ \A i \in 1..n - e : Cut(lines)[k + i] = lines[e + i]
    BY <1>2, <2>1, <2>2, CutParts
  <2>5. Cut(lines) = a \o b
    BY <2>1 DEF CutAt
  <2>6. ASSUME NEW i \in 1..n - e
        PROVE  lines[e + i] \notin {"start", "end"}
    <3>1. k \in Nat /\ n - e \in Nat
      BY <2>3
    <3>3. Len(Cut(lines)) = k + (n - e)
      BY <2>4
    <3>2. k + i \in 1..Len(Cut(lines))
      BY <3>1, <3>3
    <3> QED
      BY <2>2, <2>4, <3>2 DEF NoMarker
  <2>7. shown \in Seq(Seq(UserLines)) /\ Len(shown) = n /\ Outside(lines) = FlattenSeq(shown)
    BY ShownType
  <2> HIDE DEF s, e
  <2>8. FlattenSeq(SubSeq(shown, 1, k)) = Theirs(a)
    <3>1. ASSUME NEW i \in 1..k
          PROVE  a[i] = lines[(1 + i) - 1] /\ ~Open(lines, (1 + i) - 1)
      <4>1. (1 + i) - 1 = i /\ a[i] = lines[i]
        BY <2>4
      <4>2. \A j \in 1..i - 1 : j \in 1..s - 1
        BY <2>3
      <4>3. \A j \in 1..i - 1 : lines[j] # "start"
        BY <2>3, <4>2
      <4> QED
        BY <4>1, <4>3 DEF Open
    <3>2. 1 \in 1..n + 1 /\ k \in 1 - 1..n /\ Len(a) = (k - 1) + 1
      BY <2>3, <2>4
    <3> HIDE DEF a
    <3> QED
      BY <2>4, <3>1, <3>2, PartShown
  <2>9. FlattenSeq(SubSeq(shown, k + 1, e)) = <<>>
    <3>1. ASSUME NEW i \in k + 1..e
          PROVE  lines[i] \notin UserLines \/ Open(lines, i)
      <4>1. CASE i \in s + 1..e - 1
        <5>1. s \in 1..i - 1 /\ \A j \in s..i : j \in s..e - 1
          BY <2>3, <4>1
        <5>2. \A j \in s..i : lines[j] # "end"
          BY <2>3, <5>1
        <5> QED
          BY <2>3, <5>1, <5>2 DEF Open
      <4>2. CASE i \notin s + 1..e - 1
        <5>1. i \in k + 1..s - 1 \/ i = s \/ i = e
          BY <2>3, <4>2
        <5>2. lines[i] \in {"blank", "start", "end"}
          BY <2>3, <5>1
        <5> QED
          BY <5>2, LinesAssumption
      <4> QED
        BY <4>1, <4>2
    <3>2. k + 1 \in 1..n + 1 /\ e \in (k + 1) - 1..n
      BY <2>3
    <3> QED
      BY <3>1, <3>2, PartHidden
  <2>10. FlattenSeq(SubSeq(shown, e + 1, n)) = Theirs(b)
    <3>1. ASSUME NEW i \in 1..n - e
          PROVE  b[i] = lines[((e + 1) + i) - 1] /\ ~Open(lines, ((e + 1) + i) - 1)
      <4>1. ((e + 1) + i) - 1 = e + i /\ b[i] = lines[e + i] /\ e + i \in Int
        BY <2>3, <2>4
      <4>2. ASSUME NEW j \in 1..(e + i) - 1, lines[j] = "start"
            PROVE  \E m \in j..e + i : lines[m] = "end"
        <5>1. CASE j <= e
          <6>1. e \in j..e + i
            BY <2>3, <5>1
          <6> QED
            BY <2>3, <6>1
        <5>2. CASE ~(j <= e)
          <6>1. j - e \in 1..n - e /\ e + (j - e) = j
            BY <2>3, <5>2
          <6> QED
            BY <2>6, <4>2, <6>1
        <5> QED
          BY <5>1, <5>2
      <4>3. ~Open(lines, e + i)
        BY <4>2 DEF Open
      <4> QED
        BY <4>1, <4>3
    <3>2. e + 1 \in 1..n + 1 /\ n \in (e + 1) - 1..n /\ Len(b) = (n - (e + 1)) + 1
      BY <2>3, <2>4
    <3>3. Len(b) = n - e
      BY <2>4
    <3> HIDE DEF b
    <3> QED
      BY <2>4, <3>1, <3>2, <3>3, PartShown
  <2> DEFINE p == SubSeq(shown, 1, k)
             q == SubSeq(shown, k + 1, n)
             r == SubSeq(shown, k + 1, e)
             t == SubSeq(shown, e + 1, n)
  <2> HIDE DEF shown
  <2>11. FlattenSeq(shown) = FlattenSeq(p) \o FlattenSeq(q)
    <3>1. 1 \in 1..Len(shown) + 1 /\ k \in 1 - 1..Len(shown) /\ n \in k..Len(shown)
      BY <2>3, <2>7
    <3>2. FlattensAt(shown, 1, k, n)
      BY <2>7, <3>1, FlattenSplit
    <3>3. SubSeq(shown, 1, n) = shown
      BY <2>7, SubSeqFull
    <3> QED
      BY <3>2, <3>3 DEF FlattensAt
  <2>12. FlattenSeq(q) = FlattenSeq(r) \o FlattenSeq(t)
    <3>1. k + 1 \in 1..Len(shown) + 1 /\ e \in (k + 1) - 1..Len(shown) /\ n \in e..Len(shown)
      BY <2>3, <2>7
    <3>2. FlattensAt(shown, k + 1, e, n)
      BY <2>7, <3>1, FlattenSplit
    <3> QED
      BY <3>2 DEF FlattensAt
  <2>13. Theirs(b) \in Seq(UserLines)
    BY <2>4, TheirsType
  <2>14. FlattenSeq(q) = Theirs(b)
    <3>1. FlattenSeq(r) = <<>> /\ FlattenSeq(t) = Theirs(b)
      BY <2>9, <2>10
    <3> HIDE DEF q, r, t, b
    <3> QED
      BY <2>12, <2>13, <3>1, ConcatEmptySeq
  <2>15. Theirs(a \o b) = Theirs(a) \o Theirs(b)
    <3> DEFINE f == Own
    <3>1. f \in [Lines -> Seq(UserLines)]
      BY OwnType
    <3> HIDE DEF f, a, b
    <3>2. Joins(f, a, b)
      BY <2>4, <3>1, EachConcat
    <3> QED
      BY <3>2 DEF Joins, f, Theirs
  <2> QED
    BY <2>2, <2>5, <2>7, <2>8, <2>11, <2>14, <2>15
<1> QED
  BY <1>1, <1>2

-----------------------------------------------------------------------------
\* A text as the commands leave it in front of their block.
IsText(text) ==
  /\ text \in Seq(Lines) /\ NoMarker(text)
  /\ Len(text) # 0 => text[Len(text)] # "blank"

LEMMA PrefixOf ==
  ASSUME NEW lines \in Seq(Lines), NEW k \in 0..Len(lines)
  PROVE  /\ SubSeq(lines, 1, k) \in Seq(Lines) /\ Len(SubSeq(lines, 1, k)) = k
         /\ \A i \in 1..k : SubSeq(lines, 1, k)[i] = lines[i]
<1> DEFINE a == SubSeq(lines, 1, k)
<1>1. Len(lines) \in Nat /\ \A i \in 1..k : lines[i] \in Lines
  BY LenProperties, ElementOfSeq
<1>2. /\ a \in Seq(Lines) /\ Len(a) = IF 1 <= k THEN k - 1 + 1 ELSE 0
      /\ \A i \in 1..k - 1 + 1 : a[i] = lines[1 + i - 1]
  BY <1>1, SubSeqProperties
<1> HIDE DEF a
<1>3. \A i \in 1..k : i \in 1..k - 1 + 1 /\ 1 + i - 1 = i
  BY <1>1
<1>4. a \in Seq(Lines) /\ Len(a) = k /\ \A i \in 1..k : a[i] = lines[i]
  BY <1>1, <1>2, <1>3
<1> QED
  BY <1>4 DEF a

LEMMA TextFound ==
  ASSUME NEW lines \in Seq(Lines), NoMarker(lines)
  PROVE  \E text : IsText(text) /\ Extends(lines, text)
<1> DEFINE k == LastText(lines)
           text == SubSeq(lines, 1, k)
<1>1. /\ Len(lines) \in Nat /\ k \in 0..Len(lines)
      /\ \A i \in k + 1..Len(lines) : lines[i] = "blank"
      /\ k # 0 => lines[k] # "blank"
  BY LenProperties, LastTextFound
<1> HIDE DEF k
<1>2. text \in Seq(Lines) /\ Len(text) = k /\ \A i \in 1..k : text[i] = lines[i]
  BY <1>1, PrefixOf
<1> HIDE DEF text
<1>3. IsText(text)
  BY <1>1, <1>2 DEF IsText, NoMarker
<1>4. Extends(lines, text)
  BY <1>1, <1>2 DEF Extends, Extra
<1> QED
  BY <1>3, <1>4

LEMMA TextKept ==
  ASSUME NEW text, IsText(text), NEW lines \in Seq(Lines), Extends(lines, text)
  PROVE  Outside(lines) = Theirs(text)
<1>1. text \in Seq(Lines) /\ \A i \in 1..Len(text) : text[i] # "start"
  BY DEF IsText, NoMarker
<1> QED
  BY <1>1, OutsideOfExtension

LEMMA RemoveExtends ==
  ASSUME NEW text, IsText(text), NEW lines \in Seq(Lines), Extends(lines, text),
         Removable(lines)
  PROVE  Extends(RemoveBlock(lines), text)
<1>1. CASE ~HasBlock(lines)
  BY <1>1 DEF RemoveBlock
<1>2. CASE HasBlock(lines)
  <2> DEFINE s == Start(lines)
             e == End(lines)
             n == Len(lines)
             l == Len(text)
             cut == Cut(lines)
  <2>1. PICK k \in Nat : CutAt(lines, k)
    BY <1>2, CutFound
  <2>2. End(lines) # 0
    BY <1>2, RemovedIsClean
  <2>3. /\ n \in Nat /\ s \in 1..n /\ e \in s + 1..n /\ k \in 0..s - 1
        /\ lines[s] = "start" /\ \A i \in k + 1..s - 1 : lines[i] = "blank"
    BY <1>2, <2>1, <2>2, LenProperties, StartFound, EndFound DEF CutAt
  <2>4. /\ Len(cut) = k + (n - e) /\ \A i \in 1..k : cut[i] = lines[i]
        /\ \A i \in 1..n - e : cut[k + i] = lines[e + i]
    BY <1>2, <2>1, <2>2, CutParts
  <2>5. /\ l \in Nat /\ l <= n /\ \A i \in 1..l : lines[i] = text[i]
        /\ \A i \in l + 1..n : lines[i] \in Extra
        /\ \A i \in 1..l : text[i] # "start"
        /\ l # 0 => text[l] # "blank"
    BY LenProperties DEF IsText, Extends, NoMarker
  <2> HIDE DEF s, e, n, l, cut
  <2>6. l < s
    BY <2>3, <2>5
  <2>7. l <= k
    BY <2>3, <2>5, <2>6
  <2>8. l <= Len(cut) /\ \A i \in 1..l : cut[i] = text[i]
    <3>1. l <= Len(cut)
      BY <2>3, <2>4, <2>5, <2>7
    <3>2. \A i \in 1..l : i \in 1..k
      BY <2>3, <2>5, <2>7
    <3> QED
      BY <2>4, <2>5, <3>1, <3>2
  <2>9. ASSUME NEW i \in l + 1..Len(cut)
        PROVE  cut[i] \in Extra
    <3>1. CASE i <= k
      <4>1. i \in 1..k /\ i \in l + 1..n
        BY <2>3, <2>4, <2>5, <3>1
      <4> QED
        BY <2>4, <2>5, <4>1
    <3>2. CASE ~(i <= k)
      <4>1. i - k \in 1..n - e /\ k + (i - k) = i
        BY <2>3, <2>4, <2>5, <3>2
      <4>2. cut[i] = lines[e + (i - k)]
        BY <2>4, <4>1
      <4>3. e + (i - k) \in l + 1..n
        BY <2>3, <2>5, <2>6, <4>1
      <4> QED
        BY <2>5, <4>2, <4>3
    <3> QED
      BY <3>1, <3>2
  <2>10. RemoveBlock(lines) = cut
    BY <1>2 DEF RemoveBlock, cut
  <2> QED
    BY <2>8, <2>9, <2>10 DEF Extends, l
<1> QED
  BY <1>1, <1>2

\* One text behind another, the second a part of a block or of blank lines.
LEMMA MoreExtends ==
  ASSUME NEW text \in Seq(Lines), NEW lines \in Seq(Lines), Extends(lines, text),
         NEW more \in Seq(Lines), \A i \in 1..Len(more) : more[i] \in Extra
  PROVE  lines \o more \in Seq(Lines) /\ Extends(lines \o more, text)
<1> DEFINE all == lines \o more
           l == Len(text)
           n == Len(lines)
           m == Len(more)
<1>1. n \in Nat /\ m \in Nat /\ l \in Nat
  BY LenProperties
<1>2. /\ all \in Seq(Lines) /\ Len(all) = n + m
      /\ \A i \in 1..n + m : all[i] = IF i <= n THEN lines[i] ELSE more[i - n]
  BY ConcatProperties
<1>3. /\ l <= n /\ \A i \in 1..l : lines[i] = text[i]
      /\ \A i \in l + 1..n : lines[i] \in Extra
      /\ \A i \in 1..m : more[i] \in Extra
  BY DEF Extends
<1> HIDE DEF all, l, n, m
<1>4. l <= Len(all) /\ \A i \in 1..l : all[i] = text[i]
  <2>1. \A i \in 1..l : i \in 1..n + m /\ i <= n
    BY <1>1, <1>3
  <2> QED
    BY <1>1, <1>2, <1>3, <2>1
<1>5. ASSUME NEW i \in l + 1..Len(all)
      PROVE  all[i] \in Extra
  <2>1. i \in 1..n + m
    BY <1>1, <1>2
  <2>2. CASE i <= n
    <3>1. i \in l + 1..n
      BY <1>1, <1>2, <2>2
    <3> QED
      BY <1>2, <1>3, <2>1, <2>2, <3>1
  <2>3. CASE ~(i <= n)
    <3>1. i - n \in 1..m
      BY <1>1, <1>2, <2>1, <2>3
    <3> QED
      BY <1>2, <1>3, <2>1, <2>3, <3>1
  <2> QED
    BY <2>2, <2>3
<1> QED
  BY <1>2, <1>4, <1>5 DEF Extends, all, l

LEMMA BlockType == Block \in Seq(Lines) /\ \A i \in 1..Len(Block) : Block[i] \in Extra
<1>1. "start" \in Lines /\ "exports" \in Lines /\ "end" \in Lines
  BY DEF Lines, Extra
<1>2. Block \in Seq(Lines)
  BY <1>1 DEF Block
<1>3. Len(Block) = 3 /\ Block[1] \in Extra /\ Block[2] \in Extra /\ Block[3] \in Extra
  BY DEF Block, Extra
<1> QED
  BY <1>2, <1>3

LEMMA AppendBlockType ==
  ASSUME NEW lines \in Seq(Lines)
  PROVE  AppendBlock(lines) \in Seq(Lines)
<1> DEFINE k == LastText(lines)
           text == SubSeq(lines, 1, k)
           front == IF k = 0 THEN <<>> ELSE Append(text, "blank")
<1>1. k \in 0..Len(lines)
  BY LastTextFound
<1> HIDE DEF k
<1>2. text \in Seq(Lines)
  BY <1>1, PrefixOf
<1> HIDE DEF text
<1>3. front \in Seq(Lines)
  <2>1. "blank" \in Lines
    BY DEF Lines, Extra
  <2> QED
    BY <1>2, <2>1, AppendProperties, EmptySeq
<1>4. AppendBlock(lines) = front \o Block
  BY DEF AppendBlock, LastText, k, text
<1> HIDE DEF front
<1> QED
  BY <1>3, <1>4, BlockType, ConcatProperties

LEMMA AppendExtends ==
  ASSUME NEW text, IsText(text), NEW lines \in Seq(Lines), Extends(lines, text)
  PROVE  Extends(AppendBlock(lines), text)
<1> DEFINE k == LastText(lines)
           l == Len(text)
           most == SubSeq(lines, 1, k)
           front == IF k = 0 THEN <<>> ELSE Append(most, "blank")
<1>1. /\ Len(lines) \in Nat /\ k \in 0..Len(lines)
      /\ \A i \in k + 1..Len(lines) : lines[i] = "blank"
  BY LenProperties, LastTextFound
<1>2. /\ text \in Seq(Lines) /\ l \in Nat /\ l <= Len(lines)
      /\ \A i \in 1..l : lines[i] = text[i]
      /\ \A i \in l + 1..Len(lines) : lines[i] \in Extra
      /\ l # 0 => text[l] # "blank"
  BY LenProperties DEF IsText, Extends
<1>3. AppendBlock(lines) = front \o Block
  BY DEF AppendBlock, LastText
<1> HIDE DEF k, l
<1>4. l <= k
  BY <1>1, <1>2
<1>5. most \in Seq(Lines) /\ Len(most) = k /\ \A i \in 1..k : most[i] = lines[i]
  BY <1>1, PrefixOf
<1> HIDE DEF most
<1>6. front \in Seq(Lines) /\ Extends(front, text)
  <2>1. CASE k = 0
    <3>1. front = <<>> /\ l = 0
      BY <1>1, <1>2, <1>4, <2>1
    <3>2. <<>> \in Seq(Lines) /\ Len(<<>>) = 0
      BY EmptySeq
    <3>3. Extends(<<>>, text)
      BY <3>1, <3>2 DEF Extends, l
    <3> QED
      BY <3>1, <3>2, <3>3
  <2>2. CASE k # 0
    <3>1. "blank" \in Lines /\ "blank" \in Extra /\ front = Append(most, "blank")
      BY <2>2 DEF Lines, Extra
    <3>2. /\ front \in Seq(Lines) /\ Len(front) = k + 1 /\ front[k + 1] = "blank"
          /\ \A i \in 1..k : front[i] = lines[i]
      BY <1>5, <3>1, AppendProperties
    <3> HIDE DEF front
    <3>3. \A i \in 1..l : front[i] = text[i]
      BY <1>1, <1>2, <1>4, <3>2
    <3>4. ASSUME NEW i \in l + 1..Len(front)
          PROVE  front[i] \in Extra
      <4>1. i = k + 1 \/ (i \in 1..k /\ i \in l + 1..Len(lines))
        BY <1>1, <1>2, <3>2
      <4> QED
        BY <1>2, <3>1, <3>2, <4>1
    <3>5. Extends(front, text)
      BY <1>1, <1>2, <1>4, <3>2, <3>3, <3>4 DEF Extends, l
    <3> QED
      BY <3>2, <3>5
  <2> QED
    BY <2>1, <2>2
<1> HIDE DEF front
<1> QED
  BY <1>2, <1>3, <1>6, BlockType, MoreExtends

\* What is written over a text that begins with the same lines, or over nothing.
LEMMA OverExtends ==
  ASSUME NEW text, IsText(text), NEW lines \in Seq(Lines), Extends(lines, text),
         shell \in Seq(Lines), shell = <<>> \/ Extends(shell, text)
  PROVE  Over(lines) \in Seq(Lines) /\ Extends(Over(lines), text)
<1> DEFINE n == Len(lines)
           m == Len(shell)
           more == SubSeq(shell, n + 1, m)
<1>1. n \in Nat /\ m \in Nat /\ text \in Seq(Lines) /\ Len(text) \in Nat
  BY LenProperties DEF IsText
<1>2. Len(text) <= n
  BY DEF Extends
<1>3. \A i \in n + 1..m : shell[i] \in Lines /\ shell[i] \in Extra
  <2>1. CASE shell = <<>>
    <3>1. m = 0
      BY <2>1, EmptySeq
    <3> QED
      BY <1>1, <3>1
  <2>2. CASE Extends(shell, text)
    <3>1. \A i \in n + 1..m : i \in 1..m /\ i \in Len(text) + 1..m
      BY <1>1, <1>2
    <3> QED
      BY <2>2, <3>1, ElementOfSeq DEF Extends
  <2> QED
    BY <2>1, <2>2
<1> HIDE DEF n, m
<1>4. /\ more \in Seq(Lines) /\ Len(more) = IF n + 1 <= m THEN m - (n + 1) + 1 ELSE 0
      /\ \A i \in 1..m - (n + 1) + 1 : more[i] = shell[(n + 1) + i - 1]
  <2>1. n + 1 \in Int /\ m \in Int /\ \A i \in n + 1..m : shell[i] \in Lines
    BY <1>1, <1>3
  <2> QED
    BY <2>1, SubSeqProperties
<1> HIDE DEF more
<1>5. ASSUME NEW i \in 1..Len(more)
      PROVE  more[i] \in Extra
  <2>1. i \in 1..m - (n + 1) + 1 /\ (n + 1) + i - 1 \in n + 1..m
    BY <1>1, <1>4
  <2> QED
    BY <1>3, <1>4, <2>1
<1>6. Over(lines) = lines \o more
  BY DEF Over, more, n, m
<1> QED
  BY <1>1, <1>4, <1>5, <1>6, MoreExtends

-----------------------------------------------------------------------------
ShellTypeOK ==
  /\ shell \in Seq(Lines) /\ torn \in BOOLEAN
  /\ command \in [Commands -> {"idle", "install", "truncate", "write", "end"}]
  /\ updated \in [Commands -> Seq(Lines)]

InFlight(c) == command[c] \in {"truncate", "write"}

\* While commands are under way there is one text that all of them, and the
\* file, begin with, and that has all of the user's lines in it.
Agreed(text) ==
  /\ IsText(text) /\ Theirs(text) = users
  /\ \A c \in Commands : InFlight(c) => Extends(updated[c], text)
  /\ Writing => shell = <<>> \/ Extends(shell, text)
  /\ ~Writing => /\ Outside(shell) = users
                 /\ Removable(shell) => Extends(RemoveBlock(shell), text)

ShellInv ==
  /\ ShellTypeOK
  /\ ~torn => /\ UnderWay => \E text : Agreed(text)
              /\ ~UnderWay => Outside(shell) = users

LEMMA ShellInit == Init => ShellInv
<1> SUFFICES ASSUME Init
             PROVE  ShellInv
  OBVIOUS
<1>1. ShellTypeOK /\ ~UnderWay
  <2>1. <<>> \in Seq(Lines)
    BY EmptySeq
  <2> QED
    BY <2>1 DEF Init, ShellTypeOK, UnderWay
<1>2. Outside(<<>>) = <<>>
  <2>1. <<>> \in Seq(Lines) /\ Len(<<>>) = 0
    BY EmptySeq
  <2>2. \A i \in 1..Len(<<>>) : <<>>[i] # "start"
    BY <2>1
  <2>3. Outside(<<>>) = Theirs(<<>>)
    BY <2>1, <2>2, OutsideOfText
  <2> QED
    BY <2>3, EachEmpty DEF Theirs
<1> QED
  BY <1>1, <1>2 DEF Init, ShellInv

\* A command that is not writing leaves the others as they are.
LEMMA StepAside ==
  ASSUME ShellInv, NEW c \in Commands, NEW to \in {"install", "end"},
         command[c] # "write", command' = [command EXCEPT ![c] = to],
         UNCHANGED <<shell, users, torn>>,
         updated' \in [Commands -> Seq(Lines)],
         \A d \in Commands : d # c => updated'[d] = updated[d]
  PROVE  ShellInv'
<1>1. /\ ShellTypeOK
      /\ ~torn => /\ UnderWay => \E text : Agreed(text)
                  /\ ~UnderWay => Outside(shell) = users
  BY DEF ShellInv
<1>2. \A d \in Commands : command'[d] = IF d = c THEN to ELSE command[d]
  BY <1>1 DEF ShellTypeOK
<1>3. ShellTypeOK'
  BY <1>1 DEF ShellTypeOK
<1>4. /\ Writing' <=> Writing
      /\ \A d \in Commands : InFlight(d)' => InFlight(d) /\ d # c
  BY <1>2 DEF Writing, InFlight
<1>5. UnderWay' => UnderWay
  BY <1>4 DEF UnderWay, InFlight
<1>6. ~UnderWay => ~Writing
  BY DEF UnderWay, Writing
<1>7. ASSUME NEW text, Agreed(text)
      PROVE  Agreed(text)'
  <2>1. \A d \in Commands : InFlight(d)' => Extends(updated[d], text)'
    BY <1>4, <1>7 DEF Agreed
  <2> QED
    BY <1>4, <1>7, <2>1 DEF Agreed
<1>8. ASSUME ~torn', ~UnderWay'
      PROVE  Outside(shell)' = users'
  <2>1. ~Writing
    BY <1>4, <1>8 DEF UnderWay, Writing
  <2> QED
    BY <1>1, <1>8, <2>1 DEF Agreed
<1> QED
  BY <1>1, <1>3, <1>5, <1>7, <1>8 DEF ShellInv

\* read_optional, remove_block and append_block: what is to be written begins
\* with the text that the others have read too.
LEMMA ShellIsRead ==
  ASSUME ShellInv, NEW c \in Commands, ReadShellFile(c)
  PROVE  ShellInv'
<1> DEFINE lines == IF command[c] = "install" THEN AppendBlock(RemoveBlock(shell))
                    ELSE RemoveBlock(shell)
           write == Removable(shell) /\ (command[c] = "install" \/ lines # shell)
<1>1. /\ ShellTypeOK
      /\ ~torn => /\ UnderWay => \E text : Agreed(text)
                  /\ ~UnderWay => Outside(shell) = users
  BY DEF ShellInv
<1>2. /\ command[c] \in {"install", "idle"}
      /\ updated' = IF write THEN [updated EXCEPT ![c] = lines] ELSE updated
      /\ command' = [command EXCEPT ![c] = IF write THEN "truncate" ELSE "end"]
      /\ torn' = (torn \/ Writing) /\ UNCHANGED <<shell, users>>
  BY DEF ReadShellFile
<1>3. Removable(shell) => lines \in Seq(Lines) /\ RemoveBlock(shell) \in Seq(Lines)
  BY <1>1, RemovedIsClean, AppendBlockType DEF ShellTypeOK
<1> HIDE DEF lines
<1>4. ShellTypeOK'
  BY <1>1, <1>2, <1>3 DEF ShellTypeOK
<1>5. CASE torn'
  BY <1>4, <1>5 DEF ShellInv
<1>6. CASE ~torn' /\ ~write
  <2>1. UNCHANGED torn
    BY <1>1, <1>2, <1>6 DEF ShellTypeOK
  <2>2. command[c] # "write"
    BY <1>2
  <2>3. command' = [command EXCEPT ![c] = "end"] /\ updated' = updated
    BY <1>2, <1>6
  <2> QED
    BY <1>1, <1>2, <2>1, <2>2, <2>3, StepAside DEF ShellTypeOK
<1>7. CASE ~torn' /\ write
  <2>1. ~torn /\ ~Writing
    BY <1>2, <1>7
  <2>2. PICK text : /\ IsText(text) /\ Theirs(text) = users
                    /\ Outside(shell) = users
                    /\ Extends(RemoveBlock(shell), text)
                    /\ \A d \in Commands : InFlight(d) => Extends(updated[d], text)
    <3>1. CASE UnderWay
      BY <1>1, <1>7, <2>1, <3>1 DEF Agreed
    <3>2. CASE ~UnderWay
      <4>1. /\ RemoveBlock(shell) \in Seq(Lines) /\ NoMarker(RemoveBlock(shell))
            /\ Outside(shell) = Theirs(RemoveBlock(shell))
        BY <1>1, <1>7, RemovedIsClean, RemovalKeeps DEF ShellTypeOK
      <4>2. PICK text : IsText(text) /\ Extends(RemoveBlock(shell), text)
        BY <4>1, TextFound
      <4>3. Outside(RemoveBlock(shell)) = Theirs(text)
        BY <4>1, <4>2, TextKept
      <4>4. Outside(RemoveBlock(shell)) = Theirs(RemoveBlock(shell))
        BY <4>1, OutsideOfText DEF NoMarker
      <4>5. Outside(shell) = users
        BY <1>1, <2>1, <3>2
      <4>6. \A d \in Commands : ~InFlight(d)
        BY <3>2 DEF UnderWay, InFlight
      <4> QED
        BY <4>1, <4>2, <4>3, <4>4, <4>5, <4>6
    <3> QED
      BY <3>1, <3>2
  <2>3. Extends(lines, text)
    <3>1. RemoveBlock(shell) \in Seq(Lines)
      BY <1>3, <1>7
    <3> QED
      BY <2>2, <3>1, AppendExtends DEF lines
  <2>4. /\ \A d \in Commands : command'[d] = IF d = c THEN "truncate" ELSE command[d]
        /\ \A d \in Commands : updated'[d] = IF d = c THEN lines ELSE updated[d]
    BY <1>1, <1>2, <1>7 DEF ShellTypeOK
  <2>5. ~Writing'
    BY <2>1, <2>4 DEF Writing
  <2>6. UnderWay'
    BY <2>4 DEF UnderWay
  <2>7. ASSUME NEW d \in Commands, InFlight(d)'
        PROVE  Extends(updated[d], text)'
    BY <2>2, <2>3, <2>4, <2>7 DEF InFlight
  <2>8. Agreed(text)'
    BY <1>2, <2>2, <2>5, <2>7 DEF Agreed
  <2> QED
    BY <1>4, <2>6, <2>8 DEF ShellInv
<1> QED
  BY <1>4, <1>5, <1>6, <1>7 DEF ShellTypeOK

\* fs::write opens the file, which truncates it.
LEMMA ShellIsTruncated ==
  ASSUME ShellInv, NEW c \in Commands, Truncate(c)
  PROVE  ShellInv'
<1>1. /\ ShellTypeOK
      /\ ~torn => /\ UnderWay => \E text : Agreed(text)
                  /\ ~UnderWay => Outside(shell) = users
  BY DEF ShellInv
<1>2. /\ command[c] = "truncate" /\ command' = [command EXCEPT ![c] = "write"]
      /\ shell' = <<>> /\ UNCHANGED <<updated, users, torn>>
  BY DEF Truncate, Moves
<1>3. \A d \in Commands : command'[d] = IF d = c THEN "write" ELSE command[d]
  BY <1>1, <1>2 DEF ShellTypeOK
<1>4. ShellTypeOK'
  <2>1. <<>> \in Seq(Lines)
    BY EmptySeq
  <2> QED
    BY <1>1, <1>2, <2>1 DEF ShellTypeOK
<1>5. UnderWay /\ UnderWay' /\ Writing'
  BY <1>2, <1>3 DEF UnderWay, Writing
<1>6. \A d \in Commands : InFlight(d)' => InFlight(d)
  BY <1>2, <1>3 DEF InFlight
<1>7. ASSUME NEW text, Agreed(text)
      PROVE  Agreed(text)'
  <2>1. \A d \in Commands : InFlight(d)' => Extends(updated[d], text)'
    BY <1>2, <1>6, <1>7 DEF Agreed
  <2> QED
    BY <1>2, <1>5, <1>7, <2>1 DEF Agreed
<1> QED
  BY <1>1, <1>2, <1>4, <1>5, <1>7 DEF ShellInv

LEMMA OverType ==
  ASSUME NEW lines \in Seq(Lines), shell \in Seq(Lines)
  PROVE  Over(lines) \in Seq(Lines)
<1> DEFINE n == Len(lines)
           m == Len(shell)
           more == SubSeq(shell, n + 1, m)
<1>1. n \in Nat /\ m \in Nat
  BY LenProperties
<1>2. \A i \in n + 1..m : shell[i] \in Lines
  BY <1>1, ElementOfSeq
<1> HIDE DEF n, m
<1>3. more \in Seq(Lines)
  BY <1>1, <1>2, SubSeqProperties
<1>4. Over(lines) = lines \o more
  BY DEF Over, more, n, m
<1> HIDE DEF more
<1> QED
  BY <1>3, <1>4, ConcatProperties

\* The file has then what the command has read, whatever another wrote.
LEMMA ShellIsWritten ==
  ASSUME ShellInv, NEW c \in Commands, Write(c)
  PROVE  ShellInv'
<1> DEFINE lines == updated[c]
<1>1. /\ ShellTypeOK
      /\ ~torn => /\ UnderWay => \E text : Agreed(text)
                  /\ ~UnderWay => Outside(shell) = users
  BY DEF ShellInv
<1>2. /\ command[c] = "write" /\ command' = [command EXCEPT ![c] = "end"]
      /\ shell' = Over(lines) /\ updated' = [updated EXCEPT ![c] = <<>>]
      /\ UNCHANGED <<users, torn>>
  BY DEF Write, Moves
<1>3. lines \in Seq(Lines) /\ shell \in Seq(Lines)
  BY <1>1 DEF ShellTypeOK
<1>4. ShellTypeOK'
  <2>1. <<>> \in Seq(Lines) /\ Over(lines) \in Seq(Lines)
    BY <1>3, EmptySeq, OverType
  <2> QED
    BY <1>1, <1>2, <2>1 DEF ShellTypeOK
<1>5. \A d \in Commands : /\ command'[d] = IF d = c THEN "end" ELSE command[d]
                          /\ d # c => updated'[d] = updated[d]
  BY <1>1, <1>2 DEF ShellTypeOK
<1>6. UnderWay /\ Writing /\ InFlight(c)
  BY <1>2 DEF UnderWay, Writing, InFlight
<1>7. ASSUME ~torn'
      PROVE  /\ UnderWay' => \E text : Agreed(text)'
             /\ ~UnderWay' => Outside(shell)' = users'
  <2>1. PICK text : Agreed(text)
    BY <1>1, <1>2, <1>6, <1>7
  <2>2. /\ IsText(text) /\ Theirs(text) = users /\ Extends(lines, text)
        /\ shell = <<>> \/ Extends(shell, text)
    BY <1>6, <2>1 DEF Agreed
  <2> HIDE DEF lines
  <2>3. shell' \in Seq(Lines) /\ Extends(shell', text)
    BY <1>2, <1>3, <2>2, OverExtends
  <2>4. Outside(shell') = users'
    BY <1>2, <2>2, <2>3, TextKept
  <2>5. Removable(shell') => Extends(RemoveBlock(shell'), text)
    BY <2>2, <2>3, RemoveExtends
  <2>6. \A d \in Commands : InFlight(d)' => InFlight(d) /\ d # c
    BY <1>5 DEF InFlight
  <2>7. \A d \in Commands : InFlight(d)' => Extends(updated[d], text)'
    BY <1>5, <2>1, <2>6 DEF Agreed
  <2>8. Agreed(text)'
    BY <1>2, <2>2, <2>3, <2>4, <2>5, <2>7 DEF Agreed
  <2> QED
    BY <2>4, <2>8
<1> QED
  BY <1>4, <1>7 DEF ShellInv

LEMMA ShellCommandStops ==
  ASSUME ShellInv, NEW c \in Commands, StopCommand(c)
  PROVE  ShellInv'
<1>1. ShellTypeOK
  BY DEF ShellInv
<1>2. updated' = [updated EXCEPT ![c] = <<>>] /\ command' = [command EXCEPT ![c] = "end"]
  BY DEF StopCommand
<1>3. /\ updated' \in [Commands -> Seq(Lines)]
      /\ \A d \in Commands : d # c => updated'[d] = updated[d]
  <2>1. <<>> \in Seq(Lines)
    BY EmptySeq
  <2> QED
    BY <1>1, <1>2, <2>1 DEF ShellTypeOK
<1>4. CASE command[c] # "write"
  <2>1. UNCHANGED <<shell, users, torn>>
    BY <1>4 DEF StopCommand
  <2> QED
    BY <1>2, <1>3, <1>4, <2>1, StepAside
<1>5. CASE command[c] = "write"
  <2>1. /\ torn' = TRUE
        /\ \E n \in 0..Len(updated[c]) : shell' = Over(SubSeq(updated[c], 1, n))
    BY <1>5 DEF StopCommand
  <2>2. PICK n \in 0..Len(updated[c]) : shell' = Over(SubSeq(updated[c], 1, n))
    BY <2>1
  <2>3. updated[c] \in Seq(Lines)
    BY <1>1 DEF ShellTypeOK
  <2>4. SubSeq(updated[c], 1, n) \in Seq(Lines)
    BY <2>3, PrefixOf
  <2>5. shell' \in Seq(Lines)
    BY <1>1, <2>2, <2>4, OverType DEF ShellTypeOK
  <2>6. ShellTypeOK'
    BY <1>1, <1>2, <1>3, <2>1, <2>5 DEF ShellTypeOK
  <2> QED
    BY <2>1, <2>6 DEF ShellInv
<1> QED
  BY <1>4, <1>5

\* The user adds a line, pastes a block, or takes out a line.
LEMMA ShellIsEdited ==
  ASSUME ShellInv, Edit
  PROVE  ShellInv'
<1>1. /\ ShellTypeOK
      /\ ~torn => /\ UnderWay => \E text : Agreed(text)
                  /\ ~UnderWay => Outside(shell) = users
  BY DEF ShellInv
<1>2. /\ users' = Outside(shell') /\ torn' = (torn \/ UnderWay)
      /\ UNCHANGED <<command, updated>>
  BY DEF Edit
<1>3. shell' \in Seq(Lines)
  <2>1. CASE \E line \in UserLines \union {"blank"} : shell' = Append(shell, line)
    <3>1. PICK line \in UserLines \union {"blank"} : shell' = Append(shell, line)
      BY <2>1
    <3>2. line \in Lines
      BY DEF Lines, Extra
    <3> QED
      BY <1>1, <3>1, <3>2, AppendProperties DEF ShellTypeOK
  <2>2. CASE shell' = shell \o Block
    BY <1>1, <2>2, BlockType, ConcatProperties DEF ShellTypeOK
  <2>3. CASE \E i \in DOMAIN shell : shell' = RemoveAt(shell, i)
    <3> DEFINE n == Len(shell)
    <3>1. shell \in Seq(Lines) /\ n \in Nat /\ DOMAIN shell = 1..n
      BY <1>1, LenProperties DEF ShellTypeOK
    <3>2. PICK i \in 1..n : shell' = RemoveAt(shell, i)
      BY <2>3, <3>1
    <3> DEFINE a == SubSeq(shell, 1, i - 1)
               b == SubSeq(shell, i + 1, n)
    <3>3. \A j \in 1..n : shell[j] \in Lines
      BY <3>1, ElementOfSeq
    <3>4. shell' = a \o b
      BY <3>2 DEF RemoveAt
    <3> HIDE DEF n
    <3>5. a \in Seq(Lines)
      <4>1. i - 1 \in Int /\ \A j \in 1..i - 1 : shell[j] \in Lines
        BY <3>1, <3>3
      <4> QED
        BY <4>1, SubSeqProperties
    <3>6. b \in Seq(Lines)
      <4>1. i + 1 \in Int /\ n \in Int /\ \A j \in i + 1..n : shell[j] \in Lines
        BY <3>1, <3>3
      <4> QED
        BY <4>1, SubSeqProperties
    <3> HIDE DEF a, b
    <3> QED
      BY <3>4, <3>5, <3>6, ConcatProperties
  <2> QED
    BY <2>1, <2>2, <2>3 DEF Edit
<1>4. ShellTypeOK'
  <2>1. torn' \in BOOLEAN
    BY <1>1, <1>2 DEF ShellTypeOK, UnderWay
  <2> QED
    BY <1>1, <1>2, <1>3, <2>1 DEF ShellTypeOK
<1>5. UnderWay' <=> UnderWay
  BY <1>2 DEF UnderWay
<1>6. ~torn' => ~UnderWay'
  BY <1>2, <1>5
<1> QED
  BY <1>2, <1>4, <1>6 DEF ShellInv

LEMMA ShellStep == ShellInv /\ [Next]_vars => ShellInv'
<1> SUFFICES ASSUME ShellInv, [Next]_vars
             PROVE  ShellInv'
  OBVIOUS
<1>1. CASE UNCHANGED integration
  <2>1. UNCHANGED <<shell, command, updated, users, torn>>
    BY <1>1 DEF integration
  <2>2. UNCHANGED Writing /\ UNCHANGED UnderWay
    BY <2>1 DEF Writing, UnderWay
  <2>3. \A text : Agreed(text) => Agreed(text)'
    BY <2>1, <2>2 DEF Agreed, InFlight
  <2>4. ShellTypeOK'
    BY <2>1 DEF ShellInv, ShellTypeOK
  <2> QED
    BY <2>1, <2>2, <2>3, <2>4 DEF ShellInv
<1>2. ASSUME NEW c \in Commands, FindCertificate(c)
      PROVE  ShellInv'
  <2>1. PICK to \in {"install", "end"} : command' = [command EXCEPT ![c] = to]
    BY <1>2 DEF FindCertificate, Moves
  <2>2. command[c] # "write" /\ UNCHANGED <<shell, updated, users, torn>>
    BY <1>2 DEF FindCertificate, Moves
  <2>3. updated' \in [Commands -> Seq(Lines)] /\ \A d \in Commands : updated'[d] = updated[d]
    BY <2>2 DEF ShellInv, ShellTypeOK
  <2> QED
    BY <2>1, <2>2, <2>3, StepAside
<1>3. CASE Next
  BY <1>1, <1>2, <1>3, ShellIsRead, ShellIsTruncated, ShellIsWritten, ShellCommandStops,
     ShellIsEdited DEF Next
<1>4. CASE UNCHANGED vars
  BY <1>1, <1>4 DEF vars
<1> QED
  BY <1>3, <1>4

\* Whenever no file was cut or changed under a command: the commands that are
\* under way agree on the text of the user they have read.
THEOREM ShellInvariant == Spec => []ShellInv
<1> QED
  BY ShellInit, ShellStep, PTL DEF Spec

\* UserLinesKept (remove_block, append_block and write_shell_file of
\* codex_env.rs): for any number of commands and any lines, nothing but the
\* user's own edit adds, drops or moves a line of the user.
THEOREM UsersLinesStay == Spec => []UserLinesKept
<1>1. ShellInv => UserLinesKept
  <2> SUFFICES ASSUME ShellInv, ~torn, ~Writing
               PROVE  Outside(shell) = users
    BY DEF UserLinesKept
  <2>1. CASE UnderWay
    <3>1. PICK text : Agreed(text)
      BY <2>1 DEF ShellInv
    <3> QED
      BY <3>1 DEF Agreed
  <2>2. CASE ~UnderWay
    BY <2>2 DEF ShellInv
  <2> QED
    BY <2>1, <2>2
<1> QED
  BY <1>1, ShellInvariant, PTL

=============================================================================
