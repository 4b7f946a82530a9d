----------------------------- MODULE MCSigvHost -----------------------------
(* Requests and environments for model checking SigvHost, with the bytes of *)
(* MCParser, words of two bytes, a message window of twelve and room for    *)
(* three jobs.                                                              *)
EXTENDS SigvHost, MCParser

Sum(m) ==
  LET To[n \in 0 .. Len(m)] == IF n = 0 THEN 0 ELSE To[n - 1] + (IF n % 2 = 0 THEN 3 ELSE 1) * m[n]
  IN  To[Len(m)]

(* A stand-in for the signature equation that depends on the key, on each   *)
(* byte of the message and on its length, and is laxer in one mode.         *)
Sign(key, m) == <<key[1], Sum(m) % ByteMod, Len(m) % ByteMod>>

MCGenuine(mode, key, sig, m) ==
  \/ sig = Sign(key, m)
  \/ mode = "agave_zebra" /\ sig = [Sign(key, m) EXCEPT ![3] = (@ + 2) % ByteMod]

Base == [endpoint |-> "verify-batch", json |-> TRUE, decodes |-> TRUE, bytes |-> <<1, 2, 3>>,
         jobs |-> <<>>, timeout_ms |-> 1, dispatch_limit |-> 0, verify_mode |-> "strict",
         job_timeout_cycles |-> 0]

Job(kind, m) ==
  CASE kind = "good" -> [key |-> <<1>>, sig |-> Sign(<<1>>, m)]
    [] kind = "lax" -> [key |-> <<2>>, sig |-> [Sign(<<2>>, m) EXCEPT ![3] = (@ + 2) % ByteMod]]
    [] kind = "forged" -> [key |-> <<3>>, sig |-> <<3, (Sum(m) + 1) % ByteMod, Len(m) % ByteMod>>]
    [] kind = "short" -> [key |-> <<1>>, sig |-> <<1, 2>>]

Batch(kinds, m) ==
  [Base EXCEPT !.bytes = m, !.jobs = [i \in DOMAIN kinds |-> Job(kinds[i], m)]]

Kinds == {"good", "lax", "forged"}

KindLists == {<<>>} \cup {<<a>> : a \in Kinds \cup {"short"}} \cup {<<"good", a>> : a \in Kinds}
             \cup {<<a, "good", "good">> : a \in Kinds} \cup {<<"good", "good", "good", "good">>}

Messages == {[i \in 1 .. n |-> (i + n) % ByteMod] : n \in {0, 1, 2, 3, 11, 12, 13}}

SomeBatches == {Batch(k, m) : k \in KindLists, m \in Messages}

Options(r) ==
  {[r EXCEPT !.dispatch_limit = l, !.verify_mode = v, !.job_timeout_cycles = t] :
     l \in 0 .. 2, v \in {"strict", "agave_zebra"}, t \in {0, 1}}

(* A transaction whose n signers have signed the message m, or tried to.    *)
SignedBy(n, kind, m) ==
  [Base EXCEPT !.endpoint = "verify-transaction",
     !.bytes = EncodeCompact(n) \o Flat([i \in 1 .. n |-> Job(IF i = n THEN kind ELSE "good", m).sig])
               \o m]

MessageOf(n, last) ==
  IF n = 1 THEN <<1, 0, 0, 1, last, 2, 0>>
  ELSE <<GroupBase, n, 0, 0>> \o EncodeCompact(n) \o Repeat(n - 1, 1) \o <<last, 2, 0, 0>>

Key(kind) == Job(kind, <<>>).key[1]

Transactions == {SignedBy(n, kind, MessageOf(n, Key(kind))) : n \in 1 .. 3, kind \in Kinds}

Raw == {[Base EXCEPT !.endpoint = "verify-transaction", !.bytes = x] : x \in ParserInputs}

Undecoded == {[Base EXCEPT !.json = FALSE], [Base EXCEPT !.decodes = FALSE],
              [Batch(<<"good">>, <<1>>) EXCEPT !.timeout_ms = 0]}

Image(magic, mode, api) == [magic |-> magic, mode |-> mode, api |-> api]

MCImages == {Image(TRUE, "full", 1), Image(TRUE, "bringup", 1), Image(TRUE, "full", 0),
             Image(FALSE, "full", 1)}

Entry(region, fits, metadata) == [region |-> region, fits |-> fits, metadata |-> metadata]

AllGood == {Entry(r, TRUE, "good") : r \in Regions}

Sysfs(exists, entries) == [exists |-> exists, entries |-> entries]

AutoPaths == [r \in Regions |-> "auto"]

Env(sysfs, paths, wait_mode, image) ==
  [sysfs |-> sysfs, paths |-> paths, wait_mode |-> wait_mode, image |-> image]

Usual == Env(Sysfs(TRUE, AllGood), AutoPaths, "auto", Image(TRUE, "full", 1))

SomeEnvironments ==
  {Env(s, p, w, i) :
     s \in {Sysfs(FALSE, {}), Sysfs(TRUE, AllGood),
            Sysfs(TRUE, AllGood \cup {Entry("other", TRUE, "unreadable")}),
            Sysfs(TRUE, {Entry("control", FALSE, "good"), Entry("message", TRUE, "incomplete")})},
     p \in {AutoPaths, [AutoPaths EXCEPT !["control"] = "mem"]},
     w \in {"auto", "irq", "poll"},
     i \in {Image(TRUE, "full", 1), Image(TRUE, "bringup", 1)}}

Scenario(r, e, x) == [request |-> r, env |-> e, residue |-> x]

MCScenarios ==
  {Scenario(r, Usual, 0) : r \in Raw \cup Undecoded}
  \cup {Scenario(r, Usual, 3) : r \in SomeBatches \cup UNION {Options(t) : t \in Transactions}}
  \cup {Scenario(r, Usual, 1) : r \in UNION {Options(Batch(k, <<1, 2, 3>>)) : k \in KindLists}}
  \cup {Scenario(r, e, 2) : r \in {Batch(<<"forged">>, <<1, 2>>), Batch(<<"good">>, <<1, 2>>)},
                            e \in SomeEnvironments}

MCInputs == {<<>>} \cup ParserInputs \cup {t.bytes : t \in Transactions}

=============================================================================
