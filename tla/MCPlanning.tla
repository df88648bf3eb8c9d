----------------------------- MODULE MCPlanning -----------------------------
(* Three providers: two connected machines, a cloud provider with budgets  *)
(* and a namespace's share of them, and one that is disabled.              *)
EXTENDS Planning

Order == <<"aws", "far", "near">>
Position(v) == IF \E i \in DOMAIN Order : v = Text(Order[i])
               THEN CHOOSE i \in DOMAIN Order : v = Text(Order[i]) ELSE 0
MCBefore(a, b) == Position(a) < Position(b)

-----------------------------------------------------------------------------
(* Configuration: two files. *)

Pool(name, meter, limit) == [name |-> name, meter |-> meter, period |-> "daily", limit |-> limit]

ProviderBlock(name, type, enabled, tier, tags, pools) ==
    [name |-> name, type |-> type, enabled |-> enabled, tier |-> tier,
     credentials |-> {}, tags |-> tags, pools |-> pools]

MCFiles ==
    <<[store |-> {"dsn"}, server |-> {"listener"}, scheduling |-> {}, namespaces |-> <<>>,
       providers |->
        <<ProviderBlock("near", "pool", {}, {}, [region |-> Text("home")], <<>>),
          ProviderBlock("far", "gcp", {TRUE}, {1}, [region |-> Text("eu")],
            <<Pool("runs", "executions", 2)>>),
          ProviderBlock("aws", "aws", {FALSE}, {1}, <<>>, <<>>)>>],
      [EmptyFile EXCEPT !.namespaces =
        <<[name |-> "ci", quotas |-> <<[provider |-> "far",
                                       pools |-> <<Pool("runs", "executions", 1)>>]>>]>>]>>

MCConfiguration == LoadDir(MCFiles)
MCEntries == NewEntries(MCConfiguration)

Machine(name, memory) ==
    [name |-> name, labels |-> [disk |-> Text("ssd")],
     caps |-> [NoCapabilities EXCEPT !.drivers = <<"container">>, !.archs = <<"arm64">>,
                !.maxMemory = {memory}, !.images = TRUE, !.internet = TRUE, !.private = TRUE]]

Machines(members) ==
    [NoCapabilities EXCEPT !.drivers = <<"container">>, !.archs = <<"arm64">>,
        !.images = TRUE, !.internet = TRUE, !.private = TRUE, !.members = members]

Cloud(cost) ==
    [NoCapabilities EXCEPT !.drivers = <<"container", "function">>, !.archs = <<"amd64", "arm64">>,
        !.maxCPU = {4000}, !.maxMemory = {2048}, !.maxDuration = 3600, !.defaultCPU = 1000,
        !.defaultMemory = 512, !.internet = TRUE, !.images = TRUE, !.cost = cost]

MCAdvert ==
    [near |-> <<Machines(<<Machine("m1", 1024), Machine("m2", 256)>>),
                Machines(<<Machine("m1", 0)>>)>>,
     far |-> <<Cloud(0), [Cloud(5) EXCEPT !.maxDuration = 300]>>,
     aws |-> <<>>]

MCLevel == {0, 2}

-----------------------------------------------------------------------------
(* Expressions: literals, references, lists and conditions on metadata. *)

Object == <<"object">>
Literal(v) == <<"text", v>>
Meta(key) == <<"meta", key>>
ListOfAll(exprs) == <<"list", exprs>>
IfIs(key, v, then, else) == <<"if", key, v, then, else>>

Plain(e, meta) ==
    CASE e[1] # "meta" -> e
      [] e[1] = "meta" /\ e[2] \in DOMAIN meta -> <<"text", meta[e[2]]>>
      [] OTHER -> <<"error">>

\* A list holds texts here, and a condition is whether a key has one value.
MCValue(e, meta) ==
    CASE e[1] = "list" ->
            IF \E i \in DOMAIN e[2] : Plain(e[2][i], meta) = <<"error">> THEN <<"error">>
            ELSE <<"list", [i \in DOMAIN e[2] |-> Plain(e[2][i], meta)[2]]>>
      [] e[1] = "if" ->
            IF e[2] \notin DOMAIN meta THEN <<"error">>
            ELSE Plain(IF meta[e[2]] = e[3] THEN e[4] ELSE e[5], meta)
      [] OTHER -> Plain(e, meta)

-----------------------------------------------------------------------------
(* Job files. *)

Is(name) == {Literal(Text(name))}
Number(n) == {Literal(Integer(n))}

Anywhere == [strategy |-> {}, tiers |-> {}, providers |-> {}, maxCost |-> {},
             constraints |-> <<>>, affinities |-> <<>>]

Task(name, driver, config) ==
    [name |-> name, driver |-> Is(driver), arch |-> {}, cpu |-> {}, memory |-> {}, internet |-> {},
     private |-> {}, privileged |-> {}, timeout |-> {}, retry |-> {}, paths |-> {},
     config |-> config, env |-> <<>>]

Settings(attrs) == {[nested |-> FALSE, attrs |-> attrs]}

Build(ns, parameterized, routing, tasks) ==
    <<[name |-> "build", namespace |-> ns, type |-> Is("batch"), meta |-> <<>>,
       parameterized |-> parameterized, routing |-> routing, tasks |-> tasks]>>

Takes(required, optional) == {[required |-> required, optional |-> optional]}

Compared(attribute, operator, value) ==
    [attribute |-> {Literal(Word("attribute", attribute))}, operator |-> Is(operator), value |-> value]

\* Its size and its image depend on metadata: fit while that is a placeholder.
Zoned(memory) ==
    Build({}, Takes({"image"}, {"zone"}),
          [Anywhere EXCEPT !.constraints = <<Compared(Tag("region"), "=", {Meta("zone")})>>],
          <<[Task("make", "container",
                  Settings([image |-> IfIs("zone", Text("many"), Object, Meta("image"))])) EXCEPT
                !.cpu = {IfIs("zone", Text("none"), Literal(Integer(0)), Literal(Integer(500)))},
                !.memory = Number(memory), !.timeout = {Literal(Word("duration", 600))}]>>)

Leaning ==
    Build(Is("default"), {}, [Anywhere EXCEPT !.tiers = Is("weighted"), !.affinities =
            <<Compared(Label("disk"), "is_set", {}) @@ [weight |-> {}],
              Compared(Published("free_quota_percent"), ">=", Number(50)) @@ [weight |-> Number(10)]>>],
          <<Task("first", "container", Settings([image |-> Literal(Text("alpine"))])),
            [Task("second", "container", Settings([image |-> Literal(Text("alpine"))])) EXCEPT
                !.arch = Is("arm64"), !.internet = {Literal(Flag(TRUE))}, !.memory = Number(512)]>>)

Timed ==
    Build({}, Takes({"limit"}, {}), [Anywhere EXCEPT !.providers = {ListOfAll(<<Meta("cloud")>>)}],
          <<[Task("make", "worker", {}) EXCEPT !.timeout = {Meta("limit")}]>>)

\* Never fit: the longest delay is below the first.
Backwards ==
    Build({}, Takes({}, {"zone"}), Anywhere,
          <<[Task("call", "function", {}) EXCEPT !.retry =
                {[attempts |-> Number(1), reroute |-> {}, initial |-> {Literal(Word("duration", 9))},
                  max |-> {Literal(Word("duration", 1))}]}]>>)

MCContent ==
    [zoned |-> Zoned(128), leaning |-> Leaning, timed |-> Timed, backwards |-> Backwards,
     ci |-> Build(Is("ci"), {}, [Anywhere EXCEPT !.providers = {ListOfAll(<<Literal(Text("far"))>>)}],
                 <<Task("call", "function", {})>>)]
MCDocument == DOMAIN MCContent
MCForm == [d \in MCDocument |-> d]

-----------------------------------------------------------------------------
(* Requests. *)

Named(kind, ns, meta) ==
    [kind |-> kind, ns |-> ns, name |-> "build", source |-> {}, meta |-> meta]
Sourced(kind, ns, d, meta) ==
    [kind |-> kind, ns |-> ns, name |-> "", source |-> {d}, meta |-> meta]

Alpine == [image |-> Text("alpine")]
MCAsks ==
    {Named("dispatch", "", Alpine @@ [zone |-> Text("eu")]),
     Named("dispatch", "", Alpine),
     Named("dispatch", "", Alpine @@ [zone |-> NoText]),
     Named("dispatch", "", Alpine @@ [zone |-> Text("none")]),
     Named("dispatch", "", Alpine @@ [zone |-> Text("many")]),
     Named("dispatch", "", Alpine @@ [depth |-> Integer(1)]),
     Named("plan", "", <<>>),
     Named("dispatch", "ci", <<>>),
     Named("dispatch", "", [limit |-> Integer(0)]),
     [Named("plan", "", <<>>) EXCEPT !.name = "nobody"],
     Named("plan", "nowhere", <<>>),
     Sourced("dispatch", "", "leaning", <<>>),
     Sourced("plan", "ci", "leaning", <<>>),
     Sourced("plan", "ci", "zoned", Alpine @@ [zone |-> Text("eu")]),
     Sourced("plan", "", "zoned", Alpine @@ [zone |-> Text("home")]),
     Sourced("dispatch", "", "ci", <<>>),
     Sourced("plan", "", "ci", <<>>),
     Sourced("plan", "", "zoned", Alpine @@ [zone |-> Text("many")]),
     Sourced("plan", "", "timed", [limit |-> Word("duration", 60), cloud |-> Text("far")]),
     Sourced("plan", "", "timed", [limit |-> Integer(0), cloud |-> Text("far")])}

-----------------------------------------------------------------------------
AllUp == [p \in Provider |-> IF Advert[p] = <<>> THEN 0 ELSE 1]
Idle == [row \in Row |-> 0]

MCStarts ==
    {[moving |-> "jobs", actual |-> AllUp, usage |-> Idle]}
    \cup [moving : {"providers"}, usage : [Row -> Level],
          actual : {AllUp, [AllUp EXCEPT !["far"] = 0], [AllUp EXCEPT !["near"] = 2]}]
    \cup [moving : {"usage"}, actual : {AllUp}, usage : {Idle}]
=============================================================================
