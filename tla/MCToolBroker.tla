---------------------------- MODULE MCToolBroker ----------------------------
EXTENDS ToolBroker, TLC

CONSTANTS r1, r2, w1

MCTexts == {"a", "composed", "decomposed", "tab", "sk-key"}
MCBytes == [t \in MCTexts |-> CASE t = "a" -> 1 [] t = "composed" -> 2
                                   [] t = "sk-key" -> 6 [] OTHER -> 3]
MCNfc == [t \in MCTexts |-> IF t = "decomposed" THEN "composed" ELSE t]

Obj == Node("object", "")
Arr == Node("array", "")
Str(t) == Node("string", t)
Args(t) == (<<>> :> Obj) @@ (<<"id">> :> Str(t))
Many == Args("a") @@ (<<"tags">> :> Arr)
          @@ (<<"tags", "[0]">> :> Str("a")) @@ (<<"tags", "[1]">> :> Str("a"))
Tagged == Args("a") @@ (<<"tags">> :> Arr) @@ (<<"tags", "[0]">> :> Str("a"))

Fields(required) == [type |-> "object", strict |-> TRUE, required |-> required]
Text(max) == [type |-> "string", min |-> 1, max |-> max, allowed |-> {}]
List == [type |-> "array", min |-> 0, max |-> 2]

Input == (<<>> :> Fields({"id"})) @@ (<<"id">> :> Text(3))
           @@ (<<"tags">> :> List) @@ (<<"tags", "*">> :> Text(1))
Record(p) == (p :> Fields({})) @@ (p \o <<"id">> :> Text(9))
               @@ (p \o <<"credential">> :> Fields({}))
               @@ (p \o <<"credential", "value">> :> Text(9))

Whole == (<<>> :> Obj) @@ (<<"credential">> :> Obj) @@ (<<"credential", "value">> :> Str("a"))
Surplus == Args("sk-key") @@ (<<"extra">> :> Obj) @@ (<<"extra", "id">> :> Str("a"))
             @@ (<<"credential">> :> Str("a"))
Rows == (<<>> :> Arr) @@ (<<"[0]">> :> Obj) @@ (<<"[0]", "credential">> :> Str("a"))
          @@ (<<"[0]", "extra">> :> Str("a"))

Crm == [service |-> "crm", method |-> "GET", safe |-> TRUE, holes |-> {"id"},
        path |-> <<"customers", "id", "notes">>]
GoodAsk == [egress |-> Crm, params |-> [id |-> "plain"]]

PlainTool ==
  [gated |-> FALSE, scopes |-> {}, input |-> Input, output |-> Record(<<>>), egress |-> Crm,
   auth |-> "passthrough", max_bytes |-> 9, asks |-> {},
   returns |-> {<<>> :> Obj, Args("a") @@ (<<"credential">> :> Str("a"))}]
Write == [PlainTool EXCEPT !.gated = TRUE, !.scopes = {"write"}]

Means(t1, s1, t2, s2, s3) ==
  (r1 :> [tool |-> t1, spellings |-> s1]) @@ (r2 :> [tool |-> t2, spellings |-> s2])
    @@ (w1 :> [tool |-> "write", spellings |-> s3])

Plain ==
  [tools |-> [read |-> PlainTool, write |-> Write],
   means |-> Means("read", {Args("a")}, "read", {Args("composed")}, {Args("a")}),
   scopes |-> {"write"}, token |-> TRUE, exchanger |-> FALSE, minter |-> FALSE,
   bases |-> "crm" :> <<"api">>, faulty |-> FALSE,
   batches |-> {<<r1, r1, r2>>, <<r2, w1, r1>>, <<r1, r1>>, <<w1>>}]

\* A tool that asks its service for records, called with two spellings of an argument.
Lookup == [PlainTool EXCEPT !.asks = {GoodAsk}, !.returns = {Whole, Surplus}]
Spellings == {Args("composed"), Args("decomposed")}
Asking ==
  [Plain EXCEPT
     !.tools = [read |-> Lookup, other |-> Lookup, write |-> Write],
     !.means = Means("read", Spellings, "read", {Tagged}, {Args("a")}),
     !.batches = {<<r1, r2>>, <<w1, r1>>}]

Other(tool) == [Asking EXCEPT !.tools.other = tool,
                              !.means = Means("read", Spellings, "other", {Args("a")}, {Args("a")}),
                              !.batches = {<<r1, r2>>, <<r2, r2>>}]
Wrongly(spelling) ==
  [Asking EXCEPT !.means = Means("read", {Args("a")}, "read", {spelling}, {spelling}),
                 !.batches = {<<r1, r2>>, <<w1, r2>>}]

MCDeployments ==
  {Plain, Asking,
   Wrongly(Args("tab")), Wrongly(<<>> :> Obj), Wrongly(Args("sk-key")), Wrongly(Many),
   [Wrongly(Args("a")) EXCEPT !.scopes = {}, !.means[r2].tool = "missing"],
   Other([Lookup EXCEPT !.scopes = {"admin"}]),
   Other([Lookup EXCEPT !.output = (<<>> :> List) @@ Record(<<"*">>), !.returns = {Rows}]),
   Other([Lookup EXCEPT !.max_bytes = 3]),
   Other([Lookup EXCEPT !.asks = {[GoodAsk EXCEPT !.egress.service = "erp"]}]),
   Other([Lookup EXCEPT !.asks = {[GoodAsk EXCEPT !.params = [id |-> "odd"]],
                                  [GoodAsk EXCEPT !.params = [name |-> "plain"]]}]),
   [Other([Lookup EXCEPT !.auth = "minted"]) EXCEPT !.minter = TRUE, !.token = FALSE],
   [Other([Lookup EXCEPT !.auth = "minted"]) EXCEPT !.exchanger = TRUE],
   Other([Lookup EXCEPT !.asks = {[GoodAsk EXCEPT !.params = [id |-> "dots"]]}]),
   [Other(Lookup) EXCEPT !.bases = <<>>],
   [Other([Lookup EXCEPT !.scopes = {"admin"}]) EXCEPT !.faulty = TRUE, !.batches = {<<r1, r2>>, <<w1, r1>>}]}
=============================================================================
