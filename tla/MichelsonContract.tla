-------------------------- MODULE MichelsonContract --------------------------
(***************************************************************************)
(* Calls of a contract executed by MIR: typecheck the parameter and the    *)
(* storage, run the script, dump the big maps into the lazy storage and    *)
(* keep the new storage (ContractScript::interpret and its caller).        *)
(*                                                                         *)
(* The script is chosen while it runs: a step picks an instruction,        *)
(* typechecks it against the types of the stack and interprets it.  The    *)
(* typechecker reads nothing the interpreter writes, so this explores      *)
(* every script of a theme, typechecked whole and then interpreted.  A     *)
(* theme gives the types of the parameter and of the storage, the literals *)
(* of the parameter, the instructions to choose from, the code before and  *)
(* after them, their number, the calls and the gas.                         *)
(***************************************************************************)
EXTENDS MirInterpreter

CONSTANT Themes

VARIABLES theme,      \* the contract
          phase,      \* "idle", "running" or "panicked"
          types,      \* the stack of types
          run,        \* the interpreter: tag, stack of values, gas and counters
          lazy,       \* the lazy storage: bm, its big maps, and next, its next id
          storage,    \* the storage of the contract, in Micheline
          returned,   \* what the script of the last call that succeeded returned
          kept,       \* the same once its big maps are dumped
          started,    \* the ids of the big maps the call started with
          emitted,    \* the operations of all calls
          outcome,    \* how the last call ended
          chosen,     \* instructions of the script so far
          calls       \* calls so far
vars == <<theme, phase, types, run, lazy, storage, returned, kept, started, emitted, outcome, chosen, calls>>

T == Themes[theme]

Entrypoints == Contracts[SelfHash]
Fresh(gas, c) == Run(<<>>, [c EXCEPT !.gas = gas])
NoCounters == [gas |-> 0, operations |-> 0, originations |-> 0, minted |-> 0]
Unit == <<"Unit">>

\* Every value inside a value, closures and tickets included.
RECURSIVE Inside(_)
Inside(v) ==
  LET all(s) == FlattenSeq([k \in DOMAIN s |-> Inside(s[k])])
      parts == CASE v[1] = "Pair" -> <<v[2], v[3]>>
                 [] v[1] \in {"Some", "Left", "Right"} -> <<v[2]>>
                 [] v[1] = "List" -> v[2]
                 [] v[1] = "Set" -> Ascending(v[2])
                 [] v[1] = "Map" -> LET keys == Ascending(DOMAIN v[2]) IN [k \in DOMAIN keys |-> v[2][keys[k]]]
                 [] v[1] = "Ticket" -> <<v[3]>>
                 [] v[1] = "Apply" -> <<v[3], v[4]>>
                 [] v[1] = "Operation" /\ v[2][1] = "TransferTokens" -> <<v[2][2]>>
                 [] v[1] = "Operation" /\ v[2][1] = "CreateContract" -> <<v[2][4]>>
                 [] OTHER -> <<>>
  IN <<v>> \o all(parts)
InsideAll(vs) == FlattenSeq([k \in DOMAIN vs |-> Inside(vs[k])])
Amounts(vs) == FoldLeft(LAMBDA n, v : n + (IF v[1] = "Ticket" THEN v[4] ELSE 0), 0, InsideAll(vs))

Init ==
  /\ theme \in DOMAIN Themes
  /\ storage = Themes[theme].initial
  /\ phase = "idle" /\ types = <<>> /\ run = Fresh(0, NoCounters)
  /\ lazy = EmptyLazyStorage
  /\ returned = PairOf(<<"List", <<>> >>, Unit) /\ kept = returned
  /\ started = {} /\ emitted = {} /\ outcome = "none" /\ chosen = 0 /\ calls = 0

\* An instruction typechecked on the types and interpreted on the values.
Typecheck(m) == typecheck_instruction(m, Entrypoints, types, lazy.bm)
Panics == {"unreachable", "no_big_map", "gas_panic"}

\* An error of the interpreter ends the call; a panic ends the program.
Ended(r) ==
  /\ phase' = IF r.tag \in Panics THEN "panicked" ELSE "idle"
  /\ types' = <<>> /\ run' = Fresh(0, r.c) /\ outcome' = r.tag
  /\ UNCHANGED <<theme, lazy, storage, returned, kept, started, emitted, chosen, calls>>

\* ContractScript::interpret: both literals must have the script's types.
Inputs(m) == Sequence(<<typecheck_value(m, T.parameter, lazy.bm),
                        typecheck_value(storage, T.storage, lazy.bm)>>)
Given(v, gas) == push(Fresh(gas, [run.c EXCEPT !.minted = Amounts(<<v>>)]), v)

Rejected ==
  /\ outcome' = "refused" /\ calls' = calls + 1
  /\ UNCHANGED <<theme, phase, types, run, lazy, storage, returned, kept, started, emitted, chosen>>

\* r is the state after the script's first instruction, which leaves the types st.
Started(v, st, r) ==
  LET maps == collect_big_maps(v) IN
  /\ Running(r)
  /\ phase' = "running" /\ types' = st /\ run' = r
  /\ started' = { maps[k][2] : k \in DOMAIN maps } \ {NoId}
  /\ calls' = calls + 1 /\ chosen' = 0 /\ outcome' = "none"
  /\ UNCHANGED <<theme, lazy, storage, returned, kept, emitted>>

Call(m, gas) ==
  LET start(v, tc) == Started(v, tc.st, interpret_one(tc.i, Given(v, gas), lazy.bm))
      call(args) ==
        IF args = None THEN Rejected
        ELSE start(PairOf(args[2][1], args[2][2]),
                   typecheck_instruction(T.prelude, Entrypoints,
                                         << <<"pair", T.parameter, T.storage>> >>, lazy.bm))
  IN /\ phase = "idle" /\ calls < T.calls
     /\ call(Inputs(m))

\* The state r after an instruction that leaves the types st.
Stepped(st, r) ==
  IF Running(r)
  THEN /\ types' = st /\ run' = r /\ chosen' = chosen + 1
       /\ UNCHANGED <<theme, phase, lazy, storage, returned, kept, started, emitted, outcome, calls>>
  ELSE Ended(r)

TypecheckerPanics ==
  /\ phase' = "panicked" /\ outcome' = "typechecker"
  /\ types' = <<>> /\ run' = Fresh(0, run.c)
  /\ UNCHANGED <<theme, lazy, storage, returned, kept, started, emitted, chosen, calls>>

Step(m) ==
  LET step(tc) == \/ /\ tc.tag = "ok"
                     /\ Stepped(tc.st, interpret_one(tc.i, run, lazy.bm))
                  \/ /\ tc.tag = "panic"
                     /\ TypecheckerPanics
  IN /\ phase = "running" /\ chosen < T.length
     /\ step(Typecheck(m))

\* The result of the script, with the big maps that dump_big_map_updates wrote.
Finished(r, dump, result) ==
  /\ phase' = "idle" /\ outcome' = "done"
  /\ types' = <<>> /\ run' = Fresh(0, r.c)
  /\ lazy' = dump.s /\ kept' = result /\ returned' = r.st[1]
  /\ storage' = into_micheline(result[3])
  /\ emitted' = emitted \union ToSet(result[2][2])
  /\ UNCHANGED <<theme, started, chosen, calls>>

Finish ==
  LET dumped(r, dump) == Finished(r, dump, SetBigMaps(r.st[1], dump.ms))
      ended(r) == IF Running(r)
                  THEN dumped(r, dump_big_map_updates(lazy, started, collect_big_maps(r.st[1])))
                  ELSE Ended(r)
      finish(tc) == /\ tc.tag = "ok"
                    /\ tc.st = << <<"pair", <<"list", Ty("operation")>>, T.storage>> >>
                    /\ ended(interpret_one(tc.i, run, lazy.bm))
  IN /\ phase = "running"
     /\ finish(Typecheck(T.epilogue))

Next == \/ \E m \in T.parameters, gas \in T.gas : Call(m, gas)
        \/ \E m \in T.body : Step(m)
        \/ Finish
Spec == Init /\ [][Next]_vars

(***************************************************************************)
(* Properties                                                              *)
(***************************************************************************)
\* What it is for a value to have a type.
RECURSIVE HasType(_, _)
HasType(v, t) ==
  LET c == t[1] tag == v[1] IN
  CASE c = "nat" -> tag = "Nat" /\ v[2] \in Nat
    [] c = "int" -> tag = "Int" /\ v[2] \in Int
    [] c = "mutez" -> tag = "Mutez" /\ v[2] \in 0..MaxMutez
    [] c = "timestamp" -> tag = "Timestamp" /\ v[2] \in Int
    [] c = "bool" -> tag = "Bool" /\ v[2] \in BOOLEAN
    [] c = "unit" -> tag = "Unit"
    [] c = "string" -> tag = "String"
    [] c = "bytes" -> tag = "Bytes" /\ \A k \in DOMAIN v[2] : v[2][k] \in 0..255
    [] c = "chain_id" -> tag = "ChainId"
    [] c = "key" -> tag = "Key"
    [] c = "key_hash" -> tag = "KeyHash" /\ IsKeyHash(v[2])
    [] c = "signature" -> tag = "Signature"
    [] c = "address" -> tag = "Address" /\ AddressHash(v[2])
    [] c = "contract" -> tag = "Contract" /\ typecheck_contract_address(AddressOf(v[2]), v[3], t[2]) # None
    [] c \in Groups -> /\ tag = (IF c = Fr THEN "Fr" ELSE IF c = G1 THEN "G1" ELSE "G2")
                       /\ v[2] \in 0..(Order - 1)
    [] c = "pair" -> tag = "Pair" /\ HasType(v[2], t[2]) /\ HasType(v[3], t[3])
    [] c = "or" -> \/ tag = "Left" /\ HasType(v[2], t[2])
                   \/ tag = "Right" /\ HasType(v[2], t[3])
    [] c = "option" -> tag = "None" \/ (tag = "Some" /\ HasType(v[2], t[2]))
    [] c = "list" -> tag = "List" /\ \A k \in DOMAIN v[2] : HasType(v[2][k], t[2])
    [] c = "set" -> tag = "Set" /\ \A x \in v[2] : HasType(x, t[2])
    [] c = "map" -> tag = "Map" /\ \A k \in DOMAIN v[2] : HasType(k, t[2]) /\ HasType(v[2][k], t[3])
    [] c = "big_map" ->
         /\ tag = "BigMap" /\ v[4] = t[2] /\ v[5] = t[3]
         /\ \A k \in DOMAIN v[3] : HasType(k, t[2]) /\ HasType(v[3][k], <<"option", t[3]>>)
    [] c = "lambda" ->
         \/ tag = "Lambda" /\ typecheck_lambda(v[3], t[2], t[3], v[2], lazy.bm) # None
         \/ tag = "Apply" /\ HasType(v[3], v[2]) /\ HasType(v[4], <<"lambda", <<"pair", v[2], t[2]>>, t[3]>>)
    [] c = "ticket" -> tag = "Ticket" /\ HasType(v[3], t[2]) /\ v[4] > 0
    [] c = "operation" -> tag = "Operation"
    [] OTHER -> FALSE

TypeOK ==
  /\ theme \in DOMAIN Themes /\ phase \in {"idle", "running", "panicked"}
  /\ run.c.gas \in Nat \union {Exhausted} /\ calls \in 0..T.calls /\ chosen \in Nat
  /\ \A id \in DOMAIN lazy.bm : id < lazy.next
  /\ \A id \in DOMAIN lazy.bm : \A k \in DOMAIN lazy.bm[id].map :
        HasType(k, lazy.bm[id].kt) /\ HasType(lazy.bm[id].map[k], lazy.bm[id].vt)

\* Type soundness.  Preservation: whatever well-typed instructions ran, every value on the
\* stack of interpreter.rs has the type that typechecker.rs gave its place:
\* amounts stay in the range of mutez, the code inside closures typechecks.
\* Progress: a typechecked script never reaches unreachable_state of
\* interpreter.rs, nor a big map that is not in the lazy storage.
TypeSoundness ==
  /\ phase = "running" => /\ Len(types) = Len(run.st)
                          /\ \A k \in DOMAIN types : HasType(run.st[k], types[k])
  /\ outcome \notin {"unreachable", "no_big_map"}

\* A value that may be pushed survives into_micheline, encode_for_pack,
\* decode_packed and typecheck_value; a closure with captured arguments comes
\* back as another lambda of the same type.
Closed(v) == \A x \in ToSet(Inside(v)) : x[1] # "Apply"
PackRoundTrip ==
  LET survives(v, m, back) == /\ decode_packed(encode_for_pack(m)) = Some(m)
                              /\ back # None
                              /\ Closed(v) => back = Some(v)
      packed(v, m, t) == survives(v, m, typecheck_value(m, t, lazy.bm))
  IN phase = "running" =>
       \A k \in DOMAIN types :
         ensure_prop(types[k], "Pushable") => packed(run.st[k], into_micheline(run.st[k]), types[k])

\* Tickets are neither duplicated nor forged: the amounts that a call holds
\* never exceed what it was given and what TICKET minted.
TicketsConserved ==
  /\ phase = "running" => Amounts(run.st) <= run.c.minted
  /\ outcome = "done" => Amounts(<<kept>>) <= run.c.minted

\* What a call kept is what the next call loads: the storage written back as
\* Micheline typechecks to the value the script returned, every big map of the
\* result has an id of its own in the lazy storage and an empty overlay, and
\* the lazy storage holds no others.
Owned == collect_big_maps(PairOf(<<"List", SetToSeq(emitted)>>, kept[3]))
StorageReloads ==
  LET loaded(back) == back # None /\ (Closed(kept[3]) => back = Some(kept[3]))
      owned(maps, ids) == /\ IsInjective(ids)
                          /\ ToSet(ids) = DOMAIN lazy.bm
                          /\ \A k \in DOMAIN maps : maps[k][3] = <<>>
      allOwned(maps) == owned(maps, [k \in DOMAIN maps |-> maps[k][2]])
  IN outcome = "done" => /\ loaded(typecheck_value(storage, T.storage, lazy.bm))
                         /\ allOwned(Owned)

\* dump_big_map_updates loses and mixes nothing: every big map of the result
\* holds in the lazy storage what GET answered at the end of the script.
Contents(m) ==
  LET keys == DOMAIN m[3] \union (IF m[2] = NoId THEN {} ELSE DOMAIN lazy.bm[m[2]].map) IN
  [key \in { key \in keys : big_map_get(m, key, lazy.bm) # None } |-> big_map_get(m, key, lazy.bm)[2]]
DumpPreserves ==
  [][phase = "running" /\ outcome' = "done" =>
       LET before == collect_big_maps(returned')
           after == collect_big_maps(kept')
       IN /\ Len(after) = Len(before)
          /\ \A k \in DOMAIN before : lazy'.bm[after[k][2]].map = Contents(before[k])]_vars

=============================================================================
