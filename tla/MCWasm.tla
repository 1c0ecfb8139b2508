------------------------------- MODULE MCWasm -------------------------------
(* Instances of WasmCode: the mixes of instructions that TLC compiles.      *)
EXTENDS WasmCode

NoTypes == <<>>
I32 == <<"i32">>
I64 == <<"i64">>
Op(in, out) == [in |-> in, out |-> out]
Bt(params, results) == [params |-> params, results |-> results]
Ft(args, rets) == [args |-> args, rets |-> rets]
Add == Op(<<"i32", "i32">>, "i32")
Plain == [uses |-> {}, consts |-> {"i32"}, globals |-> {}, operators |-> {}, memory |-> {},
          converts |-> {}, selects |-> {}, calls |-> {}, blocks |-> {},
          stack |-> 3, depth |-> 0]

\* Straight-line code with operands of both register classes.
Straight == [Plain EXCEPT !.operators = {Add, Op(<<"f64", "f64">>, "i32")}, !.consts = {},
               !.memory = {Op(<<"i32">>, "f64"), Op(<<"i32", "f64">>, "none")},
               !.selects = {"i32", "f64"}]

\* Constants in the table and inline, next to operands in slots and registers.
Constant == [Plain EXCEPT !.operators = {Add}, !.selects = {"i32"}]

\* Calls among operands in every place, in registers too.
Calling == [Plain EXCEPT !.calls = {Ft(<<"i32">>, <<"i32">>), Ft(<<"i32", "i32">>, <<"i64">>)},
               !.consts = {}, !.globals = {"i32"}]

\* Moves between registers, memory operations, wide globals.
Mixed == [Plain EXCEPT !.uses = {"global.set", "memory"}, !.globals = {"i64"}, !.consts = {},
            !.converts = {Op(<<"i32">>, "f64")}]

\* One block of every kind, with and without a result, and every branch.
Branching == [Plain EXCEPT !.uses = {"block", "loop", "if", "br_table", "return"},
                !.operators = {Op(<<"i32">>, "i32")}, !.stack = 2, !.depth = 1,
                !.blocks = {Bt(<<>>, <<>>), Bt(<<>>, <<"i32">>)}]

\* Nested blocks.
Nested == [Plain EXCEPT !.uses = {"loop", "if"}, !.stack = 1, !.depth = 2,
             !.blocks = {Bt(<<>>, <<>>), Bt(<<>>, <<"i32">>)}]

\* A block whose two results have to change places.
Swapped == [Plain EXCEPT !.uses = {"block"}, !.depth = 1, !.globals = {"i32"}, !.consts = {},
               !.blocks = {Bt(<<>>, <<"i32", "i32">>)}]

AllMixes == {Straight, Constant, Calling, Mixed, Branching, Nested, Swapped}

\* Wide locals.
WideMixes == {[Plain EXCEPT !.globals = {"i32"}, !.consts = {"i64"}]}
=============================================================================
