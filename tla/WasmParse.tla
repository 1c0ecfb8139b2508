------------------------------ MODULE WasmParse ------------------------------
(***************************************************************************)
(* m3_ParseModule (kernel/lib/wasm3/m3_parse.c) and what it builds with     *)
(* m3_module.c, m3_function.c and Environment_AddFuncType of m3_env.c: the   *)
(* sections of a module in their order, the tables that they fill, the       *)
(* names that are read into the heap and handed from hand to hand, and the   *)
(* freeing of all of it after an error at any point.                         *)
(*                                                                           *)
(* A section is a sequence of items, and an item is a step.  The image is    *)
(* whatever the steps choose: a read may fail anywhere.  A name is one       *)
(* string in the heap; the model counts the strings, which is enough to see  *)
(* one freed twice or never.                                                 *)
(***************************************************************************)
EXTENDS Integers, Sequences, SequencesExt, FiniteSets, FiniteSetsExt

CONSTANTS Sigs,        \* function signatures
          MaxNames,    \* d_m3MaxDuplicateFunctionImpl
          MaxTypes,    \* bound: types of a module
          MaxFuncs,    \* bound: functions of a module
          MaxGlobals,  \* bound: globals of a module
          MaxLeaks     \* bound: strings left behind

ASSUME WasmParseAssumption == {MaxNames, MaxTypes, MaxFuncs, MaxGlobals, MaxLeaks} \subseteq Nat /\ MaxNames > 0

\* sectionsOrder of m3_ParseModule; the last entry is a placeholder.
SectionsOrder == <<1, 2, 3, 4, 5, 6, 7, 8, 9, 12, 10, 11, 0>>
Section == [custom |-> 0, type |-> 1, import |-> 2, function |-> 3, global |-> 6,
            export |-> 7, start |-> 8, code |-> 10]

VARIABLES types,    \* the environment's function types, newest first
          module,   \* the module
          sec,      \* the section being parsed, -1 between sections
          live,     \* strings in the heap
          left      \* (history) strings that nobody will free
parseVars == <<types, module, sec, live, left>>

Blank0 == [at |-> "none", expected |-> 1, types |-> <<>>, funcs |-> <<>>, imports |-> 0,
           globals |-> <<>>, memImport |-> FALSE, memName |-> FALSE, tabName |-> FALSE,
           start |-> 0, bodies |-> 0]

\* Mutant: the name that is the import's field is freed twice.
FuncStrings_Twice(f) == IF f.imp THEN f.names + 2 ELSE f.names

\* Function_Release and FreeImportInfo: the name that is the import's field is freed once.
FuncStrings(f) == IF f.imp THEN f.names - 1 + 2 ELSE f.names

GlobalStrings(g) == (IF g.name THEN 1 ELSE 0) + (IF g.imp THEN 2 ELSE 0)
Total(w, n) == LET upto[i \in 0 .. n] == IF i = 0 THEN 0 ELSE upto[i-1] + w[i]
               IN upto[n]

\* What m3_FreeModule frees: it walks both tables.
ModuleStrings(x) ==
  Total([i \in DOMAIN x.funcs |-> FuncStrings(x.funcs[i])], Len(x.funcs))
    + Total([i \in DOMAIN x.globals |-> GlobalStrings(x.globals[i])], Len(x.globals))
    + (IF x.memImport THEN 2 ELSE 0) + (IF x.memName THEN 1 ELSE 0)
    + (IF x.tabName THEN 1 ELSE 0)

\* An error: the strings of the item are freed and m3_ParseModule frees the module.
ParseFails ==
  /\ module.at = "parsing"
  /\ live' = live - ModuleStrings(module)
  /\ module' = Blank0 /\ sec' = -1
  /\ UNCHANGED <<types, left>>

\* A table that cannot grow: the array is gone, its count is not, and m3_FreeModule walks it.
Wild ==
  /\ module' = [Blank0 EXCEPT !.at = "wild"]
  /\ sec' = -1
  /\ UNCHANGED <<types, live, left>>

ParseBegin ==
  /\ module.at = "none"
  /\ module' = [Blank0 EXCEPT !.at = "parsing"]
  /\ UNCHANGED <<types, sec, live, left>>

\* The section header: m3_ParseModule looks for the section from the expected place on.
Found(id) ==
  LET places == {i \in module.expected .. 13 : SectionsOrder[i] = id} IN
  IF places = {} \/ module.expected > 12 THEN 0 ELSE Min(places)

OpenSection ==
  /\ module.at = "parsing" /\ sec = -1
  /\ \E id \in 0 .. 12 :
       IF id = Section.custom
       THEN sec' = id /\ UNCHANGED module
       ELSE /\ Found(id) > 0
            /\ sec' = id
            /\ module' = [module EXCEPT !.expected = Found(id) + 1]
  /\ UNCHANGED <<types, live, left>>

\* ParseSection_Code wants a body for every function of the module's own.
CloseSection ==
  /\ sec # -1
  /\ sec = Section.code => module.bodies = Len(module.funcs) - module.imports
  /\ sec' = -1
  /\ UNCHANGED <<types, module, live, left>>

\* The expected place is a variable of m3_ParseModule and ends with it.
ParseEnd ==
  /\ module.at = "parsing" /\ sec = -1
  /\ module' = [module EXCEPT !.at = "parsed", !.expected = 1, !.bodies = 0]
  /\ UNCHANGED <<types, sec, live, left>>

\* Environment_AddFuncType: the type of the list, or a new one at its front.
AddFuncType(t) == IF t \in Range(types) THEN types ELSE <<t>> \o types

TypeItem ==
  /\ sec = Section.type /\ Len(module.types) < MaxTypes
  /\ \E t \in Sigs :
       /\ types' = AddFuncType(t)
       /\ module' = [module EXCEPT !.types = Append(@, t)]
  /\ UNCHANGED <<sec, live, left>>

NewFunc(t, imp) == [type |-> t, imp |-> imp, names |-> IF imp THEN 1 ELSE 0, export |-> FALSE,
                    body |-> FALSE, mod |-> FALSE, code |-> FALSE]

\* Module_AddFunction, for an import with the two strings of its name.
AddFunction(imp) ==
  /\ Len(module.funcs) < MaxFuncs
  /\ \E i \in DOMAIN module.types :
       module' = [module EXCEPT !.funcs = Append(@, NewFunc(module.types[i], imp)),
                      !.imports = IF imp THEN @ + 1 ELSE @]
  /\ live' = IF imp THEN live + 2 ELSE live
  /\ UNCHANGED <<types, sec, left>>

\* Module_PreallocFunctions has no memory for the functions behind the imports.
PreallocFails ==
  /\ sec = Section.function /\ module.imports > 0 /\ Len(module.funcs) = module.imports
  /\ Wild

FunctionItem == sec = Section.function /\ AddFunction(FALSE)
ImportFunction == sec = Section.import /\ AddFunction(TRUE)

\* Module_AddGlobal.
AddGlobal(imp) ==
  \/ /\ Len(module.globals) < MaxGlobals
     /\ module' = [module EXCEPT !.globals = Append(@, [imp |-> imp, name |-> FALSE])]
     /\ live' = IF imp THEN live + 2 ELSE live
     /\ UNCHANGED <<types, sec, left>>
  \/ Wild

GlobalItem == sec = Section.global /\ AddGlobal(FALSE)
ImportGlobal == sec = Section.import /\ AddGlobal(TRUE)

\* A second memory import takes the place of the first, whose strings are lost.
ImportMemory ==
  /\ sec = Section.import /\ left + 2 <= MaxLeaks
  /\ module' = [module EXCEPT !.memImport = TRUE]
  /\ live' = live + 2
  /\ left' = IF module.memImport THEN left + 2 ELSE left
  /\ UNCHANGED <<types, sec>>

\* The export keeps its string as one more name of the function, while there is room.
ExportFunction ==
  /\ sec = Section.export
  /\ \E i \in DOMAIN module.funcs :
       /\ module.funcs[i].names < MaxNames
       /\ module' = [module EXCEPT !.funcs[i].names = @ + 1, !.funcs[i].export = TRUE]
  /\ live' = live + 1
  /\ UNCHANGED <<types, sec, left>>

\* Exporting a global, the memory or the table again frees the earlier name.
ExportGlobal ==
  /\ sec = Section.export
  /\ \E i \in DOMAIN module.globals :
       /\ module' = [module EXCEPT !.globals[i].name = TRUE]
       /\ live' = IF module.globals[i].name THEN live ELSE live + 1
  /\ UNCHANGED <<types, sec, left>>

ExportMemory ==
  /\ sec = Section.export
  /\ module' = [module EXCEPT !.memName = TRUE]
  /\ live' = IF module.memName THEN live ELSE live + 1
  /\ UNCHANGED <<types, sec, left>>

ExportTable ==
  /\ sec = Section.export
  /\ module' = [module EXCEPT !.tabName = TRUE]
  /\ live' = IF module.tabName THEN live ELSE live + 1
  /\ UNCHANGED <<types, sec, left>>

StartItem ==
  /\ sec = Section.start
  /\ \E i \in DOMAIN module.funcs : module' = [module EXCEPT !.start = i]
  /\ UNCHANGED <<types, sec, live, left>>

\* One body of the code section; an empty one leaves the function as it was.
CodeItem ==
  /\ sec = Section.code /\ module.bodies < Len(module.funcs) - module.imports
  /\ \E some \in BOOLEAN :
       LET i == module.imports + module.bodies + 1
       IN module' = [module EXCEPT !.bodies = @ + 1,
                         !.funcs[i].body = some, !.funcs[i].mod = some]
  /\ UNCHANGED <<types, sec, live, left>>

\* ParseSection_Name names the functions that have no name yet.  The section's own name is
\* freed at its end, and lost when the section is bad; an empty one has no result of its own.
NameItem ==
  /\ sec = Section.custom
  /\ \E i \in DOMAIN module.funcs :
       /\ module.funcs[i].names = 0
       /\ module' = [module EXCEPT !.funcs[i].names = 1]
       /\ live' = live + 1
  /\ UNCHANGED <<types, sec, left>>

CustomFails ==
  /\ sec = Section.custom /\ left < MaxLeaks
  /\ live' = live - ModuleStrings(module) + 1
  /\ left' = left + 1
  /\ module' = Blank0 /\ sec' = -1
  /\ UNCHANGED types

\* FindAndLinkFunction: an import that matches is compiled to a stub and knows its module.
LinkImport ==
  /\ module.at = "parsed"
  /\ \E i \in DOMAIN module.funcs :
       /\ module.funcs[i].imp
       /\ module' = [module EXCEPT !.funcs[i].mod = TRUE, !.funcs[i].code = TRUE]
  /\ UNCHANGED <<types, sec, live, left>>

\* v_FindFunction: exports, then the names of the module's own functions.
Findable(f) == f.export \/ (~f.imp /\ f.names > 0)

\* m3_FindFunction, m3_GetTableFunction and m3_RunStart compile what they find; CompileFunction
\* refuses a function without a body.
FindFunction ==
  /\ module.at = "parsed"
  /\ \E i \in DOMAIN module.funcs :
       /\ Findable(module.funcs[i]) \/ i = module.start
       /\ ~module.funcs[i].code /\ module.funcs[i].body
       /\ module' = [module EXCEPT !.funcs[i].code = TRUE]
  /\ UNCHANGED <<types, sec, live, left>>

\* m3_FreeModule.
FreeModule ==
  /\ module.at = "parsed"
  /\ live' = live - ModuleStrings(module)
  /\ module' = Blank0
  /\ UNCHANGED <<types, sec, left>>

ParseInit ==
  /\ types = <<>> /\ module = Blank0 /\ sec = -1 /\ live = 0 /\ left = 0
ParseNext ==
  \/ ParseBegin \/ OpenSection \/ CloseSection \/ ParseEnd \/ ParseFails
  \/ TypeItem \/ PreallocFails \/ FunctionItem \/ ImportFunction \/ GlobalItem \/ ImportGlobal \/ ImportMemory
  \/ ExportFunction \/ ExportGlobal \/ ExportMemory \/ ExportTable \/ StartItem \/ CodeItem \/ NameItem
  \/ CustomFails \/ LinkImport \/ FindFunction \/ FreeModule
ParseSpec == ParseInit /\ [][ParseNext]_parseVars

(* ---- properties ---- *)

\* Every string in the heap has one owner that will free it: after any mixture of imports,
\* exports, names and errors, freeing the module frees exactly what was read, except the
\* strings of a memory import that was replaced and the name of a bad custom section.
StringsOwned == module.at # "wild" => live = ModuleStrings(module) + left

\* "unique M3FuncType structs that can be compared using pointer-equivalence" (m3_env.h):
\* no type is in the environment's list twice, and the types of a module are in the list,
\* after any number of modules, parsed or refused.
TypesUnique ==
  /\ Len(types) = Cardinality(Range(types))
  /\ Range(module.types) \subseteq Range(types)

\* A function that has code knows its module: m3_CallV and CompileFunction go through
\* function->module without a test.
CallableKnown == \A i \in DOMAIN module.funcs : module.funcs[i].code => module.funcs[i].mod

\* Names, types and links of a module, also of one that was refused half way.
ModuleWhole == StringsOwned /\ TypesUnique /\ CallableKnown
=============================================================================
