------------------------------- MODULE FuncPass -------------------------------
(***************************************************************************)
(* CustomModulePass (lifting_tools/llvm_func_pass/func_pass.cpp) and the   *)
(* relocation dump it reads (gen_reloc_dump of generateIR.py): the lifted  *)
(* program calls bpf_<helper>.toreplace with a number where the program    *)
(* had a map; the pass turns the numbers back into map globals.            *)
(*                                                                         *)
(* The number is the offset of the instruction that names the map, counted *)
(* by the lifter from the start of the function the call is in.  The dump  *)
(* holds offsets counted from the start of the section and offsets counted *)
(* from every function.  An LLVM value is abstracted to its type.          *)
(***************************************************************************)
EXTENDS SequencesExt

\* The object files considered: start offsets of functions, relocations,
\* names of globals and functions, and the helper calls.
CONSTANT Objects

VARIABLES
  fobj,       \* the object file
  fphase,
  config,     \* lines of map_offset_mapping
  mapIdToName,
  globals,    \* names of the global variables
  functions,  \* names of the functions, declarations included
  sites,      \* the call instructions
  fnext       \* the call replaceMapLookupDelete is at

fvars == <<fobj, fphase, config, mapIdToName, globals, functions, sites, fnext>>

MapHelpers == {"bpf_map_lookup_elem", "bpf_map_delete_elem", "bpf_map_update_elem",
               "bpf_tail_call", "bpf_ringbuf_reserve", "bpf_ringbuf_output"}
\* The names transformMapLookups looks for, without .toreplace.
Helpers == MapHelpers \cup
  {"bpf_ringbuf_submit", "bpf_ringbuf_discard", "bpf_ktime_get_ns", "bpf_xdp_adjust_head",
   "bpf_get_smp_processor_id", "bpf_get_current_comm", "bpf_probe_read", "bpf_probe_read_str",
   "bpf_trace_printk", "bpf_probe_write_user", "bpf_override_return"}
\* A name and its suffix.
Real(h) == <<h, "">>
ToReplace(h) == <<h, "toreplace">>
Renamed(n) == <<n[1], "1">>
NoMap == Real("")
IsReal(n) == n = Real(n[1])

(***************************************************************************)
(* What an object file is: an instruction has one relocation at most, a    *)
(* helper is called from a function whose start is listed (or from the     *)
(* start of the section), and the symbol a map helper refers to is not     *)
(* that of a function.                                                     *)
(***************************************************************************)
ASSUME ObjectAssumption ==
  \A o \in Objects :
    /\ o.starts \in Seq(Nat)
    /\ \A n \in o.globals \cup o.functions : IsReal(n)
    /\ o.relocs \in Seq(Range(o.relocs))
    /\ \A i \in DOMAIN o.relocs : o.relocs[i].at \in Nat /\ IsReal(o.relocs[i].map)
    /\ \A i, j \in DOMAIN o.relocs : o.relocs[i].at = o.relocs[j].at => i = j
    /\ o.calls \in Seq(Range(o.calls))
    /\ \A i \in DOMAIN o.calls :
         LET c == o.calls[i]
         IN  /\ c.at \in Nat /\ c.start \in 0..c.at
             /\ c.start # 0 => c.start \in Range(o.starts)
             /\ \A j \in DOMAIN o.relocs :
                  c.helper \in MapHelpers /\ o.relocs[j].at = c.at
                    => o.relocs[j].map \notin o.functions

-----------------------------------------------------------------------------
(* gen_reloc_dump.                                                         *)

GlobalOffsets == {fobj.relocs[i].at : i \in DOMAIN fobj.relocs}
Line(id, map) == [id |-> id, name |-> map]
GlobalLines == [i \in DOMAIN fobj.relocs |-> Line(fobj.relocs[i].at, fobj.relocs[i].map)]
\* The local offsets written for one relocation, function by function.
LocalLines(r) ==
  FlattenSeq([j \in DOMAIN fobj.starts |->
    LET s == fobj.starts[j]
    IN  IF 0 < s /\ s < r.at /\ r.at - s \notin GlobalOffsets
        THEN <<Line(r.at - s, r.map)>> ELSE << >>])
AllLocalLines == FlattenSeq([i \in DOMAIN fobj.relocs |-> LocalLines(fobj.relocs[i])])

\* Mutant: only the offsets from the start of the section are written.
gen_reloc_dump_global ==
  /\ fphase = "dump"
  /\ config' = GlobalLines
  /\ fphase' = "read"
  /\ UNCHANGED <<fobj, mapIdToName, globals, functions, sites, fnext>>
gen_reloc_dump ==
  /\ fphase = "dump"
  /\ config' = GlobalLines \o AllLocalLines
  /\ fphase' = "read"
  /\ UNCHANGED <<fobj, mapIdToName, globals, functions, sites, fnext>>

-----------------------------------------------------------------------------
(* The pass.                                                               *)

\* A later line replaces an earlier one with its number; a relocation
\* against a section has no name, and its line is skipped.
readMapConfig ==
  LET named == {i \in DOMAIN config : config[i].name # NoMap}
      last(id) == CHOOSE i \in named : /\ config[i].id = id
                                       /\ \A j \in named : config[j].id = id => j <= i
  IN  /\ fphase = "read"
      /\ mapIdToName' = [id \in {config[i].id : i \in named} |-> config[last(id)].name]
      /\ fphase' = "globals"
      /\ UNCHANGED <<fobj, config, globals, functions, sites, fnext>>

MapNames == {mapIdToName[id] : id \in DOMAIN mapIdToName}

\* The lifted definitions go and each name gets one new definition; a name a
\* function has already is changed by LLVM.
createMapDefinitions ==
  /\ fphase = "globals"
  /\ globals' = (globals \ MapNames) \cup (MapNames \ functions)
                  \cup {Renamed(n) : n \in MapNames \cap functions}
  /\ fphase' = "calls"
  /\ UNCHANGED <<fobj, config, mapIdToName, functions, sites, fnext>>

\* Conversions.  bad: LLVM has no such conversion of a value of this type.
Ptr(t) == IF t \in {"i32", "i64", "ptr"} THEN "ptr" ELSE "bad"
IntToPtr(t) == IF t \in {"i32", "i64"} THEN "ptr" ELSE "bad"
I64(t) == IF t \in {"i32", "i64"} THEN "i64" ELSE "bad"
I32(t) == IF t = "i64" THEN "i32" ELSE t
\* The declared type of a helper and the call the pass builds: the type of
\* each operand, and the type of the value that replaces the old call.
Built(params, args, result) == [params |-> params, args |-> args, result |-> result]

bpf_ktime_get_ns(c) == Built(<< >>, << >>, "i64")
bpf_get_smp_processor_id(c) == Built(<< >>, << >>, IF c.type = "i64" THEN "i64" ELSE "i32")
bpf_xdp_adjust_head(c) ==
  Built(<<"ptr", "i32">>, <<Ptr(c.args[1]), I32(c.args[2])>>, IF c.type = "i64" THEN "i64" ELSE "i32")
bpf_ringbuf_submit(c) == Built(<<"ptr", "i64">>, <<Ptr(c.args[1]), I64(c.args[2])>>, "void")
bpf_ringbuf_reserve(c) ==
  Built(<<"ptr", "i64", "i64">>, <<"ptr", I64(c.args[2]), I64(c.args[3])>>, "i64")
bpf_ringbuf_output(c) ==
  Built(<<"ptr", "ptr", "i64", "i64">>, <<"ptr", Ptr(c.args[2]), I64(c.args[3]), I64(c.args[4])>>, "i64")
bpf_get_current_comm(c) == Built(<<"ptr", "i32">>, <<Ptr(c.args[1]), I32(c.args[2])>>, "i64")
bpf_probe_read(c) ==
  Built(<<"ptr", "i32", "ptr">>, <<Ptr(c.args[1]), I32(c.args[2]), Ptr(c.args[3])>>, "i64")
bpf_probe_read_str(c) ==
  Built(<<"ptr", "i32", "ptr">>, <<Ptr(c.args[1]), I32(c.args[2]), Ptr(c.args[3])>>, "i64")
\* Variadic: the operands after the second are passed on.
bpf_trace_printk(c) == Built(<<"ptr", "i32">>, <<Ptr(c.args[1]), I32(c.args[2])>>, "i64")
bpf_probe_write_user(c) ==
  Built(<<"ptr", "ptr", "i32">>, <<Ptr(c.args[1]), Ptr(c.args[2]), I32(c.args[3])>>, "i64")
bpf_override_return(c) == Built(<<"ptr", "i64">>, <<Ptr(c.args[1]), I64(c.args[2])>>, "i64")
bpf_tail_call(c) ==
  Built(<<"ptr", "ptr", "i32">>, <<Ptr(c.args[1]), "ptr", I32(c.args[3])>>, "i64")
lookup_or_delete(c) == Built(<<"ptr", "ptr">>, <<"ptr", IntToPtr(c.args[2])>>, "i64")
bpf_map_update_elem(c) ==
  Built(<<"ptr", "ptr", "ptr", "i64">>,
        <<"ptr", IntToPtr(c.args[2]), IntToPtr(c.args[3]), c.args[4]>>, "i64")

Rebuilt(c) ==
  CASE c.helper = "bpf_ktime_get_ns" -> bpf_ktime_get_ns(c)
    [] c.helper = "bpf_get_smp_processor_id" -> bpf_get_smp_processor_id(c)
    [] c.helper = "bpf_xdp_adjust_head" -> bpf_xdp_adjust_head(c)
    [] c.helper \in {"bpf_ringbuf_submit", "bpf_ringbuf_discard"} -> bpf_ringbuf_submit(c)
    [] c.helper = "bpf_ringbuf_reserve" -> bpf_ringbuf_reserve(c)
    [] c.helper = "bpf_ringbuf_output" -> bpf_ringbuf_output(c)
    [] c.helper = "bpf_get_current_comm" -> bpf_get_current_comm(c)
    [] c.helper = "bpf_probe_read" -> bpf_probe_read(c)
    [] c.helper = "bpf_probe_read_str" -> bpf_probe_read_str(c)
    [] c.helper = "bpf_trace_printk" -> bpf_trace_printk(c)
    [] c.helper = "bpf_probe_write_user" -> bpf_probe_write_user(c)
    [] c.helper = "bpf_override_return" -> bpf_override_return(c)
    [] c.helper = "bpf_tail_call" -> bpf_tail_call(c)
    [] c.helper = "bpf_map_update_elem" -> bpf_map_update_elem(c)
    [] OTHER -> lookup_or_delete(c)

\* The number stands for a map whose definition is there.
Found(c) == c.id \in DOMAIN mapIdToName /\ mapIdToName[c.id] \in globals
\* A map helper is rewritten when the number is a constant, and then
\* - with the global it stands for,
\* - with the number itself as a pointer when it stands for nothing (the two
\*   ring buffer helpers are left alone instead).
Rewrites(c) ==
  \/ c.helper \in Helpers \ MapHelpers
  \/ /\ c.helper \in MapHelpers /\ c.constant
     /\ \/ Found(c)
        \/ c.id \notin DOMAIN mapIdToName
             /\ c.helper \notin {"bpf_ringbuf_reserve", "bpf_ringbuf_output"}
MapArg(c) == IF c.helper \in MapHelpers /\ Found(c) THEN mapIdToName[c.id] ELSE NoMap

replaceMapLookupDelete ==
  /\ fphase = "calls" /\ fnext <= Len(sites)
  /\ LET c == sites[fnext]
     IN  IF Rewrites(c)
         THEN /\ sites' = [sites EXCEPT ![fnext] =
                             [@ EXCEPT !.callee = Real(c.helper), !.map = MapArg(c), !.built = Rebuilt(c)]]
              /\ functions' = functions \cup {Real(c.helper)}
         ELSE UNCHANGED <<sites, functions>>
  /\ fnext' = fnext + 1
  /\ UNCHANGED <<fobj, fphase, config, mapIdToName, globals>>

\* Mutant: a declaration is erased although calls of it are left.
eraseDeclarations_used ==
  /\ fphase = "calls" /\ fnext > Len(sites)
  /\ functions' = functions \ {ToReplace(sites[i].helper) : i \in DOMAIN sites}
  /\ fphase' = "done"
  /\ UNCHANGED <<fobj, config, mapIdToName, globals, sites, fnext>>
\* The declarations of the calls that were found go unless they have uses.
eraseDeclarations ==
  /\ fphase = "calls" /\ fnext > Len(sites)
  /\ functions' = functions \
       ({ToReplace(sites[i].helper) : i \in {j \in DOMAIN sites : sites[j].helper \in Helpers}}
        \ {sites[i].callee : i \in DOMAIN sites})
  /\ fphase' = "done"
  /\ UNCHANGED <<fobj, config, mapIdToName, globals, sites, fnext>>

-----------------------------------------------------------------------------
\* The lifted module: the lifter numbers a map from the start of the function.
Lifted(c) ==
  [helper |-> c.helper, at |-> c.at, id |-> c.at - c.start, constant |-> c.constant,
   args |-> [i \in 1..5 |-> "i64"], type |-> "i64",
   callee |-> ToReplace(c.helper), map |-> NoMap, built |-> Built(<< >>, << >>, "i64")]

FuncPassInit ==
  /\ fobj \in Objects
  /\ fphase = "dump"
  /\ config = << >>
  /\ mapIdToName = << >>
  /\ globals = fobj.globals
  /\ functions = fobj.functions \cup {ToReplace(fobj.calls[i].helper) : i \in DOMAIN fobj.calls}
  /\ sites = [i \in DOMAIN fobj.calls |-> Lifted(fobj.calls[i])]
  /\ fnext = 1
FuncPassNext ==
  gen_reloc_dump \/ readMapConfig \/ createMapDefinitions \/ replaceMapLookupDelete \/ eraseDeclarations
FuncPassSpec == FuncPassInit /\ [][FuncPassNext]_fvars

-----------------------------------------------------------------------------
(* Properties.                                                             *)

MapAt(at) == LET rs == {i \in DOMAIN fobj.relocs : fobj.relocs[i].at = at}
             IN  IF rs = {} THEN NoMap ELSE fobj.relocs[CHOOSE i \in rs : TRUE].map
\* No other relocation is written to the dump under the number of this call,
\* and it is not the first instruction of a function with others before it.
Unambiguous(c) ==
  /\ c.id = 0 => c.at = 0
  /\ \A i \in DOMAIN fobj.relocs :
       LET r == fobj.relocs[i]
       IN  r.at # c.at =>
             /\ r.at # c.id
             /\ \A j \in DOMAIN fobj.starts : fobj.starts[j] < r.at => r.at - fobj.starts[j] # c.id

(***************************************************************************)
(* A map helper of the rewritten program works on the map the compiled     *)
(* program named, when the offset of the call is not the offset of another *)
(* reference too: the dump, its order and the definitions made from it     *)
(* together give each call its own map.                                    *)
(***************************************************************************)
BoundToOwnMap ==
  fphase = "done" =>
    \A i \in DOMAIN sites :
      sites[i].helper \in MapHelpers /\ sites[i].constant /\ Unambiguous(sites[i])
        => sites[i].map = MapAt(sites[i].at)

(***************************************************************************)
(* The module that leaves the pass is one: what is called is declared,     *)
(* nothing declared for replacement is left without a call, operands have  *)
(* the types of the parameters, the value that replaces a call has its     *)
(* type, and each map has one definition under its own name.               *)
(***************************************************************************)
RewrittenModuleLinks ==
  fphase = "done" =>
    /\ \A i \in DOMAIN sites :
         /\ sites[i].callee \in functions
         /\ sites[i].built.args = sites[i].built.params
         /\ sites[i].built.result \in {sites[i].type, "void"}
    /\ \A h \in Helpers : ToReplace(h) \in functions =>
                            \E i \in DOMAIN sites : sites[i].callee = ToReplace(h)
    /\ \A n \in MapNames : Renamed(n) \in globals => n \in functions
=============================================================================
