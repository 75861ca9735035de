----------------------------- MODULE ValueTable -----------------------------
(***************************************************************************)
(* The value table of Converter::Impl (src/dxil_converter.cpp):            *)
(* get_id_for_value and the get_id_for_undef / get_id_for_constant it     *)
(* falls back on.  The modules that lower instructions thread its state    *)
(* through these operators as a record                                     *)
(*   [vm: value_map, nid: next id, mod: module-scope ids, last: result].   *)
(* An HLIR value is a record whose kind is "undef", "const" (an integer    *)
(* constant of a bit width and a value) or anything else (an instruction   *)
(* result).                                                                *)
(***************************************************************************)
EXTENDS Naturals, TLC

Undef          == [kind |-> "undef"]
IntConst(w, n) == [kind |-> "const", ty |-> "int", width |-> w, val |-> n]
FloatConst(n)  == [kind |-> "const", ty |-> "float", width |-> 32, val |-> n]

(* get_id_for_undef: builder.createUndefined allocates a module-scope id.  *)
get_id_for_undef(st) == [id |-> st.nid, nid |-> st.nid + 1]

(* get_id_for_constant: a float or double gets a float constant; of the    *)
(* integers only 32-bit ones (width forced or not) get a constant, every   *)
(* other width yields the sentinel 0.                                      *)
get_id_for_constant(st, v, forced_width) ==
  LET w == IF forced_width # 0 THEN forced_width ELSE v.width
  IN  IF v.ty = "float" \/ w = 32 THEN [id |-> st.nid, nid |-> st.nid + 1]
      ELSE [id |-> 0, nid |-> st.nid]

(* Faulty variant: the fresh id is returned without being cached.          *)
get_id_for_value_uncached(st, v, forced_width) ==
  IF v \in DOMAIN st.vm THEN [st EXCEPT !.last = st.vm[v]]
  ELSE LET r == CASE v.kind = "undef" -> get_id_for_undef(st)
                  [] v.kind = "const" -> get_id_for_constant(st, v, forced_width)
                  [] OTHER            -> [id |-> st.nid, nid |-> st.nid + 1]
       IN  [vm   |-> IF v.kind \in {"undef", "const"} THEN st.vm @@ (v :> r.id) ELSE st.vm,
            nid  |-> r.nid,
            mod  |-> IF v.kind \in {"undef", "const"} /\ r.id # 0
                     THEN st.mod \cup {r.id} ELSE st.mod,
            last |-> r.id]

(* get_id_for_value: cached id, else undef / constant / fresh id, cached   *)
(* unconditionally before returning.                                       *)
get_id_for_value(st, v, forced_width) ==
  IF v \in DOMAIN st.vm THEN [st EXCEPT !.last = st.vm[v]]
  ELSE LET r == CASE v.kind = "undef" -> get_id_for_undef(st)
                  [] v.kind = "const" -> get_id_for_constant(st, v, forced_width)
                  [] OTHER            -> [id |-> st.nid, nid |-> st.nid + 1]
       IN  [vm   |-> st.vm @@ (v :> r.id),
            nid  |-> r.nid,
            mod  |-> IF v.kind \in {"undef", "const"} /\ r.id # 0
                     THEN st.mod \cup {r.id} ELSE st.mod,
            last |-> r.id]

=============================================================================
