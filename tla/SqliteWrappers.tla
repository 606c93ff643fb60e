--------------------------- MODULE SqliteWrappers ---------------------------
(***************************************************************************)
(* The SQLite functions native/shim_sqlite3.c wraps: the span of each, the *)
(* words its BEGIN and END events carry; and what tool/spans.yaml says     *)
(* these events carry.                                                     *)
(*                                                                         *)
(* An argument is named by the conversion that makes a 64-bit word of it.  *)
(***************************************************************************)
EXTENDS Integers, Sequences

CONSTANTS
  Word32,         (* 2^32                                                  *)
  Word64          (* 2^64                                                  *)

ASSUME WordAssumption ==
  /\ Word32 \in Nat \ {0} /\ Word64 \in Nat \ {0}
  /\ Word32 % 2 = 0 /\ Word64 % Word32 = 0 /\ Word64 # Word32

-----------------------------------------------------------------------------
(* native/builtin_spans.g.h                                                *)
SpanId ==
  [_metadata |-> \h0001, _dropped_events |-> \h0002, _trace_start |-> \h0003,
   _trace_end |-> \h0004, _producer_registered |-> \h0005,
   _string_pool_overflow |-> \h0006, _drain_boundary |-> \h0007,
   sqlite3_open |-> \h1000, sqlite3_open_v2 |-> \h1001,
   sqlite3_close |-> \h1003, sqlite3_close_v2 |-> \h1004,
   sqlite3_prepare_v2 |-> \h1011, sqlite3_prepare_v3 |-> \h1012,
   sqlite3_finalize |-> \h1020, sqlite3_step |-> \h1030,
   sqlite3_reset |-> \h1031, sqlite3_bind_null |-> \h1040,
   sqlite3_bind_int |-> \h1041, sqlite3_bind_int64 |-> \h1042,
   sqlite3_bind_double |-> \h1043, sqlite3_bind_text |-> \h1044,
   sqlite3_bind_blob |-> \h1048, sqlite3_clear_bindings |-> \h1053,
   sqlite3_column_count |-> \h1080, sqlite3_column_int |-> \h1090,
   sqlite3_column_int64 |-> \h1091, sqlite3_column_double |-> \h1092,
   sqlite3_column_text |-> \h1093, sqlite3_column_blob |-> \h1095,
   sqlite3_column_bytes |-> \h1096, sqlite3_exec |-> \h10D0,
   sqlite3_changes |-> \h10E0, sqlite3_total_changes |-> \h10E2,
   sqlite3_last_insert_rowid |-> \h10E4, sqlite3_errcode |-> \h1100,
   sqlite3_errmsg |-> \h1102, dart_isolate_spawn |-> \h2000,
   dart_isolate_exit |-> \h2001, dart_gc_minor |-> \h2010,
   dart_gc_major |-> \h2011, dart_stack_sample |-> \h2030,
   ffi_entry |-> \h3000, ffi_exit |-> \h3001,
   ffi_string_to_native |-> \h3010, ffi_string_from_native |-> \h3011]

(* The user's spans start here (lib/src/producer.dart).                    *)
UserSpanIdStart == \h4000

Args(begin, end) == [begin |-> begin, end |-> end]

Rc == <<"i32">>
OfStmt(end) == Args(<<"ptr">>, end)
OfColumn(end) == Args(<<"ptr", "i32">>, end)
OfBind(value) == Args(<<"ptr", "i32", value>>, Rc)

(* tool/spans.yaml                                                         *)
Schema ==
  [sqlite3_open |-> Args(<<"string_id">>, <<"ptr", "i32">>),
   sqlite3_open_v2 |-> Args(<<"string_id", "i32", "string_id">>, <<"ptr", "i32">>),
   sqlite3_close |-> Args(<<"ptr">>, Rc), sqlite3_close_v2 |-> Args(<<"ptr">>, Rc),
   sqlite3_prepare_v2 |-> Args(<<"ptr", "string_id">>, <<"ptr", "i32">>),
   sqlite3_prepare_v3 |-> Args(<<"ptr", "string_id", "u32">>, <<"ptr", "i32">>),
   sqlite3_finalize |-> OfStmt(Rc), sqlite3_step |-> OfStmt(Rc),
   sqlite3_reset |-> OfStmt(Rc), sqlite3_clear_bindings |-> OfStmt(Rc),
   sqlite3_bind_null |-> Args(<<"ptr", "i32">>, Rc),
   sqlite3_bind_int |-> OfBind("i64"), sqlite3_bind_int64 |-> OfBind("i64"),
   sqlite3_bind_double |-> OfBind("f64"),
   sqlite3_bind_text |-> OfBind("bytes_len"),
   sqlite3_bind_blob |-> OfBind("bytes_len"),
   sqlite3_column_count |-> OfStmt(<<"i32">>),
   sqlite3_column_int |-> OfColumn(<<"i64">>),
   sqlite3_column_int64 |-> OfColumn(<<"i64">>),
   sqlite3_column_double |-> OfColumn(<<"f64">>),
   sqlite3_column_text |-> OfColumn(<<"bytes_len">>),
   sqlite3_column_blob |-> OfColumn(<<"bytes_len">>),
   sqlite3_column_bytes |-> OfColumn(<<"bytes_len">>),
   sqlite3_exec |-> Args(<<"ptr", "string_id">>, Rc),
   sqlite3_changes |-> Args(<<"ptr">>, <<"i32">>),
   sqlite3_total_changes |-> Args(<<"ptr">>, <<"i32">>),
   sqlite3_last_insert_rowid |-> Args(<<"ptr">>, <<"i64">>),
   sqlite3_errcode |-> Args(<<"ptr">>, <<"i32">>),
   sqlite3_errmsg |-> Args(<<"ptr">>, <<"string_id">>)]

-----------------------------------------------------------------------------
(* Conversions.                                                            *)

(* The values of a conversion's C type.                                    *)
Domain(conversion) ==
  CASE conversion \in {"u32", "sx", "clamped"} -> -(Word32 \div 2)..(Word32 \div 2)-1
    [] conversion = "i64"                      -> -(Word64 \div 2)..(Word64 \div 2)-1
    [] conversion = "f64"                      -> {"nan", "real"}
    [] conversion = "unsigned"                 -> 0..Word32-1
    [] conversion = "length"                   -> 0..(Word32 \div 2)-1
    [] conversion = "string"                   -> {"string", "NULL"}
    [] OTHER                                   -> 0..Word64-1

(* "u32" is (uint64_t)(uint32_t)v of an int, "length" that of an int that  *)
(* counts bytes, "sx" (uint64_t)(int64_t)v of an int, "clamped" takes a    *)
(* negative length for 0, "string" interns and has 0xFFFFFFFF for NULL,    *)
(* "f64" is pack_f64, "flag" tells whether a pointer is NULL.              *)
Encode(conversion, v) ==
  CASE conversion \in {"u32", "length"} -> v % Word32
    [] conversion \in {"sx", "i64"}      -> v % Word64
    [] conversion = "clamped"            -> IF v < 0 THEN 0 ELSE v
    [] conversion = "flag"               -> IF v = 0 THEN 0 ELSE 1
    [] OTHER                             -> v

Signed(w, width) == IF w >= width \div 2 THEN w - width ELSE w

(* What a reader that knows the schema takes a word for.                   *)
Decode(type, w) ==
  CASE type = "i32" -> Signed(w % Word32, Word32)
    [] type = "u32" -> w % Word32
    [] type = "i64" -> Signed(w, Word64)
    [] OTHER        -> w

(* A length that is negative stands for no bytes.                          *)
Meant(conversion, v) == IF conversion = "clamped" /\ v < 0 THEN 0 ELSE v

-----------------------------------------------------------------------------
(* The wrappers.                                                           *)

Wrapper(span, begin, end) == [span |-> span, begin |-> begin, end |-> end]

sqlite3_open == Wrapper("sqlite3_open", <<"string">>, <<"ptr", "u32">>)

sqlite3_open_v2 ==
  Wrapper("sqlite3_open_v2", <<"string", "u32", "string">>, <<"ptr", "u32">>)

sqlite3_close == Wrapper("sqlite3_close", <<"ptr">>, <<"u32">>)

sqlite3_close_v2 == Wrapper("sqlite3_close_v2", <<"ptr">>, <<"u32">>)

sqlite3_prepare_v3 ==
  Wrapper("sqlite3_prepare_v3", <<"ptr", "string", "unsigned">>,
          <<"ptr", "u32">>)

sqlite3_prepare_v2 ==
  Wrapper("sqlite3_prepare_v2", <<"ptr", "string">>, <<"ptr", "u32">>)

sqlite3_step == Wrapper("sqlite3_step", <<"ptr">>, <<"u32">>)

sqlite3_reset == Wrapper("sqlite3_reset", <<"ptr">>, <<"u32">>)

sqlite3_finalize == Wrapper("sqlite3_finalize", <<"ptr">>, <<"u32">>)

sqlite3_bind_int64 ==
  Wrapper("sqlite3_bind_int64", <<"ptr", "u32", "i64">>, <<"u32">>)

(* Mutant: the value is not widened as a signed number.                    *)
BindIntUnsigned ==
  Wrapper("sqlite3_bind_int", <<"ptr", "u32", "u32">>, <<"u32">>)

sqlite3_bind_int ==
  Wrapper("sqlite3_bind_int", <<"ptr", "u32", "sx">>, <<"u32">>)

sqlite3_bind_null ==
  Wrapper("sqlite3_bind_null", <<"ptr", "u32">>, <<"u32">>)

sqlite3_bind_double ==
  Wrapper("sqlite3_bind_double", <<"ptr", "u32", "f64">>, <<"u32">>)

(* The length is nByte, or strlen when nByte is negative: the bytes bound. *)
sqlite3_bind_text ==
  Wrapper("sqlite3_bind_text", <<"ptr", "u32", "length">>, <<"u32">>)

sqlite3_bind_blob ==
  Wrapper("sqlite3_bind_blob", <<"ptr", "u32", "clamped">>, <<"u32">>)

(* It shares the span of sqlite3_bind_blob.                                *)
sqlite3_bind_blob64 ==
  Wrapper("sqlite3_bind_blob", <<"ptr", "u32", "size">>, <<"u32">>)

sqlite3_clear_bindings ==
  Wrapper("sqlite3_clear_bindings", <<"ptr">>, <<"u32">>)

sqlite3_column_count == Wrapper("sqlite3_column_count", <<"ptr">>, <<"u32">>)

sqlite3_column_int ==
  Wrapper("sqlite3_column_int", <<"ptr", "u32">>, <<"sx">>)

sqlite3_column_int64 ==
  Wrapper("sqlite3_column_int64", <<"ptr", "u32">>, <<"i64">>)

sqlite3_column_double ==
  Wrapper("sqlite3_column_double", <<"ptr", "u32">>, <<"f64">>)

sqlite3_column_text ==
  Wrapper("sqlite3_column_text", <<"ptr", "u32">>, <<"size">>)

sqlite3_column_blob ==
  Wrapper("sqlite3_column_blob", <<"ptr", "u32">>, <<"flag">>)

sqlite3_column_bytes ==
  Wrapper("sqlite3_column_bytes", <<"ptr", "u32">>, <<"length">>)

sqlite3_exec == Wrapper("sqlite3_exec", <<"ptr", "string">>, <<"u32">>)

sqlite3_changes == Wrapper("sqlite3_changes", <<"ptr">>, <<"u32">>)

sqlite3_total_changes == Wrapper("sqlite3_total_changes", <<"ptr">>, <<"u32">>)

sqlite3_last_insert_rowid ==
  Wrapper("sqlite3_last_insert_rowid", <<"ptr">>, <<"i64">>)

sqlite3_errcode == Wrapper("sqlite3_errcode", <<"ptr">>, <<"u32">>)

sqlite3_errmsg == Wrapper("sqlite3_errmsg", <<"ptr">>, <<"string">>)

Wrappers ==
  {sqlite3_open, sqlite3_open_v2, sqlite3_close, sqlite3_close_v2,
   sqlite3_prepare_v3, sqlite3_prepare_v2, sqlite3_step, sqlite3_reset,
   sqlite3_finalize, sqlite3_bind_int64, sqlite3_bind_int, sqlite3_bind_null,
   sqlite3_bind_double, sqlite3_bind_text, sqlite3_bind_blob,
   sqlite3_bind_blob64, sqlite3_clear_bindings, sqlite3_column_count,
   sqlite3_column_int, sqlite3_column_int64, sqlite3_column_double,
   sqlite3_column_text, sqlite3_column_blob, sqlite3_column_bytes,
   sqlite3_exec, sqlite3_changes, sqlite3_total_changes,
   sqlite3_last_insert_rowid, sqlite3_errcode, sqlite3_errmsg}

-----------------------------------------------------------------------------
(* The words of an event are as many as its schema has arguments, and each *)
(* decodes to the value of the call.                                       *)
Carries(conversions, types) ==
  /\ Len(conversions) = Len(types)
  /\ \A p \in 1..Len(types) : \A v \in Domain(conversions[p]) :
       Decode(types[p], Encode(conversions[p], v)) = Meant(conversions[p], v)

(* Every word of every wrapper's events is the argument the vocabulary     *)
(* declares at its place, with the exception of the END of                 *)
(* sqlite3_column_blob, which is 0 or 1 where a length is declared; and    *)
(* spans are told apart by their ids.                                      *)
WrappersDescribed ==
  /\ \A f \in Wrappers :
       /\ Carries(f.begin, Schema[f.span].begin)
       /\ Carries(f.end, Schema[f.span].end) <=> f # sqlite3_column_blob
  /\ \A s, u \in DOMAIN SpanId : SpanId[s] = SpanId[u] => s = u
  /\ \A s \in DOMAIN SpanId : SpanId[s] < UserSpanIdStart
=============================================================================
