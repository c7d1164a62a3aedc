------------------------------ MODULE OpcodeTable ------------------------------
(***************************************************************************)
(* The names of the opcodes (src/src/opcode_table.cc).  An opcode is its   *)
(* name in these modules, so the map from numbers to names is the set of   *)
(* opcodes it has an entry for.                                            *)
(***************************************************************************)

opcode_to_name == {
  "CACHE", "POP_TOP", "PUSH_NULL", "INTERPRETER_EXIT", "END_FOR", "END_SEND", "NOP",
  "UNARY_NEGATIVE", "UNARY_NOT", "UNARY_INVERT", "RESERVED", "BINARY_SUBSCR", "BINARY_SLICE",
  "STORE_SLICE", "GET_LEN", "MATCH_MAPPING", "MATCH_SEQUENCE", "MATCH_KEYS", "PUSH_EXC_INFO",
  "CHECK_EXC_MATCH", "CHECK_EG_MATCH", "WITH_EXCEPT_START", "GET_AITER", "GET_ANEXT",
  "BEFORE_ASYNC_WITH", "BEFORE_WITH", "END_ASYNC_FOR", "CLEANUP_THROW", "STORE_SUBSCR",
  "DELETE_SUBSCR", "GET_ITER", "GET_YIELD_FROM_ITER", "LOAD_BUILD_CLASS", "LOAD_ASSERTION_ERROR",
  "RETURN_GENERATOR", "RETURN_VALUE", "SETUP_ANNOTATIONS", "LOAD_LOCALS", "POP_EXCEPT",
  "HAVE_ARGUMENT", "STORE_NAME", "DELETE_NAME", "UNPACK_SEQUENCE", "FOR_ITER", "UNPACK_EX",
  "STORE_ATTR", "DELETE_ATTR", "STORE_GLOBAL", "DELETE_GLOBAL", "SWAP", "LOAD_CONST", "LOAD_NAME",
  "BUILD_TUPLE", "BUILD_LIST", "BUILD_SET", "BUILD_MAP", "LOAD_ATTR", "COMPARE_OP", "IMPORT_NAME",
  "IMPORT_FROM", "JUMP_FORWARD", "POP_JUMP_IF_FALSE", "POP_JUMP_IF_TRUE", "LOAD_GLOBAL", "IS_OP",
  "CONTAINS_OP", "RERAISE", "COPY", "RETURN_CONST", "BINARY_OP", "SEND", "LOAD_FAST",
  "STORE_FAST", "DELETE_FAST", "LOAD_FAST_CHECK", "POP_JUMP_IF_NOT_NONE", "POP_JUMP_IF_NONE",
  "RAISE_VARARGS", "GET_AWAITABLE", "MAKE_FUNCTION", "BUILD_SLICE", "JUMP_BACKWARD_NO_INTERRUPT",
  "MAKE_CELL", "LOAD_CLOSURE", "LOAD_DEREF", "STORE_DEREF", "DELETE_DEREF", "JUMP_BACKWARD",
  "LOAD_SUPER_ATTR", "CALL_FUNCTION_EX", "LOAD_FAST_AND_CLEAR", "EXTENDED_ARG", "LIST_APPEND",
  "SET_ADD", "MAP_ADD", "COPY_FREE_VARS", "YIELD_VALUE", "RESUME", "MATCH_CLASS", "FORMAT_VALUE",
  "BUILD_CONST_KEY_MAP", "BUILD_STRING", "LIST_EXTEND", "SET_UPDATE", "DICT_MERGE", "DICT_UPDATE",
  "CALL", "KW_NAMES", "CALL_INTRINSIC_1", "CALL_INTRINSIC_2", "LOAD_FROM_DICT_OR_GLOBALS",
  "LOAD_FROM_DICT_OR_DEREF", "MIN_INSTRUMENTED_OPCODE", "INSTRUMENTED_LOAD_SUPER_ATTR",
  "INSTRUMENTED_POP_JUMP_IF_NONE", "INSTRUMENTED_POP_JUMP_IF_NOT_NONE", "INSTRUMENTED_RESUME",
  "INSTRUMENTED_CALL", "INSTRUMENTED_RETURN_VALUE", "INSTRUMENTED_YIELD_VALUE",
  "INSTRUMENTED_CALL_FUNCTION_EX", "INSTRUMENTED_JUMP_FORWARD", "INSTRUMENTED_JUMP_BACKWARD",
  "INSTRUMENTED_RETURN_CONST", "INSTRUMENTED_FOR_ITER", "INSTRUMENTED_POP_JUMP_IF_FALSE",
  "INSTRUMENTED_POP_JUMP_IF_TRUE", "INSTRUMENTED_END_FOR", "INSTRUMENTED_END_SEND",
  "INSTRUMENTED_INSTRUCTION", "INSTRUMENTED_LINE", "MIN_PSEUDO_OPCODE", "SETUP_FINALLY",
  "SETUP_CLEANUP", "SETUP_WITH", "POP_BLOCK", "JUMP", "JUMP_NO_INTERRUPT", "LOAD_METHOD",
  "LOAD_SUPER_METHOD", "LOAD_ZERO_SUPER_METHOD", "LOAD_ZERO_SUPER_ATTR", "STORE_FAST_MAYBE_NULL",
  "MAX_PSEUDO_OPCODE", "BINARY_OP_ADD_FLOAT", "BINARY_OP_ADD_INT", "BINARY_OP_ADD_UNICODE",
  "BINARY_OP_INPLACE_ADD_UNICODE", "BINARY_OP_MULTIPLY_FLOAT", "BINARY_OP_MULTIPLY_INT",
  "BINARY_OP_SUBTRACT_FLOAT", "BINARY_OP_SUBTRACT_INT", "BINARY_SUBSCR_DICT",
  "BINARY_SUBSCR_GETITEM", "BINARY_SUBSCR_LIST_INT", "BINARY_SUBSCR_TUPLE_INT",
  "CALL_PY_EXACT_ARGS", "CALL_PY_WITH_DEFAULTS", "CALL_BOUND_METHOD_EXACT_ARGS",
  "CALL_BUILTIN_CLASS", "CALL_BUILTIN_FAST_WITH_KEYWORDS",
  "CALL_METHOD_DESCRIPTOR_FAST_WITH_KEYWORDS", "CALL_NO_KW_BUILTIN_FAST", "CALL_NO_KW_BUILTIN_O",
  "CALL_NO_KW_ISINSTANCE", "CALL_NO_KW_LEN", "CALL_NO_KW_LIST_APPEND",
  "CALL_NO_KW_METHOD_DESCRIPTOR_FAST", "CALL_NO_KW_METHOD_DESCRIPTOR_NOARGS",
  "CALL_NO_KW_METHOD_DESCRIPTOR_O", "CALL_NO_KW_STR_1", "CALL_NO_KW_TUPLE_1", "CALL_NO_KW_TYPE_1",
  "COMPARE_OP_FLOAT", "COMPARE_OP_INT", "COMPARE_OP_STR", "FOR_ITER_LIST", "FOR_ITER_TUPLE",
  "FOR_ITER_RANGE", "FOR_ITER_GEN", "LOAD_SUPER_ATTR_ATTR", "LOAD_SUPER_ATTR_METHOD",
  "LOAD_ATTR_CLASS", "LOAD_ATTR_GETATTRIBUTE_OVERRIDDEN", "LOAD_ATTR_INSTANCE_VALUE",
  "LOAD_ATTR_MODULE", "LOAD_ATTR_PROPERTY", "LOAD_ATTR_SLOT", "LOAD_ATTR_WITH_HINT",
  "LOAD_ATTR_METHOD_LAZY_DICT", "LOAD_ATTR_METHOD_NO_DICT", "LOAD_ATTR_METHOD_WITH_VALUES",
  "LOAD_CONST__LOAD_FAST", "LOAD_FAST__LOAD_CONST", "LOAD_FAST__LOAD_FAST", "LOAD_GLOBAL_BUILTIN",
  "LOAD_GLOBAL_MODULE", "STORE_ATTR_INSTANCE_VALUE", "STORE_ATTR_SLOT", "STORE_ATTR_WITH_HINT",
  "STORE_FAST__LOAD_FAST", "STORE_FAST__STORE_FAST", "STORE_SUBSCR_DICT", "STORE_SUBSCR_LIST_INT",
  "UNPACK_SEQUENCE_LIST", "UNPACK_SEQUENCE_TUPLE", "UNPACK_SEQUENCE_TWO_TUPLE", "SEND_GEN" }

\* Mutant: the entry of an opcode the switch has a case for is missing.
HasNameButConstKeyMap(op) == op \in opcode_to_name \ {"BUILD_CONST_KEY_MAP"}
\* CHECK in OpcodeToString: without an entry the process is aborted.
HasName(op) == op \in opcode_to_name
=============================================================================
