-------------------------------- MODULE Api --------------------------------
(***************************************************************************)
(* The methods of the extension's classes, as the rest of the program can  *)
(* tell them apart: how a method enters V8, the handles it hands to V8,    *)
(* and what it tests of them before (the *_FETCH_WITH_CHECK and            *)
(* PHP_V8_DATA_ISOLATES_CHECK macros).                                     *)
(*                                                                         *)
(* A handle is named by its role in the call.  `this` of a constructor is  *)
(* what is being made and no role; a handle that may be null is listed, as *)
(* the tests apply to it whenever it is given.                             *)
(***************************************************************************)

\* How a method enters V8:
\*   watched  under a v8::TryCatch and the limits, left by PHP_V8_MAYBE_CATCH
\*   bare     JavaScript may run, or throw, with neither of them
\*   quiet    V8 is called, but no script runs and V8 throws nothing
\*   read     only the PHP object is read
Ways == {"watched", "bare", "quiet", "read"}

\* Roles whose isolate is not compared (loose) are an argument of their own;
\* an emptiness test is made of every handle.
Method(class, name, way, roles, loose) ==
    [method |-> <<class, name>>, way |-> way, roles |-> roles, loose |-> loose]

Rows(class, names, way, roles) == {Method(class, n, way, roles, {}) : n \in names}

Watched(class, names, roles) == Rows(class, names, "watched", roles)
Bare(class, names, roles)    == Rows(class, names, "bare", roles)
Quiet(class, names, roles)   == Rows(class, names, "quiet", roles)
Reads(class, names)          == Rows(class, names, "read", {"this"})

-----------------------------------------------------------------------------
\* V8\Value

ValueConversions ==
    Watched("Value", {"toBoolean", "toNumber", "toString", "toDetailString", "toObject"},
            {"this", "context"})

ValueIntegerConversions ==
    Watched("Value", {"toInteger", "toUint32", "toInt32", "toArrayIndex"}, {"this", "context"})

\* Converting an object calls its valueOf() or toString(); to a boolean, nothing.
ValuePrimitives ==
    Quiet("Value", {"booleanValue"}, {"this", "context"}) \union
    Bare("Value", {"numberValue", "integerValue", "uint32Value", "int32Value"}, {"this", "context"})

ValueComparisons ==
    Bare("Value", {"equals"}, {"this", "context", "value"}) \union
    Quiet("Value", {"strictEquals", "sameValue"}, {"this", "value"}) \union
    Quiet("Value", {"typeOf"}, {"this"}) \union
    Watched("Value", {"instanceOf"}, {"this", "context", "value"})

\* Five of the Is...() tests stand for all of them: they are one macro.
ValueTests ==
    Reads("Value", {"getIsolate"}) \union
    Quiet("Value", {"isUndefined", "isObject", "isFunction", "isNativeError", "isProxy"}, {"this"})

-----------------------------------------------------------------------------
\* V8\ObjectValue

ObjectWrites ==
    Reads("ObjectValue", {"getContext"}) \union
    Watched("ObjectValue", {"set", "createDataProperty", "defineOwnProperty"},
            {"this", "context", "key", "value"})

ObjectReads ==
    Watched("ObjectValue", {"get", "getPropertyAttributes", "getOwnPropertyDescriptor", "has"},
            {"this", "context", "key"})

ObjectAccessors ==
    Watched("ObjectValue", {"delete"}, {"this", "context", "key"}) \union
    Quiet("ObjectValue", {"setAccessor"}, {"this", "context", "key"}) \union
    Quiet("ObjectValue", {"setAccessorProperty"}, {"this", "key", "getter", "setter"})

ObjectDataProperties ==
    Quiet("ObjectValue", {"setNativeDataProperty", "setLazyDataProperty"}, {"this", "context", "key"})

ObjectNamesAndPrototype ==
    Watched("ObjectValue", {"getPropertyNames", "getOwnPropertyNames"}, {"this", "context"}) \union
    Watched("ObjectValue", {"getPrototype"}, {"this"}) \union
    Watched("ObjectValue", {"setPrototype"}, {"this", "context", "value"})

ObjectStructure ==
    Watched("ObjectValue", {"findInstanceInPrototypeChain"}, {"this", "template"}) \union
    Watched("ObjectValue", {"objectProtoToString", "setIntegrityLevel"}, {"this", "context"}) \union
    Quiet("ObjectValue", {"getConstructorName"}, {"this"}) \union
    Watched("ObjectValue", {"hasOwnProperty"}, {"this", "context", "key"})

ObjectRealProperties ==
    Watched("ObjectValue", {"hasRealNamedProperty", "hasRealNamedCallbackProperty",
                            "getRealNamedPropertyInPrototypeChain"}, {"this", "context", "key"}) \union
    Watched("ObjectValue", {"hasRealIndexedProperty"}, {"this", "context"})

\* getRealNamedProperty() may run a getter as its siblings do.
ObjectRealPropertyValues ==
    Watched("ObjectValue", {"getRealNamedPropertyAttributesInPrototypeChain",
                            "getRealNamedPropertyAttributes"}, {"this", "context", "key"}) \union
    Bare("ObjectValue", {"getRealNamedProperty"}, {"this", "context", "key"})

ObjectTraits ==
    Quiet("ObjectValue", {"hasNamedLookupInterceptor", "hasIndexedLookupInterceptor",
                          "getIdentityHash", "isCallable", "isConstructor"}, {"this"}) \union
    Watched("ObjectValue", {"clone"}, {"this"})

ObjectCalls ==
    Watched("ObjectValue", {"callAsFunction"}, {"this", "context", "receiver", "arguments"}) \union
    Watched("ObjectValue", {"callAsConstructor"}, {"this", "context", "arguments"})

-----------------------------------------------------------------------------
\* Functions, scripts and the compiler

FunctionCalls ==
    Watched("FunctionObject", {"newInstance"}, {"this", "context", "arguments"}) \union
    Watched("FunctionObject", {"call"}, {"this", "context", "receiver", "arguments"})

FunctionProperties ==
    Quiet("FunctionObject", {"setName"}, {"this", "string"}) \union
    Quiet("FunctionObject", {"getName", "getInferredName", "getDisplayName", "getScriptLineNumber",
                             "getScriptColumnNumber", "getScriptId", "getBoundFunction",
                             "getScriptOrigin"}, {"this"})

Scripts ==
    Watched("Script", {"__construct"}, {"context", "string"}) \union
    Reads("Script", {"getIsolate", "getContext"}) \union
    Watched("Script", {"run"}, {"this", "context"}) \union
    Quiet("Script", {"getUnboundScript"}, {"this"})

UnboundScripts ==
    Reads("UnboundScript", {"getIsolate"}) \union
    Quiet("UnboundScript", {"bindToContext"}, {"this", "context"}) \union
    Quiet("UnboundScript", {"getId", "getScriptName", "getSourceURL", "getSourceMappingURL",
                            "getLineNumber"}, {"this"})

Compilations ==
    Watched("ScriptCompiler", {"compileUnboundScript", "compile"}, {"context", "string"})

FunctionCompilation ==
    Watched("ScriptCompiler", {"compileFunctionInContext"}, {"context", "string", "arguments"}) \union
    Quiet("ScriptCompiler", {"createCodeCache"}, {"this", "string"})

CachedDataReads == Reads("CachedData", {"getData", "isRejected"})

JsonCalls ==
    Watched("JSON", {"parse"}, {"context", "string"}) \union
    Watched("JSON", {"stringify"}, {"context", "value", "gap"})

-----------------------------------------------------------------------------
\* Collections and special objects.  A constructor whose V8 call may throw (the
\* pattern of a RegExp, a revoked Proxy) is bare.

ObjectConstructors == Quiet("ObjectValue", {"__construct"}, {"context"})

ArrayMethods ==
    Quiet("ArrayObject", {"__construct"}, {"context"}) \union Quiet("ArrayObject", {"length"}, {"this"})

MapMethods ==
    Quiet("MapObject", {"__construct"}, {"context"}) \union
    Quiet("MapObject", {"size", "clear"}, {"this"}) \union
    Watched("MapObject", {"get", "has"}, {"this", "context", "key"}) \union
    Watched("MapObject", {"set"}, {"this", "context", "key", "value"})

MapRemovals ==
    Watched("MapObject", {"delete"}, {"this", "context", "key"}) \union
    Watched("MapObject", {"asArray"}, {"this"})

SetMethods ==
    Quiet("SetObject", {"__construct"}, {"context"}) \union
    Quiet("SetObject", {"size", "clear"}, {"this"}) \union
    Watched("SetObject", {"add", "has", "delete"}, {"this", "context", "key"})

SetAsArray == Watched("SetObject", {"asArray"}, {"this"})

\* Then and Catch look up the promise's constructor.
PromiseMethods ==
    Quiet("PromiseObject", {"__construct"}, {"context"}) \union
    Bare("PromiseObject", {"catch", "then"}, {"this", "context", "value"}) \union
    Quiet("PromiseObject", {"hasHandler", "result", "state"}, {"this"})

ResolverMethods ==
    Quiet("Resolver", {"__construct"}, {"context"}) \union
    Bare("Resolver", {"resolve", "reject"}, {"this", "context", "value"})

ProxyMethods ==
    Bare("ProxyObject", {"__construct"}, {"context", "target", "handler"}) \union
    Quiet("ProxyObject", {"getTarget", "getHandler", "isRevoked", "revoke"}, {"this"})

RegExpMethods ==
    {Method("RegExpObject", "__construct", "bare", {"context", "string"}, {"string"})} \union
    Quiet("RegExpObject", {"getSource", "getFlags"}, {"this"})

DateMethods ==
    Quiet("DateObject", {"__construct"}, {"context"}) \union
    Quiet("DateObject", {"valueOf"}, {"this"}) \union
    Quiet("DateObject", {"dateTimeConfigurationChangeNotification"}, {"isolate"})

StringObjectMethods ==
    {Method("StringObject", "__construct", "quiet", {"context", "string"}, {"string"})} \union
    Quiet("StringObject", {"valueOf"}, {"this"})

SymbolObjectMethods ==
    Quiet("SymbolObject", {"__construct"}, {"context", "value"}) \union
    Quiet("SymbolObject", {"valueOf"}, {"this"})

NumberObjectMethods ==
    Quiet("NumberObject", {"__construct"}, {"context"}) \union Quiet("NumberObject", {"valueOf"}, {"this"})

BooleanObjectMethods ==
    Quiet("BooleanObject", {"__construct"}, {"context"}) \union Quiet("BooleanObject", {"valueOf"}, {"this"})

-----------------------------------------------------------------------------
\* Primitive values

StringMethods ==
    Quiet("StringValue", {"__construct"}, {"isolate"}) \union
    Quiet("StringValue", {"value", "length", "utf8Length", "isOneByte", "containsOnlyOneByte"}, {"this"})

SymbolMethods ==
    Quiet("SymbolValue", {"__construct"}, {"isolate", "string"}) \union
    Quiet("SymbolValue", {"value", "name"}, {"this"}) \union
    Quiet("SymbolValue", {"createFor", "createForApi"}, {"context", "string"})

NumberMethods  == Quiet("NumberValue", {"__construct"}, {"isolate"}) \union Quiet("NumberValue", {"value"}, {"this"})
IntegerMethods == Quiet("IntegerValue", {"__construct"}, {"isolate"}) \union Quiet("IntegerValue", {"value"}, {"this"})
Int32Methods   == Quiet("Int32Value", {"__construct"}, {"isolate"}) \union Quiet("Int32Value", {"value"}, {"this"})
Uint32Methods  == Quiet("Uint32Value", {"__construct"}, {"isolate"}) \union Quiet("Uint32Value", {"value"}, {"this"})
BooleanMethods == Quiet("BooleanValue", {"__construct"}, {"isolate"}) \union Quiet("BooleanValue", {"value"}, {"this"})
NullMethods    == Quiet("NullValue", {"__construct"}, {"isolate"})
UndefinedMethods == Quiet("UndefinedValue", {"__construct"}, {"isolate"}) \union Reads("UndefinedValue", {"value"})
NameMethods    == Quiet("NameValue", {"getIdentityHash"}, {"this"})

-----------------------------------------------------------------------------
\* Contexts, isolates, templates and errors

ContextConstructor == Quiet("Context", {"__construct"}, {"isolate", "template", "value"})

ContextMethods ==
    Reads("Context", {"getIsolate"}) \union
    Quiet("Context", {"globalObject", "detachGlobal", "useDefaultSecurityToken", "getSecurityToken",
                      "allowCodeGenerationFromStrings", "isCodeGenerationFromStringsAllowed"}, {"this"}) \union
    {Method("Context", "setSecurityToken", "quiet", {"this", "value"}, {"value"})} \union
    Quiet("Context", {"setErrorMessageForCodeGenerationFromStrings"}, {"this", "string"})

\* PHP code runs with the isolate entered; a method it calls enters it again.
ContextWithin == Quiet("Context", {"within"}, {"this"})
IsolateWithin == Quiet("Isolate", {"within"}, {"this"})

\* What it does besides is ThrowValue and Associate of Entries.
IsolateThrow == Quiet("Isolate", {"throwException"}, {"this", "context", "value"})

IsolateLimitReads ==
    Reads("Isolate", {"getTimeLimit", "isTimeLimitHit", "getMemoryLimit", "isMemoryLimitHit"})

IsolateMethods ==
    Quiet("Isolate", {"memoryPressureNotification", "getHeapStatistics", "inContext",
                      "getEnteredContext"}, {"this"})

IsolateNotifications ==
    Quiet("Isolate", {"idleNotificationDeadline", "lowMemoryNotification", "setRAILMode",
                      "terminateExecution", "isExecutionTerminating",
                      "cancelTerminateExecution", "setCaptureStackTraceForUncaughtExceptions",
                      "isDead", "isInUse"}, {"this"})

FunctionTemplateConstructor == Quiet("FunctionTemplate", {"__construct"}, {"isolate", "template"})

FunctionTemplateMethods ==
    Quiet("FunctionTemplate", {"getFunction"}, {"this", "context"}) \union
    Quiet("FunctionTemplate", {"setCallHandler", "setLength", "instanceTemplate", "prototypeTemplate"},
          {"this"}) \union
    {Method("FunctionTemplate", "inherit", "quiet", {"this", "template"}, {"template"})}

FunctionTemplateSettings ==
    Quiet("FunctionTemplate", {"setClassName"}, {"this", "string"}) \union
    Quiet("FunctionTemplate", {"setAcceptAnyReceiver", "setHiddenPrototype", "readOnlyPrototype",
                               "removePrototype"}, {"this"}) \union
    {Method("FunctionTemplate", "hasInstance", "quiet", {"this", "value"}, {"value"})}

ObjectTemplateConstructor == Quiet("ObjectTemplate", {"__construct"}, {"isolate", "template"})

ObjectTemplateInstances ==
    Quiet("ObjectTemplate", {"newInstance"}, {"this", "context"}) \union
    Quiet("ObjectTemplate", {"setAccessor"}, {"this", "key", "template"})

ObjectTemplateHandlers ==
    Quiet("ObjectTemplate", {"setHandlerForNamedProperty", "setHandlerForIndexedProperty",
                             "setCallAsFunctionHandler", "isImmutableProto", "setImmutableProto"}, {"this"})

TemplateProperties == Quiet("Template", {"set"}, {"this", "key", "value"})

TemplateAccessorProperties ==
    Quiet("Template", {"setAccessorProperty"}, {"this", "key", "getter", "setter"})

TemplateDataProperties ==
    Quiet("Template", {"setNativeDataProperty"}, {"this", "key", "template"}) \union
    Quiet("Template", {"setLazyDataProperty"}, {"this", "key"})

\* CallbackReturn says what they do to the result.
ReturnValueMethods ==
    Quiet("ReturnValue", {"set"}, {"this", "value"}) \union
    Quiet("ReturnValue", {"setNull", "setUndefined", "setEmptyString", "setBool", "setInteger",
                          "setFloat", "get"}, {"this"})

ErrorFactories ==
    Quiet("ExceptionManager", {"createRangeError", "createReferenceError", "createSyntaxError",
                               "createTypeError", "createError"}, {"context", "string"})

ErrorQueries ==
    Quiet("ExceptionManager", {"createMessage", "getStackTrace"}, {"context", "value"})

CurrentStackTrace == Quiet("StackTrace", {"currentStackTrace"}, {"isolate"})

\* The objects that describe a caught exception are PHP objects, but no
\* exception of another isolate is put into them.
CaughtRecords ==
    Rows("TryCatch", {"__construct"}, "read", {"isolate", "context", "value", "stack_trace"})

CaughtExceptions ==
    Rows("TryCatchException", {"__construct"}, "read", {"isolate", "context", "try_catch"})

-----------------------------------------------------------------------------
Methods ==
    UNION {ValueConversions, ValueIntegerConversions, ValuePrimitives, ValueComparisons, ValueTests,
           ObjectWrites, ObjectReads, ObjectAccessors, ObjectDataProperties, ObjectNamesAndPrototype,
           ObjectStructure, ObjectRealProperties, ObjectRealPropertyValues, ObjectTraits, ObjectCalls,
           FunctionCalls, FunctionProperties, Scripts, UnboundScripts, Compilations,
           FunctionCompilation, CachedDataReads, JsonCalls, ObjectConstructors, ArrayMethods,
           MapMethods, MapRemovals, SetMethods, SetAsArray, PromiseMethods, ResolverMethods,
           ProxyMethods, RegExpMethods, DateMethods, StringObjectMethods, SymbolObjectMethods,
           NumberObjectMethods, BooleanObjectMethods, StringMethods, SymbolMethods, NumberMethods,
           IntegerMethods, Int32Methods, Uint32Methods, BooleanMethods, NullMethods,
           UndefinedMethods, NameMethods, ContextConstructor, ContextMethods, ContextWithin,
           IsolateWithin, IsolateThrow, IsolateLimitReads,
           IsolateMethods, IsolateNotifications, FunctionTemplateConstructor,
           FunctionTemplateMethods, FunctionTemplateSettings, ObjectTemplateConstructor,
           ObjectTemplateInstances, ObjectTemplateHandlers, TemplateProperties,
           TemplateAccessorProperties, TemplateDataProperties, ReturnValueMethods,
           ErrorFactories, ErrorQueries, CurrentStackTrace, CaughtRecords, CaughtExceptions}
=============================================================================
