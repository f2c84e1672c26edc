SPECIFICATION Spec
CONSTANT FieldId <- MCFieldId
CONSTANT Cases <- MCCases
CONSTANT ChangedBytes <- MCChangedBytes
INVARIANTS ReadAsWritten DamageRefused OneFittingDocument
