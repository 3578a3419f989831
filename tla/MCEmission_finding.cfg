SPECIFICATION EmitSpec
CONSTANTS
    Volatiles <- MCVolatiles
    Preserved = {"rbx"}
INVARIANT
    AddressIsSpared
