----------------------------- MODULE AuthProto ------------------------------
(***************************************************************************)
(* The messages of the auth service, package vectron.auth.v1               *)
(* (clientlibs/js/proto/auth). One definition per generated message; the   *)
(* service at the end names the message of each direction of each call.    *)
(***************************************************************************)
EXTENDS WireTypes

Plan ==
    [PLAN_UNSPECIFIED |-> 0, FREE |-> 1, PAID |-> 2]

SubscriptionStatus ==
    [SUBSCRIPTION_STATUS_UNSPECIFIED |-> 0, ACTIVE |-> 1, CANCELED |-> 2,
     PAST_DUE |-> 3]

UserProfile ==
    [id |-> string(1), email |-> string(2), createdAt |-> int64(3),
     plan |-> enum(4, Plan), subscriptionStatus |-> enum(5, SubscriptionStatus)]

APIKey ==
    [keyPrefix |-> string(1), userId |-> string(2), createdAt |-> int64(3),
     name |-> string(4)]

RegisterUserRequest == [email |-> string(1), password |-> string(2)]

RegisterUserResponse == [user |-> message(1, UserProfile)]

LoginRequest == [email |-> string(1), password |-> string(2)]

LoginResponse == [jwtToken |-> string(1), user |-> message(2, UserProfile)]

GetUserProfileRequest == NoFields

GetUserProfileResponse == [user |-> message(1, UserProfile)]

UpdateUserProfileRequest == [plan |-> enum(1, Plan)]

UpdateUserProfileResponse == [user |-> message(1, UserProfile), jwtToken |-> string(2)]

CreateAPIKeyRequest == [name |-> string(1)]

CreateAPIKeyResponse == [fullKey |-> string(1), keyInfo |-> message(2, APIKey)]

ListAPIKeysRequest == NoFields

ListAPIKeysResponse == [keys |-> repeated(message(1, APIKey))]

DeleteAPIKeyRequest == [keyPrefix |-> string(1)]

DeleteAPIKeyResponse == [success |-> bool(1)]

ValidateAPIKeyRequest == [fullKey |-> string(1)]

ValidateAPIKeyResponse ==
    [valid |-> bool(1), userId |-> string(2), plan |-> string(3),
     apiKeyId |-> string(4)]

CreateSDKJWTRequest == [apiKeyId |-> string(1)]

CreateSDKJWTResponse == [sdkJwt |-> string(1)]

GetAuthDetailsForSDKRequest == [apiKeyId |-> string(1)]

GetAuthDetailsForSDKResponse ==
    [userId |-> string(1), plan |-> enum(2, Plan), success |-> bool(3)]

DeleteUserRequest == [password |-> string(1)]

DeleteUserResponse == [success |-> bool(1)]

RefreshTokenRequest == NoFields

RefreshTokenResponse == [jwtToken |-> string(1), expiresAt |-> int64(2)]

----------------------------------------------------------------------------
(* A call of a service: its request, its response, and which is a stream.  *)

Call(request, response, requestStream, responseStream) ==
    [request |-> request, response |-> response,
     requestStream |-> requestStream, responseStream |-> responseStream]

AuthService ==
    [registerUser |-> Call(RegisterUserRequest, RegisterUserResponse, FALSE, FALSE),
     login |-> Call(LoginRequest, LoginResponse, FALSE, FALSE),
     getUserProfile |-> Call(GetUserProfileRequest, GetUserProfileResponse, FALSE, FALSE),
     updateUserProfile |-> Call(UpdateUserProfileRequest, UpdateUserProfileResponse, FALSE, FALSE),
     deleteUser |-> Call(DeleteUserRequest, DeleteUserResponse, FALSE, FALSE),
     refreshToken |-> Call(RefreshTokenRequest, RefreshTokenResponse, FALSE, FALSE),
     createApiKey |-> Call(CreateAPIKeyRequest, CreateAPIKeyResponse, FALSE, FALSE),
     listApiKeys |-> Call(ListAPIKeysRequest, ListAPIKeysResponse, FALSE, FALSE),
     deleteApiKey |-> Call(DeleteAPIKeyRequest, DeleteAPIKeyResponse, FALSE, FALSE),
     validateApiKey |-> Call(ValidateAPIKeyRequest, ValidateAPIKeyResponse, FALSE, FALSE),
     createSdkjwt |-> Call(CreateSDKJWTRequest, CreateSDKJWTResponse, FALSE, FALSE),
     getAuthDetailsForSdk |-> Call(GetAuthDetailsForSDKRequest, GetAuthDetailsForSDKResponse, FALSE, FALSE)]
=============================================================================
